----------------------------- MODULE Mount_proofs -----------------------------
(* Theorems about the mounted vault: its table of inodes, shared by the     *)
(* calls, the merges of refreshes and the publishes, and the contents of    *)
(* one file.  The two share no state; each has an invariant of its own, in  *)
(* that order.                                                              *)
EXTENDS MountFolders, MountFiles, SequenceTheorems, FiniteSetTheorems, TLAPS

-----------------------------------------------------------------------------
(* MountFolders: the parts of the invariant                                 *)

(* A table whose inodes are what their IPNS names are                       *)
FitTable(table, ids) ==
    /\ table \in [Inos -> Inode]
    /\ \A i \in Inos :
        /\ table[i].of \in ids
        /\ table[i].kind = "folder" => table[i].of \in FolderIds
        /\ table[i].kind = "file" => table[i].of \in FileIds
        /\ table[i].kind = "free" => table[i].of = Root /\ table[i].children = {}
        /\ table[i].loaded => table[i].listed

(* Numbers not yet given out are free, and no name leads to them            *)
FitNumbers ==
    /\ index \in [Inos \X Names -> Inos \cup {NoIno}]
    /\ nextIno \in 2..(MaxIno + 1)
    /\ \A i \in Inos : i >= nextIno => inode[i].kind = "free"
    /\ \A p \in Inos, n \in Names : index[<<p, n>>] < nextIno /\ index[<<p, n>>] # p

(* The table is empty until it is mounted, and a folder of the root still   *)
(* to be fetched has no entries                                             *)
FitMount ==
    /\ mount \in Phase
    /\ mount = Down =>
        /\ inode = [i \in Inos |-> IF i = RootIno THEN RootInode ELSE Free]
        /\ index = [key \in Inos \X Names |-> NoIno]
        /\ nextIno = RootIno + 1
    /\ mount.todo # {} => mount.up
    /\ \A i \in mount.todo : IsFolder(i) /\ \A n \in Names : index[<<i, n>>] = NoIno

KnownEntry(ids) == [name : Names, of : ids]
FitRecords ==
    /\ record \in [FolderIds -> Record]
    /\ \A d \in FolderIds : record[d].children \subseteq KnownEntry(used)
FitThreads ==
    /\ threads \subseteq Thread
    /\ \A t \in threads : t.children \subseteq KnownEntry(used)
FitFetched ==
    /\ asked \subseteq Refresh /\ fetched \subseteq Fetched
    /\ \A r \in asked : r.ino < nextIno
    /\ \A m \in fetched : m.ino < nextIno /\ m.children \subseteq KnownEntry(used)
FitSets ==
    /\ mutated \subseteq Inos /\ queue \subseteq Inos /\ open \subseteq Inos
    /\ used \subseteq Ids /\ Root \in used /\ made \subseteq used /\ removed \subseteq used /\ gone \subseteq used
    /\ seqCache \in [FolderIds -> Int] /\ acked \in [FolderIds -> Int]
    /\ built \in Nat /\ rushed \in BOOLEAN /\ mishaps \in Nat

(* Whoever is in the table stays what it is, and folders only gain entries  *)
Keeps == \A i \in Inos :
    /\ inode[i].kind # "free" => inode'[i].kind = inode[i].kind /\ inode'[i].of = inode[i].of
    /\ IsFolder(i) => inode[i].children \subseteq inode'[i].children

FitTree == FitTable(inode, used) /\ FitNumbers
MountInv == FitTree /\ FitMount /\ FitRecords /\ FitThreads /\ FitFetched /\ FitSets

-----------------------------------------------------------------------------
(* MountFolders: the table                                                  *)

LEMMA Numbers == /\ MaxIno \in Nat \ {0} /\ Inos = 1..MaxIno /\ Inos \subseteq Nat /\ RootIno \in Inos
                 /\ NoIno \notin Inos /\ NoIno = 0 /\ RootIno = 1
BY MountAssumption DEF Inos, RootIno, NoIno

LEMMA FreeInode ==
    /\ Free \in Inode /\ Free.kind = "free" /\ Free.of = Root /\ ~Free.loaded /\ Free.children = {}
    /\ RootInode \in Inode /\ RootInode.kind = "folder" /\ RootInode.of = Root /\ ~RootInode.loaded
    /\ RootInode.children = {} /\ RootInode.listed
<1>1. AnyName \in Names
  BY MountAssumption DEF AnyName
<1> QED
  BY <1>1, Numbers, MountAssumption DEF Free, RootInode, Inode, Ids

LEMMA KnownIs ==
    ASSUME NEW ids, NEW ls \in SUBSET KnownEntry(ids)
    PROVE  \A c \in ls : c.name \in Names /\ c.of \in ids
BY DEF KnownEntry

LEMMA KnownGrows == \A a, b : a \subseteq b => KnownEntry(a) \subseteq KnownEntry(b)
BY DEF KnownEntry

LEMMA KnownListings == \A ids : ids \subseteq Ids => KnownEntry(ids) \subseteq Entry
BY DEF KnownEntry, Entry

LEMMA SnapshotKnown ==
    ASSUME NEW ids, NEW table, FitTable(table, ids), NEW p \in Inos
    PROVE  Snapshot(table, p) \subseteq KnownEntry(ids)
BY DEF Snapshot, FitTable, Inode, KnownEntry

LEMMA FitGrows ==
    ASSUME NEW table, NEW a, NEW b, a \subseteq b, FitTable(table, a)
    PROVE  FitTable(table, b)
BY DEF FitTable

(* An inode is taken out                                                    *)
LEMMA RemoveFits ==
    ASSUME NEW ids, Root \in ids, NEW table, FitTable(table, ids), NEW i \in Inos
    PROVE  /\ FitTable(RemoveInode(table, i), ids)
           /\ \A j \in Inos \ {i} : /\ RemoveInode(table, i)[j].kind = table[j].kind
                                    /\ RemoveInode(table, i)[j].of = table[j].of
                                    /\ RemoveInode(table, i)[j].listed = table[j].listed
                                    /\ RemoveInode(table, i)[j].children \in
                                         {table[j].children, table[j].children \ {i}}
           /\ RemoveInode(table, i)[i] = Free
<1> DEFINE p == table[i].parent
           cut == [table[p] EXCEPT !.children = @ \ {i}]
           new == RemoveInode(table, i)
<1>1. table \in [Inos -> Inode] /\ p \in Inos /\ table[p] \in Inode
  BY DEF FitTable, Inode
<1>2. /\ cut \in Inode /\ cut.kind = table[p].kind /\ cut.of = table[p].of /\ cut.listed = table[p].listed
      /\ cut.loaded = table[p].loaded /\ cut.children = table[p].children \ {i}
  BY <1>1 DEF Inode
<1>3. \A j \in Inos : new[j] = IF j = i THEN Free ELSE IF j = p THEN cut ELSE table[j]
  BY DEF RemoveInode
<1>4. new \in [Inos -> Inode]
  <2>1. \A j \in Inos : new[j] \in Inode
    BY <1>1, <1>2, <1>3, FreeInode
  <2> QED
    BY <2>1 DEF RemoveInode
<1> HIDE DEF cut, p, new
<1>5. FitTable(new, ids)
  BY <1>1, <1>2, <1>3, <1>4, FreeInode DEF FitTable
<1> QED
  BY <1>2, <1>3, <1>5 DEF new

(* A child is added at the next number                                      *)
LEMMA InsertFits ==
    ASSUME FitTree, NEW p \in Inos, IsFolder(p), NEW node \in Inode, NEW ids, used \subseteq ids,
           node.of \in ids, node.kind = "folder" => node.of \in FolderIds,
           node.kind = "file" => node.of \in FileIds, node.kind \in {"folder", "file"},
           node.loaded => node.listed, InsertInode(p, node)
    PROVE  /\ FitTable(inode', ids) /\ FitNumbers'
           /\ nextIno \in Inos /\ inode'[nextIno] = node /\ nextIno # p
           /\ \A j \in Inos \ {nextIno} :
                /\ inode'[j].kind = inode[j].kind /\ inode'[j].of = inode[j].of
                /\ inode[j].children \subseteq inode'[j].children
           /\ \A j \in Inos \ {nextIno, p} : inode'[j] = inode[j]
           /\ inode'[p].of = inode[p].of /\ inode'[p].name = inode[p].name /\ inode'[p].kind = "folder"
<1>1. /\ inode \in [Inos -> Inode] /\ nextIno \in Inos /\ inode[nextIno].kind = "free" /\ node.name \in Names
      /\ inode[p].kind = "folder"
  <2>1. inode \in [Inos -> Inode] /\ nextIno \in Inos /\ nextIno \in Int
    BY Numbers DEF FitTree, FitTable, FitNumbers, InsertInode
  <2>2. inode[nextIno].kind = "free"
    BY <2>1 DEF FitTree, FitNumbers
  <2>3. node.name \in Names /\ inode[p].kind = "folder"
    BY DEF Inode, IsFolder
  <2> QED
    BY <2>1, <2>2, <2>3
<1>2. nextIno # p
  BY <1>1, FreeInode
<1> DEFINE grown == [inode[p] EXCEPT !.children = IF inode[p].listed THEN @ \cup {nextIno} ELSE @]
<1>3. /\ grown \in Inode /\ grown.kind = inode[p].kind /\ grown.of = inode[p].of
      /\ grown.listed = inode[p].listed /\ grown.loaded = inode[p].loaded /\ grown.name = inode[p].name
      /\ inode[p].children \subseteq grown.children
  BY <1>1 DEF Inode
<1>4. inode' = [inode EXCEPT ![nextIno] = node, ![p] = grown]
  BY <1>1, <1>2 DEF InsertInode
<1>5. /\ inode' \in [Inos -> Inode] /\ inode'[nextIno] = node /\ inode'[p] = grown
      /\ \A j \in Inos \ {nextIno, p} : inode'[j] = inode[j]
  BY <1>1, <1>2, <1>3, <1>4
<1> HIDE DEF grown
<1>6. FitTable(inode', ids)
  BY <1>1, <1>3, <1>5, FreeInode DEF FitTree, FitTable
<1>7. FitNumbers'
  <2>1. /\ index \in [Inos \X Names -> Inos \cup {NoIno}] /\ nextIno' = nextIno + 1
        /\ index' = [index EXCEPT ![<<p, node.name>>] = nextIno]
    BY DEF InsertInode, FitTree, FitNumbers
  <2>2. /\ index' \in [Inos \X Names -> Inos \cup {NoIno}]
        /\ \A q \in Inos, n \in Names : index'[<<q, n>>] \in {index[<<q, n>>], nextIno}
    BY <1>1, <2>1
  <2>3. \A q \in Inos, n \in Names : index[<<q, n>>] < nextIno /\ index[<<q, n>>] \in Nat
    <3> SUFFICES ASSUME NEW q \in Inos, NEW n \in Names
                 PROVE  index[<<q, n>>] < nextIno /\ index[<<q, n>>] \in Nat
      OBVIOUS
    <3>1. index[<<q, n>>] \in Inos \cup {NoIno}
      BY <2>1
    <3> QED
      BY <3>1, Numbers DEF FitTree, FitNumbers
  <2>4. nextIno' \in 2..(MaxIno + 1)
    BY <1>1, <2>1, Numbers DEF FitTree, FitNumbers
  <2>5. \A q \in Inos, n \in Names : index'[<<q, n>>] < nextIno'
    <3> SUFFICES ASSUME NEW q \in Inos, NEW n \in Names PROVE index'[<<q, n>>] < nextIno'
      OBVIOUS
    <3>1. nextIno \in Nat /\ nextIno' = nextIno + 1
      BY <1>1, <2>1, Numbers
    <3>2. index'[<<q, n>>] = index[<<q, n>>] \/ index'[<<q, n>>] = nextIno
      BY <2>2
    <3>3. index[<<q, n>>] < nextIno /\ index[<<q, n>>] \in Nat
      BY <2>3
    <3> QED
      BY <3>1, <3>2, <3>3
  <2>7. \A q \in Inos, n \in Names : index'[<<q, n>>] # q
    <3> SUFFICES ASSUME NEW q \in Inos, NEW n \in Names PROVE index'[<<q, n>>] # q
      OBVIOUS
    <3>1. index'[<<q, n>>] = index[<<q, n>>] \/ (q = p /\ index'[<<q, n>>] = nextIno)
      BY <2>1
    <3> QED
      BY <1>2, <3>1 DEF FitTree, FitNumbers
  <2>6. \A i \in Inos : i >= nextIno' => i # nextIno /\ i # p /\ inode[i].kind = "free"
    <3>1. p < nextIno
      BY <1>1, FreeInode, Numbers DEF FitTree, FitNumbers
    <3> QED
      BY <1>1, <2>1, <3>1, Numbers DEF FitTree, FitNumbers
  <2> QED
    BY <1>5, <2>2, <2>4, <2>5, <2>6, <2>7 DEF FitNumbers
<1> QED
  BY <1>1, <1>2, <1>3, <1>5, <1>6, <1>7

LEMMA PopulatedFits ==
    ASSUME FitTree, used \subseteq Ids, NEW p \in Inos, NEW c \in KnownEntry(used), NEW i \in Inos
    PROVE  LET new == Populated(p, c, i) IN
           /\ new \in Inode /\ new.of \in used /\ new.kind \in {"folder", "file"}
           /\ new.kind = "folder" => new.of \in FolderIds /\ inode[i].children = new.children
           /\ new.kind = "file" => new.of \in FileIds
           /\ new.loaded => new.listed
           /\ inode[i].kind # "free" /\ inode[i].of = c.of => new.kind = inode[i].kind /\ new.of = c.of
           /\ inode[i].kind = "free" => new.of = c.of
           /\ new.name = c.name
<1>1. /\ c.name \in Names /\ c.of \in used /\ c.of \in FolderIds \cup FileIds
      /\ inode[i] \in Inode /\ inode[i].of \in used
      /\ inode[i].kind = "folder" => inode[i].of \in FolderIds
      /\ inode[i].kind = "file" => inode[i].of \in FileIds
      /\ inode[i].loaded => inode[i].listed
      /\ inode[i].kind \in {"free", "folder", "file"}
      /\ inode[i].children \subseteq Inos /\ inode[i].listed \in BOOLEAN /\ inode[i].loaded \in BOOLEAN
      /\ inode[i].resolved \in BOOLEAN /\ inode[i].of \in Ids /\ c.of \in Ids
  BY DEF KnownEntry, FitTree, FitTable, Ids, Inode
<1>2. CASE c.of \in FolderIds
  <2>1. PICK new : new = FolderPopulated(p, c, i)
    OBVIOUS
  <2>2. new \in Inode
    BY <1>1, <2>1 DEF FolderPopulated, Inode, Live, IsFolder
  <2>3. /\ new.of = c.of /\ new.kind = "folder" /\ new.children = inode[i].children /\ new.name = c.name
        /\ new.loaded => new.listed
    BY <1>1, <2>1 DEF FolderPopulated, Live, IsFolder
  <2>4. inode[i].kind # "free" /\ inode[i].of = c.of => inode[i].kind = "folder"
    BY <1>1, <1>2, MountAssumption
  <2> QED
    BY <1>1, <1>2, <2>1, <2>2, <2>3, <2>4 DEF Populated
<1>3. CASE c.of \notin FolderIds
  <2>1. PICK new : new = FilePopulated(p, c, i)
    OBVIOUS
  <2>2. new \in Inode
    BY <1>1, <2>1 DEF FilePopulated, Inode, IsFile
  <2>3. /\ new.of \in {c.of, inode[i].of} /\ new.kind = "file" /\ ~new.loaded /\ new.name = c.name
        /\ inode[i].kind # "file" => new.of = c.of
        /\ new.of \in FileIds
    BY <1>1, <1>3, <2>1 DEF FilePopulated, IsFile
  <2>4. inode[i].kind # "free" /\ inode[i].of = c.of => inode[i].kind = "file"
    BY <1>1, <1>3, MountAssumption
  <2> QED
    BY <1>1, <1>3, <2>1, <2>2, <2>3, <2>4 DEF Populated
<1> QED
  BY <1>2, <1>3

(* The numbers a listing's entries get                                      *)
LEMMA PlacesFit ==
    ASSUME FitNumbers, NEW p \in Inos, NEW listing, \A c \in listing : c.name \in Names,
           NEW place \in Placements(index, p, listing)
    PROVE  LET placed == {place[c] : c \in listing}
               more == Cardinality({i \in placed : i >= nextIno})
           IN /\ \A c \in listing :
                   /\ place[c] \in Inos
                   /\ index[<<p, c.name>>] # NoIno =>
                        place[c] = index[<<p, c.name>>] /\ place[c] < nextIno
                   /\ index[<<p, c.name>>] = NoIno => place[c] >= nextIno
              /\ \A c, d \in listing :
                   index[<<p, c.name>>] = NoIno /\ index[<<p, d.name>>] = NoIno /\ place[c] = place[d] => c = d
              /\ more \in Nat /\ nextIno + more <= MaxIno + 1
              /\ \A i \in placed : i < nextIno + more
<1> DEFINE taken == {c \in listing : index[<<p, c.name>>] # NoIno}
           fresh == listing \ taken
           placed == {place[c] : c \in listing}
           new == {i \in placed : i >= nextIno}
<1>0. /\ index \in [Inos \X Names -> Inos \cup {NoIno}] /\ nextIno \in Nat /\ nextIno <= MaxIno + 1
      /\ \A c \in listing : index[<<p, c.name>>] < nextIno
  BY Numbers DEF FitNumbers
<1>1. /\ place \in [listing -> Inos]
      /\ \A c \in taken : place[c] = index[<<p, c.name>>]
      /\ \A c \in fresh : place[c] \in nextIno..(nextIno + Cardinality(fresh) - 1)
      /\ \A c, d \in fresh : c # d => place[c] # place[d]
  BY DEF Placements
<1>2. /\ \A c \in taken : place[c] < nextIno /\ place[c] \in Inos
      /\ \A c \in fresh : place[c] >= nextIno /\ place[c] \in Inos
  <2>1. ASSUME NEW c \in taken PROVE place[c] < nextIno /\ place[c] \in Inos
    BY <1>0, <1>1
  <2>2. ASSUME NEW c \in fresh PROVE place[c] >= nextIno /\ place[c] \in Inos
    <3>1. place[c] \in nextIno..(nextIno + Cardinality(fresh) - 1) /\ c \in listing
      BY <1>1
    <3> HIDE DEF fresh
    <3> QED
      BY <1>1, <3>1
  <2> QED
    BY <2>1, <2>2
<1>3. new = {place[c] : c \in fresh}
  <2>1. new \subseteq {place[c] : c \in fresh}
    <3> SUFFICES ASSUME NEW c \in listing, place[c] >= nextIno PROVE place[c] \in {place[e] : e \in fresh}
      OBVIOUS
    <3>1. c \in fresh
      BY <1>0, <1>2, Numbers
    <3> QED
      BY <3>1
  <2>2. {place[c] : c \in fresh} \subseteq new
    BY <1>2
  <2> QED
    BY <2>1, <2>2
<1> DEFINE g == [c \in fresh |-> place[c]]
<1>4. g \in Injection(fresh, Inos) /\ g \in Bijection(fresh, new)
  <2>1. g \in [fresh -> Inos] /\ g \in [fresh -> new] /\ \A t \in new : \E c \in fresh : g[c] = t
    BY <1>2, <1>3
  <2>2. \A c, d \in fresh : g[c] = g[d] => c = d
    BY <1>1
  <2> HIDE DEF g, fresh, new
  <2> QED
    BY <2>1, <2>2 DEF Injection, Surjection, Bijection, IsInjective
<1>5. IsFiniteSet(Inos) /\ IsFiniteSet(nextIno..MaxIno)
      /\ Cardinality(nextIno..MaxIno) = IF nextIno > MaxIno THEN 0 ELSE MaxIno - nextIno + 1
  BY <1>0, Numbers, FS_Interval
<1> HIDE DEF fresh, new, g
<1>6. IsFiniteSet(fresh)
  BY <1>4, <1>5, FS_Injection
<1>7. IsFiniteSet(new) /\ Cardinality(new) = Cardinality(fresh) /\ Cardinality(fresh) \in Nat
  BY <1>4, <1>6, FS_Bijection, FS_CardinalityType DEF ExistsBijection
<1>8. new \subseteq nextIno..MaxIno
  BY <1>0, <1>2, <1>3, Numbers
<1>9. Cardinality(new) <= Cardinality(nextIno..MaxIno)
  BY <1>5, <1>8, FS_Subset
<1>10. nextIno + Cardinality(new) <= MaxIno + 1
  BY <1>0, <1>5, <1>7, <1>9, Numbers
<1>11. \A c \in listing : place[c] < nextIno + Cardinality(new)
  <2> SUFFICES ASSUME NEW c \in listing PROVE place[c] < nextIno + Cardinality(new)
    OBVIOUS
  <2>1. CASE c \in taken
    BY <1>0, <1>2, <1>7, <2>1, Numbers
  <2>2. CASE c \in fresh
    BY <1>0, <1>1, <1>7, <2>2, Numbers
  <2> QED
    BY <2>1, <2>2 DEF fresh
<1>12. \A c \in listing : c \in (IF index[<<p, c.name>>] = NoIno THEN fresh ELSE taken)
  BY DEF fresh
<1>13. \A c, d \in fresh : place[c] = place[d] => c = d
  BY <1>1
<1>14. Cardinality(new) \in Nat
  BY <1>7
<1>15. \A c \in listing :
         /\ place[c] \in Inos
         /\ index[<<p, c.name>>] # NoIno => place[c] = index[<<p, c.name>>] /\ place[c] < nextIno
         /\ index[<<p, c.name>>] = NoIno => place[c] >= nextIno
  BY <1>1, <1>2, <1>12
<1>16. ASSUME NEW c \in listing, NEW d \in listing, index[<<p, c.name>>] = NoIno,
              index[<<p, d.name>>] = NoIno, place[c] = place[d]
       PROVE  c = d
  <2>1. c \in fresh /\ d \in fresh
    BY <1>16 DEF fresh
  <2> QED
    BY <1>13, <1>16, <2>1
<1> QED
  BY <1>10, <1>11, <1>14, <1>15, <1>16 DEF new

(* Each entry of c's name is the one the table has, or the table has none   *)
Agrees(p, listing) ==
    \A c \in listing : index[<<p, c.name>>] = NoIno \/ inode[index[<<p, c.name>>]].of = c.of

(* What is merged into the table keeps it in order, and when it agrees with *)
(* it, leaves everybody what they were                                      *)
LEMMA PopulateFits ==
    ASSUME FitTree, used \subseteq Ids, NEW p \in Inos, p < nextIno, NEW listing \in SUBSET KnownEntry(used),
           Populate(p, listing)
    PROVE  /\ FitTable(inode', used) /\ FitNumbers' /\ nextIno <= nextIno'
           /\ \A q \in Inos \ {p}, n \in Names : index'[<<q, n>>] = index[<<q, n>>]
           /\ Agrees(p, listing) => Keeps
           /\ \A i \in inode'[p].children :
                i \in inode[p].children \/ i >= nextIno \/ \E n \in Names : index[<<p, n>>] = i
<1>0. \A c \in listing : c.name \in Names /\ c.of \in used
  BY DEF KnownEntry
<1>1. PICK place \in Placements(index, p, listing) :
        LET placed == {place[c] : c \in listing}
            at(i) == CHOOSE c \in listing : place[c] = i
            filled == [i \in Inos |->
                         IF i \in placed THEN Populated(p, at(i), i)
                         ELSE IF i = p /\ Live(p)
                           THEN [inode[p] EXCEPT !.children = Merged(p, placed),
                                                 !.listed = TRUE, !.loaded = IsFolder(p)]
                         ELSE inode[i]]
            pointers == {i \in Inos : /\ filled[i].kind = "file" /\ ~filled[i].resolved
                                      /\ filled[i].parent = p /\ IsFolder(p)}
        IN  \E found \in SUBSET pointers :
              /\ inode' = [i \in Inos |-> IF i \in found
                             THEN [filled[i] EXCEPT !.resolved = TRUE] ELSE filled[i]]
              /\ index' = [key \in Inos \X Names |->
                             IF key[1] = p /\ \E c \in listing : c.name = key[2]
                               THEN place[CHOOSE c \in listing : c.name = key[2]]
                               ELSE index[key]]
              /\ nextIno' = nextIno + Cardinality({i \in placed : i >= nextIno})
  BY DEF Populate
<1> DEFINE placed == {place[c] : c \in listing}
           at(i) == CHOOSE c \in listing : place[c] = i
           more == Cardinality({i \in placed : i >= nextIno})
           host == [inode[p] EXCEPT !.children = Merged(p, placed),
                                    !.listed = TRUE, !.loaded = IsFolder(p)]
           filled == [i \in Inos |-> IF i \in placed THEN Populated(p, at(i), i)
                                     ELSE IF i = p /\ Live(p) THEN host ELSE inode[i]]
<1>2. PICK found \in SUBSET Inos :
        /\ inode' = [i \in Inos |-> IF i \in found THEN [filled[i] EXCEPT !.resolved = TRUE] ELSE filled[i]]
        /\ index' = [key \in Inos \X Names |->
                             IF key[1] = p /\ \E c \in listing : c.name = key[2]
                               THEN place[CHOOSE c \in listing : c.name = key[2]]
                               ELSE index[key]]
        /\ nextIno' = nextIno + more
  BY <1>1
<1>3. /\ \A c \in listing :
                   /\ place[c] \in Inos
                   /\ index[<<p, c.name>>] # NoIno =>
                        place[c] = index[<<p, c.name>>] /\ place[c] < nextIno
                   /\ index[<<p, c.name>>] = NoIno => place[c] >= nextIno
      /\ more \in Nat /\ nextIno + more <= MaxIno + 1
      /\ \A i \in placed : i < nextIno + more
  <2>1. FitNumbers
    BY DEF FitTree
  <2> QED
    BY <1>0, <2>1, PlacesFit, SMTT(40)
<1> HIDE DEF more
<1>4. \A i \in placed : at(i) \in listing /\ place[at(i)] = i /\ i \in Inos
  BY <1>3
<1>5. inode \in [Inos -> Inode] /\ inode[p] \in Inode /\ placed \subseteq Inos
  BY <1>3 DEF FitTree, FitTable
<1>6. /\ host \in Inode /\ host.kind = inode[p].kind /\ host.of = inode[p].of
      /\ host.listed /\ host.children = inode[p].children \cup placed
  BY <1>5 DEF Inode, Merged, IsFolder
<1>7. ASSUME NEW i \in Inos
      PROVE  /\ filled[i] \in Inode /\ filled[i].of \in used
             /\ filled[i].kind = "folder" => filled[i].of \in FolderIds
             /\ filled[i].kind = "file" => filled[i].of \in FileIds
             /\ filled[i].kind = "free" => filled[i].of = Root /\ filled[i].children = {}
             /\ filled[i].loaded => filled[i].listed
             /\ i \notin placed => filled[i].kind = inode[i].kind /\ filled[i].of = inode[i].of
                                   /\ (i # p => filled[i].children = inode[i].children)
                                   /\ inode[i].children \subseteq filled[i].children
  <2>1. CASE i \in placed
    <3>1. at(i) \in KnownEntry(used) /\ filled[i] = Populated(p, at(i), i)
      BY <1>4, <2>1
    <3> HIDE DEF filled, at
    <3> QED
      BY <2>1, <3>1, PopulatedFits
  <2>2. CASE i \notin placed /\ i = p /\ Live(p)
    <3>1. filled[i] = host
      BY <2>2
    <3>2. inode[p].kind # "free" /\ inode[p].of \in used
          /\ (inode[p].kind = "folder" => inode[p].of \in FolderIds)
          /\ (inode[p].kind = "file" => inode[p].of \in FileIds)
      BY <2>2 DEF FitTree, FitTable, Live
    <3> HIDE DEF filled, host, placed
    <3> QED
      BY <1>6, <2>2, <3>1, <3>2
  <2>3. CASE i \notin placed /\ ~(i = p /\ Live(p))
    <3>1. filled[i] = inode[i]
      BY <2>3
    <3> HIDE DEF filled, placed
    <3> QED
      BY <2>3, <3>1 DEF FitTree, FitTable
  <2> QED
    BY <2>1, <2>2, <2>3
<1> HIDE DEF filled
<1>8. ASSUME NEW i \in Inos
      PROVE  /\ inode'[i] \in Inode /\ inode'[i].of = filled[i].of /\ inode'[i].kind = filled[i].kind
             /\ inode'[i].listed = filled[i].listed /\ inode'[i].loaded = filled[i].loaded
             /\ inode'[i].children = filled[i].children
  BY <1>2, <1>7 DEF Inode
<1>9. FitTable(inode', used)
  <2>1. inode' \in [Inos -> Inode]
    BY <1>2, <1>8
  <2> QED
    BY <1>7, <1>8, <2>1 DEF FitTable
<1>10. ASSUME NEW i \in placed
       PROVE  i >= nextIno \/ (i < nextIno /\ at(i).name \in Names /\ index[<<p, at(i).name>>] = i)
  <2>1. at(i) \in listing /\ place[at(i)] = i
    BY <1>4, <1>10
  <2> HIDE DEF at
  <2> QED
    BY <1>0, <1>3, <2>1
<1>11. ASSUME NEW i \in placed
       PROVE  /\ inode'[i].children = inode[i].children \/ inode'[i].kind = "file"
              /\ inode[i].kind # "free" /\ inode[i].of = at(i).of =>
                    inode'[i].kind = inode[i].kind /\ inode'[i].of = inode[i].of
  <2>1. at(i) \in KnownEntry(used) /\ filled[i] = Populated(p, at(i), i) /\ i \in Inos
    BY <1>4, <1>11 DEF filled
  <2> HIDE DEF at
  <2> QED
    BY <1>8, <2>1, PopulatedFits
<1>12. ASSUME NEW i \in placed, i >= nextIno PROVE inode[i].kind = "free" /\ inode[i].children = {}
  <2>1. i \in Inos
    BY <1>4, <1>12
  <2> QED
    BY <1>12, <2>1 DEF FitTree, FitNumbers, FitTable
<1>13. ASSUME Agrees(p, listing), NEW i \in Inos
       PROVE  /\ inode[i].kind # "free" => inode'[i].kind = inode[i].kind /\ inode'[i].of = inode[i].of
              /\ IsFolder(i) => inode[i].children \subseteq inode'[i].children
  <2>1. CASE i \notin placed
    BY <1>7, <1>8, <2>1
  <2>2. CASE i \in placed
    <3>1. CASE i >= nextIno
      BY <1>12, <2>2, <3>1 DEF IsFolder
    <3>2. CASE i < nextIno
      <4>0. i \in Nat /\ nextIno \in Nat
        BY Numbers DEF FitTree, FitNumbers
      <4> HIDE DEF at, placed
      <4>1. at(i) \in listing /\ index[<<p, at(i).name>>] = i
        <5>1. at(i) \in listing
          BY <1>4, <2>2
        <5>2. ~(i >= nextIno)
          BY <3>2, <4>0
        <5> QED
          BY <1>10, <2>2, <5>1, <5>2
      <4>2. inode[i].of = at(i).of
        <5>1. i # NoIno
          BY Numbers
        <5> QED
          BY <1>13, <4>1, <5>1 DEF Agrees
      <4>4. inode[i].kind # "free" => inode'[i].kind = inode[i].kind /\ inode'[i].of = inode[i].of
        BY <1>11, <2>2, <4>2
      <4> QED
        BY <1>11, <2>2, <4>4 DEF IsFolder
    <3> QED
      BY <1>4, <2>2, <3>1, <3>2, Numbers DEF FitTree, FitNumbers
  <2> QED
    BY <2>1, <2>2
<1>14. ASSUME NEW i \in inode'[p].children
       PROVE  i \in inode[p].children \/ i >= nextIno \/ \E n \in Names : index[<<p, n>>] = i
  <2>1. i \in filled[p].children
    BY <1>8, <1>14
  <2>2. CASE p \in placed
    <3>1. at(p) \in KnownEntry(used) /\ filled[p] = Populated(p, at(p), p)
      BY <1>4, <2>2 DEF filled
    <3>2. filled[p].children = inode[p].children \/ filled[p].kind = "file"
      BY <1>8, <1>11, <2>2
    <3>3. filled[p].kind = "file" => filled[p].children = {}
      <4> DEFINE c == at(p)
      <4>1. filled[p] = IF c.of \in FolderIds THEN FolderPopulated(p, c, p) ELSE FilePopulated(p, c, p)
        BY <3>1 DEF Populated
      <4> HIDE DEF c, filled
      <4>2. FolderPopulated(p, c, p).kind = "folder" /\ FilePopulated(p, c, p).children = {}
        BY DEF FolderPopulated, FilePopulated
      <4> QED
        BY <4>1, <4>2
    <3> QED
      BY <2>1, <3>2, <3>3
  <2>3. CASE p \notin placed
    <3>1. filled[p].children \subseteq inode[p].children \cup placed
      BY <1>6, <2>3 DEF filled
    <3> HIDE DEF placed
    <3>2. i \in placed => i >= nextIno \/ \E n \in Names : index[<<p, n>>] = i
      BY <1>10
    <3> QED
      BY <2>1, <3>1, <3>2
  <2> QED
    BY <2>2, <2>3
<1>15. /\ nextIno \in Nat /\ nextIno >= 2 /\ nextIno' = nextIno + more
       /\ nextIno' \in 2..(MaxIno + 1) /\ nextIno <= nextIno'
       /\ index \in [Inos \X Names -> Inos \cup {NoIno}]
       /\ \A q \in Inos, n \in Names : index[<<q, n>>] < nextIno /\ index[<<q, n>>] \in Nat
  <2>1. nextIno \in Nat /\ nextIno >= 2 /\ index \in [Inos \X Names -> Inos \cup {NoIno}]
    BY DEF FitTree, FitNumbers
  <2>2. ASSUME NEW q \in Inos, NEW n \in Names
        PROVE  index[<<q, n>>] < nextIno /\ index[<<q, n>>] \in Nat
    <3>1. index[<<q, n>>] \in Inos \cup {NoIno}
      BY <2>1
    <3> QED
      BY <3>1, Numbers DEF FitTree, FitNumbers
  <2>3. nextIno' = nextIno + more
    BY <1>2
  <2> QED
    BY <1>3, <2>1, <2>2, <2>3, Numbers
<1>16. ASSUME NEW q \in Inos, NEW n \in Names
       PROVE  /\ q # p => index'[<<q, n>>] = index[<<q, n>>]
              /\ index'[<<q, n>>] \in Inos \cup {NoIno} /\ index'[<<q, n>>] < nextIno'
              /\ index'[<<q, n>>] # q
  <2>0. index'[<<q, n>>] = IF q = p /\ \E c \in listing : c.name = n
                           THEN place[CHOOSE c \in listing : c.name = n] ELSE index[<<q, n>>]
    BY <1>2
  <2>1. CASE q = p /\ \E c \in listing : c.name = n
    <3>1. PICK c \in listing : index'[<<q, n>>] = place[c]
      BY <2>0, <2>1
    <3>2. place[c] \in Inos /\ place[c] < nextIno + more
      BY <1>3
    <3>3. place[c] # p
      <4>1. CASE index[<<p, c.name>>] = NoIno
        BY <1>3, <1>15, <4>1, Numbers
      <4>2. CASE index[<<p, c.name>>] # NoIno
        BY <1>0, <1>3, <4>2 DEF FitTree, FitNumbers
      <4> QED
        BY <4>1, <4>2
    <3> QED
      BY <1>15, <2>1, <3>1, <3>2, <3>3
  <2>2. CASE ~(q = p /\ \E c \in listing : c.name = n)
    <3>1. index'[<<q, n>>] = index[<<q, n>>]
      BY <2>0, <2>2
    <3>2. index[<<q, n>>] # q
      BY DEF FitTree, FitNumbers
    <3> QED
      BY <1>3, <1>15, <3>1, <3>2
  <2> QED
    BY <2>1, <2>2
<1>17. index' \in [Inos \X Names -> Inos \cup {NoIno}]
  <2>1. \A key \in Inos \X Names : index'[key] \in Inos \cup {NoIno}
    BY <1>16
  <2> QED
    BY <1>2, <2>1
<1>18. ASSUME NEW i \in Inos, i >= nextIno' PROVE inode'[i].kind = "free"
  <2>1. i >= nextIno /\ i \in Nat /\ i \notin placed
    <3>1. i \in Nat /\ nextIno \in Nat /\ nextIno' \in Nat /\ nextIno <= nextIno'
      BY <1>15, Numbers
    <3>2. i \in placed => i < nextIno'
      BY <1>3, <1>15
    <3> HIDE DEF placed
    <3> QED
      BY <1>18, <3>1, <3>2
  <2>2. inode[i].kind = "free"
    BY <2>1 DEF FitTree, FitNumbers
  <2> QED
    BY <1>7, <1>8, <2>1, <2>2
<1>19. FitNumbers'
  BY <1>15, <1>16, <1>17, <1>18 DEF FitNumbers
<1> QED
  BY <1>9, <1>13, <1>14, <1>15, <1>16, <1>19 DEF Keeps

-----------------------------------------------------------------------------
(* MountFolders: what a step leaves alone                                   *)

LEMMA SameTree == ASSUME FitTree, UNCHANGED tree, used \subseteq used' PROVE FitTree'
<1>1. FitTable(inode, used')
  BY FitGrows DEF FitTree
<1> QED
  BY <1>1 DEF FitTree, FitNumbers, tree, Free

LEMMA SameRecords == ASSUME FitRecords, UNCHANGED record, used \subseteq used' PROVE FitRecords'
BY KnownGrows DEF FitRecords

LEMMA FewerThreads == ASSUME FitThreads, threads' \subseteq threads, used \subseteq used' PROVE FitThreads'
BY KnownGrows DEF FitThreads

LEMMA FewerFetched ==
    ASSUME FitTree, FitFetched, asked' \subseteq asked, fetched' \subseteq fetched, used \subseteq used',
           nextIno' \in Int, nextIno <= nextIno'
    PROVE  FitFetched'
<1>1. ASSUME NEW r, r.ino \in Inos, r.ino < nextIno PROVE r.ino < nextIno'
  BY <1>1, Numbers DEF FitTree, FitNumbers
<1>2. /\ \A r \in asked' : r.ino \in Inos /\ r.ino < nextIno
      /\ \A m \in fetched' : m.ino \in Inos /\ m.ino < nextIno /\ m.children \subseteq KnownEntry(used)
  BY DEF FitFetched, Refresh, Fetched
<1> QED
  BY <1>1, <1>2, KnownGrows DEF FitFetched

LEMMA SameFetched ==
    ASSUME FitFetched, UNCHANGED <<asked, fetched, nextIno>>, used \subseteq used' PROVE FitFetched'
BY KnownGrows DEF FitFetched

LEMMA ServingMount == ASSUME Serving, UNCHANGED mount PROVE FitMount'
BY DEF Serving, FitMount, Up, Down, Phase

LEMMA SameMount == ASSUME FitMount, UNCHANGED <<mount, tree>> PROVE FitMount'
BY DEF FitMount, tree, IsFolder

-----------------------------------------------------------------------------
(* MountFolders: snapshots                                                  *)

LEMMA PublishingFits ==
    ASSUME NEW ids, NEW table, FitTable(table, ids), ids \subseteq Ids, built \in Nat,
           NEW p \in Inos, table[p].kind # "file", NEW d \in FolderIds \cup {None}
    PROVE  /\ Publishing(table, p, d) \in Thread
           /\ Publishing(table, p, d).children \subseteq KnownEntry(ids)
<1>1. table[p].of \in FolderIds
  BY MountAssumption DEF FitTable, Inode
<1>2. Snapshot(table, p) \subseteq KnownEntry(ids) /\ Snapshot(table, p) \in Listing
  BY SnapshotKnown, KnownListings DEF Listing
<1> QED
  BY <1>1, <1>2 DEF Publishing, Thread

LEMMA PublishesFit ==
    ASSUME FitThreads, used \subseteq Ids, built \in Nat, NEW table, FitTable(table, used), UNCHANGED used,
           NEW S \in SUBSET Inos, \A p \in S : table[p].kind # "file", StartPublishes(table, S)
    PROVE  FitThreads' /\ built' \in Nat
<1>1. threads' = threads \cup {Publishing(table, p, None) : p \in S} /\ built' \in Nat
  BY DEF StartPublishes
<1>2. \A p \in S : /\ Publishing(table, p, None) \in Thread
                   /\ Publishing(table, p, None).children \subseteq KnownEntry(used)
  BY PublishingFits
<1> QED
  BY <1>1, <1>2 DEF FitThreads

LEMMA FlushFits ==
    ASSUME MountInv, UNCHANGED <<inode, used>>, NEW more \in SUBSET Inos, FlushQueue(more)
    PROVE  FitThreads' /\ built' \in Nat /\ queue' \subseteq Inos /\ rushed' \in BOOLEAN
                       /\ (~rushed' => ~rushed)
<1>1. PICK due \in SUBSET queue :
        LET buildable == {p \in due : IsFolder(p)} IN
        /\ StartPublishes(inode, buildable)
        /\ queue' = (queue \ due) \cup more
        /\ rushed' = (rushed \/ Crowded(buildable) \/ due # buildable)
  BY DEF FlushQueue
<1> DEFINE S == {p \in due : IsFolder(p)}
<1>2. /\ S \in SUBSET Inos /\ \A p \in S : inode[p].kind # "file"
      /\ StartPublishes(inode, S)
  BY <1>1 DEF MountInv, FitSets, IsFolder
<1> HIDE DEF S
<1>3. FitThreads' /\ built' \in Nat
  BY <1>2, PublishesFit DEF MountInv, FitTree, FitSets
<1>4. queue' \subseteq Inos
  BY <1>1 DEF MountInv, FitSets
<1> QED
  BY <1>1, <1>3, <1>4

-----------------------------------------------------------------------------
(* MountFolders: the start, and steps that do not touch the table           *)

LEMMA MountStart == ASSUME Init PROVE MountInv
<1>1. VaultIds \subseteq Ids /\ Root \in VaultIds /\ \A d \in DOMAIN Vault : Vault[d] \in SUBSET KnownEntry(VaultIds)
  BY MountAssumption DEF VaultIds, Listing, Entry, Ids, KnownEntry
<1>2. FitTree
  <2>1. inode \in [Inos -> Inode] /\ \A i \in Inos : inode[i] \in {Free, RootInode}
    BY FreeInode DEF Init
  <2>2. FitTable(inode, used)
    BY <1>1, <2>1, FreeInode, MountAssumption DEF FitTable, Init
  <2>3. FitNumbers
    BY Numbers, FreeInode DEF FitNumbers, Init
  <2> QED
    BY <2>2, <2>3 DEF FitTree
<1>3. FitMount
  BY DEF Init, FitMount, Phase, Down
<1>4. FitRecords
  <2>1. \A d \in DOMAIN Vault : Vault[d] \in Listing
    BY MountAssumption
  <2>2. record \in [FolderIds -> Record]
    BY <2>1 DEF Init, Record, Unpublished, Listing
  <2> QED
    BY <1>1, <2>2 DEF Init, FitRecords, Unpublished
<1>5. FitThreads /\ FitFetched
  BY DEF Init, FitThreads, FitFetched
<1>6. FitSets
  <2>1. used = VaultIds /\ made = {} /\ removed = {} /\ gone = {} /\ mutated = {} /\ queue = {} /\ open = {}
        /\ built = 0 /\ mishaps = 0 /\ rushed = FALSE
    BY DEF Init
  <2>2. seqCache \in [FolderIds -> Int] /\ acked \in [FolderIds -> Int]
    <3>1. -1 \in Int
      OBVIOUS
    <3> QED
      BY <3>1 DEF Init
  <2> QED
    BY <1>1, <2>1, <2>2 DEF FitSets
<1> QED
  BY <1>2, <1>3, <1>4, <1>5, <1>6 DEF MountInv

LEMMA AcceptFits ==
    ASSUME FitRecords, UNCHANGED used, NEW d, NEW seq \in Int, NEW children \in Listing,
           children \subseteq KnownEntry(used), Accept(d, seq, children)
    PROVE  FitRecords'
<1> DEFINE new == [seq |-> seq, children |-> children]
<1>1. new \in Record /\ new.children \subseteq KnownEntry(used)
  BY DEF Record
<1>2. /\ record \in [FolderIds -> Record] /\ record' \in [FolderIds -> Record]
      /\ \A e \in FolderIds : record'[e] \in {record[e], new}
  BY <1>1 DEF Accept, FitRecords
<1> QED
  BY <1>1, <1>2 DEF FitRecords

LEMMA ThreadParts ==
    ASSUME FitThreads, NEW t \in threads
    PROVE  /\ t.of \in FolderIds /\ t.children \in Listing /\ t.children \subseteq KnownEntry(used)
           /\ t.seq \in Int /\ t.nth \in Nat
           /\ [t EXCEPT !.stage = "wait"] \in Thread /\ [t EXCEPT !.stage = "wait"].children = t.children
           /\ \A n \in Int : /\ [t EXCEPT !.stage = "locked", !.seq = n] \in Thread
                             /\ [t EXCEPT !.stage = "locked", !.seq = n].children = t.children
<1>1. t \in Thread
  BY DEF FitThreads
<1>2. /\ t.of \in FolderIds /\ t.children \in Listing /\ t.seq \in Int /\ t.nth \in Nat
      /\ [t EXCEPT !.stage = "wait"] \in Thread /\ [t EXCEPT !.stage = "wait"].children = t.children
  BY <1>1 DEF Thread
<1>3. \A n \in Int : /\ [t EXCEPT !.stage = "locked", !.seq = n] \in Thread
                     /\ [t EXCEPT !.stage = "locked", !.seq = n].children = t.children
  BY <1>1 DEF Thread
<1> QED
  BY <1>2, <1>3 DEF FitThreads

(* A thread's own steps                                                     *)
LEMMA ThreadFits ==
    ASSUME MountInv, NEW t \in threads,
           Resolve(t) \/ Publish(t) \/ PublishChild(t) \/ PublishFails(t) \/ ResolveNotFound(t) \/ AnswerLost(t)
    PROVE  MountInv' /\ UNCHANGED <<tree, removed>>
<1>1. UNCHANGED <<tree, mount, mutated, queue, open, asked, fetched, used, built, made, removed, gone>>
  BY DEF Resolve, Publish, PublishChild, PublishFails, ResolveNotFound, AnswerLost
<1>2. FitTree' /\ FitMount' /\ FitFetched'
  BY <1>1, SameTree, SameMount, SameFetched DEF MountInv, tree
<1>3. mishaps' \in Nat /\ rushed' \in BOOLEAN
  <2>1. mishaps \in Nat /\ mishaps + 1 \in Nat /\ rushed \in BOOLEAN
    BY DEF MountInv, FitSets
  <2>2. mishaps' = mishaps \/ mishaps' = mishaps + 1
    BY DEF Resolve, Publish, PublishChild, PublishFails, ResolveNotFound, AnswerLost
  <2>3. rushed' = rushed \/ rushed' = TRUE \/ rushed' = (rushed \/ record[t.of].seq > t.seq)
    BY DEF Resolve, Publish, PublishChild, PublishFails, ResolveNotFound, AnswerLost
  <2> QED
    BY <2>1, <2>2, <2>3
<1>4. t.of \in FolderIds /\ t.children \in Listing /\ t.children \subseteq KnownEntry(used) /\ t.seq \in Int
      /\ seqCache \in [FolderIds -> Int] /\ acked \in [FolderIds -> Int] /\ record[t.of].seq \in Int
  BY ThreadParts DEF MountInv, FitSets, FitRecords, Record
<1>5. FitRecords' /\ FitThreads' /\ seqCache' \in [FolderIds -> Int] /\ acked' \in [FolderIds -> Int]
  <2>1. CASE Resolve(t)
    <3>1. PICK n \in Int :
            LET seq == IF n > seqCache[t.of] THEN n ELSE seqCache[t.of] IN
            /\ threads' = (threads \ {t}) \cup {[t EXCEPT !.stage = "locked", !.seq = seq]}
            /\ seqCache' = [seqCache EXCEPT ![t.of] = seq]
      <4>1. PICK n \in {n \in 0..record[t.of].seq : TRUE} \cup (IF seqCache[t.of] >= 0 THEN {seqCache[t.of]} ELSE {}) :
            LET seq == IF n > seqCache[t.of] THEN n ELSE seqCache[t.of] IN
            /\ threads' = (threads \ {t}) \cup {[t EXCEPT !.stage = "locked", !.seq = seq]}
            /\ seqCache' = [seqCache EXCEPT ![t.of] = seq]
        BY <2>1 DEF Resolve
      <4>2. n \in Int
        BY <1>4
      <4> QED
        BY <4>1, <4>2
    <3> DEFINE seq == IF n > seqCache[t.of] THEN n ELSE seqCache[t.of]
               u == [t EXCEPT !.stage = "locked", !.seq = seq]
    <3>2. seq \in Int /\ threads' = (threads \ {t}) \cup {u} /\ seqCache' = [seqCache EXCEPT ![t.of] = seq]
      BY <1>4, <3>1
    <3> HIDE DEF seq
    <3>3. u \in Thread /\ u.children = t.children
      BY <3>2, ThreadParts DEF MountInv
    <3> HIDE DEF u
    <3>4. FitThreads'
      BY <1>1, <1>4, <3>2, <3>3 DEF MountInv, FitThreads
    <3>5. UNCHANGED <<record, acked>>
      BY <2>1 DEF Resolve
    <3> QED
      BY <1>1, <1>4, <3>2, <3>4, <3>5, SameRecords DEF MountInv
  <2>2. CASE Publish(t)
    <3>1. /\ Accept(t.of, t.seq + 1, t.children) /\ t.seq + 1 \in Int /\ threads' \subseteq threads
          /\ seqCache' = RecordPublish(t.of, t.seq + 1) /\ acked' = [acked EXCEPT ![t.of] = t.seq + 1]
      BY <1>4, <2>2 DEF Publish
    <3>2. seqCache' \in [FolderIds -> Int] /\ acked' \in [FolderIds -> Int]
      BY <1>4, <3>1 DEF RecordPublish
    <3> QED
      BY <1>1, <1>4, <3>1, <3>2, AcceptFits, FewerThreads DEF MountInv
  <2>3. CASE PublishChild(t)
    <3>1. /\ Accept(t.child, 0, {}) /\ {} \in Listing /\ {} \subseteq KnownEntry(used) /\ 0 \in Int
          /\ threads' = (threads \ {t}) \cup {[t EXCEPT !.stage = "wait"]}
          /\ seqCache' = RecordPublish(t.child, 0) /\ acked' = [acked EXCEPT ![t.child] = IF @ > 0 THEN @ ELSE 0]
      BY <2>3 DEF PublishChild, Listing
    <3>2. seqCache' \in [FolderIds -> Int] /\ acked' \in [FolderIds -> Int]
      BY <1>4, <3>1 DEF RecordPublish
    <3>3. [t EXCEPT !.stage = "wait"] \in Thread /\ [t EXCEPT !.stage = "wait"].children = t.children
      BY ThreadParts DEF MountInv
    <3>4. FitThreads'
      BY <1>1, <1>4, <3>1, <3>3 DEF MountInv, FitThreads
    <3> QED
      BY <1>1, <3>1, <3>2, <3>4, AcceptFits DEF MountInv
  <2>4. CASE PublishFails(t) \/ ResolveNotFound(t)
    <3>1. UNCHANGED <<record, seqCache, acked>> /\ threads' \subseteq threads
      BY <2>4 DEF PublishFails, ResolveNotFound
    <3> QED
      BY <1>1, <1>4, <3>1, SameRecords, FewerThreads DEF MountInv
  <2>5. CASE AnswerLost(t)
    <3>1. /\ Accept(t.of, t.seq + 1, t.children) /\ t.seq + 1 \in Int /\ threads' \subseteq threads
          /\ UNCHANGED <<seqCache, acked>>
      BY <1>4, <2>5 DEF AnswerLost
    <3> QED
      BY <1>1, <1>4, <3>1, AcceptFits, FewerThreads DEF MountInv
  <2> QED
    BY <2>1, <2>2, <2>3, <2>4, <2>5
<1>6. FitSets'
  BY <1>1, <1>3, <1>5 DEF MountInv, FitSets
<1> QED
  BY <1>1, <1>2, <1>5, <1>6 DEF MountInv

(* Reads and the passing of time                                            *)
LEMMA ReadsFit ==
    ASSUME MountInv,
           \/ \E p \in Inos : Lookup(p) \/ ReadDir(p)
           \/ GetAttr
           \/ \E r \in asked : RefreshAnswered(r) \/ RefreshFails(r)
           \/ \E i \in Inos : OpenWrite(i) \/ Release(i) \/ CooldownEnds(i)
    PROVE  MountInv' /\ UNCHANGED <<tree, removed>>
<1>1. UNCHANGED <<record, tree, mount, seqCache, used, acked, made, removed, gone, mishaps>>
  BY DEF Lookup, ReadDir, GetAttr, RefreshAnswered, RefreshFails, OpenWrite, Release, CooldownEnds, network
<1>2. FitTree' /\ FitMount' /\ FitRecords'
  BY <1>1, SameTree, SameMount, SameRecords DEF MountInv
<1>3. (FitThreads' /\ built' \in Nat /\ queue' \subseteq Inos /\ rushed' \in BOOLEAN)
  <2>0. UNCHANGED <<inode, used>>
    BY <1>1 DEF tree
  <2>1. CASE \E p \in Inos : Lookup(p)
    BY <2>0, <2>1, FlushFits DEF Lookup
  <2>2. CASE GetAttr
    BY <2>0, <2>2, FlushFits DEF GetAttr
  <2>3. CASE \E i \in Inos : Release(i)
    <3>1. PICK i \in Inos : Release(i)
      BY <2>3
    <3>2. (IF Live(i) THEN inode[i].parent ELSE RootIno) \in Inos
      BY Numbers DEF MountInv, FitTree, FitTable, Inode
    <3> QED
      BY <2>0, <3>1, <3>2, FlushFits DEF Release
  <2>4. CASE \/ \E p \in Inos : ReadDir(p)
             \/ \E r \in asked : RefreshAnswered(r) \/ RefreshFails(r)
             \/ \E i \in Inos : OpenWrite(i)
    <3>1. UNCHANGED <<threads, built, queue, rushed, used>>
      BY <2>4 DEF ReadDir, RefreshAnswered, RefreshFails, OpenWrite, network
    <3> QED
      BY <3>1, FewerThreads DEF MountInv, FitSets
  <2>5. CASE \E i \in Inos : CooldownEnds(i)
    <3>1. UNCHANGED <<threads, built, queue, used>> /\ rushed' \in BOOLEAN
      BY <2>5 DEF CooldownEnds, network, MountInv, FitSets
    <3> QED
      BY <3>1, FewerThreads DEF MountInv, FitSets
  <2> QED
    BY <2>1, <2>2, <2>3, <2>4, <2>5
<1>4. mutated' \subseteq Inos /\ open' \subseteq Inos
  <2>1. CASE \E i \in Inos : Release(i)
    <3>1. PICK i \in Inos : Release(i)
      BY <2>1
    <3>2. (IF Live(i) THEN inode[i].parent ELSE RootIno) \in Inos
      BY Numbers DEF MountInv, FitTree, FitTable, Inode
    <3> QED
      BY <3>1, <3>2 DEF Release, MountInv, FitSets
  <2>2. CASE ~\E i \in Inos : Release(i)
    BY <2>2 DEF Lookup, ReadDir, GetAttr, RefreshAnswered, RefreshFails, OpenWrite, CooldownEnds, network,
                MountInv, FitSets
  <2> QED
    BY <2>1, <2>2
<1>5. FitFetched'
  <2>0. UNCHANGED <<nextIno, used>> /\ nextIno \in Int /\ nextIno <= nextIno'
    BY <1>1 DEF tree, MountInv, FitTree, FitNumbers
  <2>1. CASE \E p \in Inos : Lookup(p) \/ ReadDir(p)
    <3>1. PICK p \in Inos : IsFolder(p) /\ StartRefresh(p) /\ UNCHANGED fetched
      BY <2>1 DEF Lookup, ReadDir
    <3>2. inode[p].of \in FolderIds /\ p < nextIno
      BY <3>1, Numbers, FreeInode DEF IsFolder, MountInv, FitTree, FitTable, FitNumbers
    <3>3. [ino |-> p, of |-> inode[p].of] \in Refresh
      BY <3>2 DEF Refresh
    <3> QED
      BY <2>0, <3>1, <3>2, <3>3 DEF StartRefresh, MountInv, FitFetched
  <2>2. CASE \E r \in asked : RefreshAnswered(r)
    <3>1. PICK r \in asked : /\ asked' = asked \ {r}
                             /\ fetched' = fetched \cup {[ino |-> r.ino, of |-> r.of, children |-> record[r.of].children]}
      BY <2>2 DEF RefreshAnswered
    <3>2. r.ino \in Inos /\ r.of \in FolderIds /\ r.ino < nextIno
      BY DEF MountInv, FitFetched, Refresh
    <3>3. record[r.of].children \in Listing /\ record[r.of].children \subseteq KnownEntry(used)
      BY <3>2 DEF MountInv, FitRecords, Record
    <3>4. PICK new : new = [ino |-> r.ino, of |-> r.of, children |-> record[r.of].children]
      OBVIOUS
    <3>5. new \in Fetched /\ new.ino < nextIno /\ new.children \subseteq KnownEntry(used)
      BY <3>2, <3>3, <3>4 DEF Fetched
    <3> QED
      BY <2>0, <3>1, <3>4, <3>5 DEF MountInv, FitFetched
  <2>3. CASE ~(\E p \in Inos : Lookup(p) \/ ReadDir(p)) /\ ~\E r \in asked : RefreshAnswered(r)
    <3>1. asked' \subseteq asked /\ fetched' \subseteq fetched
      BY <2>3 DEF GetAttr, RefreshFails, OpenWrite, Release, CooldownEnds
    <3> QED
      BY <2>0, <3>1, FewerFetched DEF MountInv
  <2> QED
    BY <2>1, <2>2, <2>3
<1> QED
  BY <1>1, <1>2, <1>3, <1>4, <1>5 DEF MountInv, FitSets

-----------------------------------------------------------------------------
(* MountFolders: mounting, quitting and the other devices                   *)

LEMMA TreeKept == ASSUME UNCHANGED tree PROVE Keeps
BY DEF Keeps, tree

LEMMA EntriesKept ==
    ASSUME FitTree, Keeps, NEW f \in FileIds, InTree(f)
    PROVE  InTree(f)'
<1>1. PICK p \in Inos : IsFolder(p) /\ \E i \in inode[p].children : inode[i].of = f
  BY DEF InTree
<1>2. PICK i \in inode[p].children : inode[i].of = f
  BY <1>1
<1>3. i \in Inos
  BY DEF FitTree, FitTable, Inode
<1>4. inode[i].kind # "free"
  BY <1>2, <1>3, MountAssumption DEF FitTree, FitTable
<1>5. inode'[p].kind = "folder" /\ i \in inode'[p].children /\ inode'[i].of = f
  BY <1>1, <1>2, <1>3, <1>4 DEF Keeps, IsFolder
<1> QED
  BY <1>5 DEF InTree, IsFolder

LEMMA MountFits == ASSUME MountInv, Mount PROVE MountInv' /\ Keeps
<1>1. UNCHANGED <<record, threads, seqCache, acked, built, mutated, queue, open, asked, fetched, used,
                  made, removed, gone, rushed>>
  BY DEF Mount, network
<1>2. FitRecords' /\ FitThreads' /\ (mishaps' \in Nat)
  <2>1. mishaps' = mishaps \/ mishaps' = mishaps + 1
    BY DEF Mount
  <2> QED
    BY <1>1, <2>1, SameRecords, FewerThreads DEF MountInv, FitSets
<1>3. FitSets'
  BY <1>1, <1>2 DEF MountInv, FitSets
<1>4. /\ inode = [i \in Inos |-> IF i = RootIno THEN RootInode ELSE Free]
      /\ \A p \in Inos, n \in Names : index[<<p, n>>] = NoIno
      /\ nextIno = 2 /\ RootIno \in Inos /\ RootIno = 1
  BY Numbers DEF Mount, MountInv, FitMount
<1>5. FitTree' /\ nextIno' \in Int /\ nextIno <= nextIno' /\ FitMount' /\ Keeps
  <2>1. CASE UNCHANGED tree /\ mount' = Up
    <3>1. FitMount'
      BY <2>1 DEF FitMount, Up, Down, Phase
    <3> QED
      BY <1>1, <1>4, <2>1, <3>1, SameTree, TreeKept DEF MountInv, tree
  <2>2. CASE /\ Populate(RootIno, record[Root].children)
             /\ mount' = [up |-> TRUE, todo |->
                           {i \in inode'[RootIno].children : inode'[i].kind = "folder"}]
    <3>1. record[Root].children \in SUBSET KnownEntry(used)
      BY MountAssumption DEF MountInv, FitRecords
    <3>2. Agrees(RootIno, record[Root].children)
      BY <1>4, <3>1 DEF Agrees, KnownEntry
    <3>3. /\ FitTable(inode', used) /\ FitNumbers' /\ nextIno <= nextIno'
          /\ \A q \in Inos \ {RootIno}, n \in Names : index'[<<q, n>>] = index[<<q, n>>]
          /\ Keeps
          /\ \A i \in inode'[RootIno].children :
                i \in inode[RootIno].children \/ i >= nextIno \/ \E n \in Names : index[<<RootIno, n>>] = i
      <4>1. RootIno < nextIno /\ FitTree /\ used \subseteq Ids
        BY <1>4 DEF MountInv, FitSets
      <4> QED
        BY <1>4, <2>2, <3>1, <3>2, <4>1, PopulateFits
    <3>4. inode[RootIno].children = {}
      BY <1>4, FreeInode
    <3>5. ASSUME NEW i \in inode'[RootIno].children PROVE i \in Inos /\ i # RootIno
      <4>1. i \in Inos
        BY <1>4, <3>3 DEF FitTable, Inode
      <4>2. i >= nextIno \/ \E n \in Names : index[<<RootIno, n>>] = i
        BY <3>3, <3>4
      <4>3. \A n \in Names : index[<<RootIno, n>>] # i
        BY <1>4, <4>1, Numbers
      <4> QED
        <5>1. i >= 2
          BY <1>4, <4>2, <4>3
        <5>2. RootIno = 1
          BY Numbers
        <5> QED
          BY <4>1, <5>1, <5>2
    <3>6. mount'.todo = {i \in inode'[RootIno].children : inode'[i].kind = "folder"} /\ mount'.up = TRUE
      BY <2>2
    <3>7. mount' \in Phase
      BY <2>2, <3>5 DEF Phase
    <3>8. mount' # Down
      BY <3>6 DEF Down
    <3>9. \A i \in mount'.todo : inode'[i].kind = "folder" /\ \A n \in Names : index'[<<i, n>>] = NoIno
      <4> SUFFICES ASSUME NEW i \in mount'.todo
                   PROVE  inode'[i].kind = "folder" /\ \A n \in Names : index'[<<i, n>>] = NoIno
        OBVIOUS
      <4>1. i \in inode'[RootIno].children /\ inode'[i].kind = "folder"
        BY <3>6
      <4>2. i \in Inos \ {RootIno}
        BY <3>5, <4>1
      <4> QED
        BY <1>4, <3>3, <4>1, <4>2
    <3>10. FitMount'
      BY <3>6, <3>7, <3>8, <3>9 DEF FitMount, IsFolder
    <3>11. nextIno' \in Int
      BY <3>3, Numbers DEF FitNumbers
    <3> QED
      BY <1>1, <3>3, <3>10, <3>11 DEF FitTree
  <2> QED
    BY <2>1, <2>2 DEF Mount
<1>6. FitFetched'
  BY <1>1, <1>5, FewerFetched DEF MountInv
<1> QED
  BY <1>2, <1>3, <1>5, <1>6 DEF MountInv

LEMMA PrePopulateFits == ASSUME MountInv, NEW i \in Inos, PrePopulate(i) PROVE MountInv' /\ Keeps
<1>1. UNCHANGED <<record, threads, seqCache, acked, built, mutated, queue, open, asked, fetched, used,
                  made, removed, gone, rushed>>
  BY DEF PrePopulate, network
<1>2. FitRecords' /\ FitThreads' /\ (mishaps' \in Nat)
  <2>1. mishaps' = mishaps \/ mishaps' = mishaps + 1
    BY DEF PrePopulate
  <2> QED
    BY <1>1, <2>1, SameRecords, FewerThreads DEF MountInv, FitSets
<1>3. FitSets'
  BY <1>1, <1>2 DEF MountInv, FitSets
<1>4. /\ mount \in Phase /\ mount.up /\ i \in mount.todo /\ mount' = [mount EXCEPT !.todo = @ \ {i}]
      /\ IsFolder(i) /\ inode[i].of \in FolderIds /\ i < nextIno
      /\ \A n \in Names : index[<<i, n>>] = NoIno
  <2>1. mount \in Phase /\ mount.up /\ i \in mount.todo /\ mount' = [mount EXCEPT !.todo = @ \ {i}]
        /\ IsFolder(i) /\ \A n \in Names : index[<<i, n>>] = NoIno
    BY DEF PrePopulate, MountInv, FitMount
  <2> QED
    BY <2>1, Numbers DEF IsFolder, MountInv, FitTree, FitTable, FitNumbers
<1>5. mount' \in Phase /\ mount'.up /\ mount'.todo = mount.todo \ {i} /\ mount' # Down
  BY <1>4 DEF Phase, Down
<1>6. FitTree' /\ nextIno' \in Int /\ nextIno <= nextIno' /\ FitMount' /\ Keeps
  <2>1. CASE UNCHANGED tree
    <3>1. FitMount'
      BY <1>5, <2>1 DEF MountInv, FitMount, tree, IsFolder
    <3>2. nextIno \in Int /\ nextIno <= nextIno
      BY Numbers DEF MountInv, FitTree, FitNumbers
    <3> QED
      BY <1>1, <2>1, <3>1, <3>2, SameTree, TreeKept DEF MountInv, tree
  <2>2. CASE Populate(i, record[inode[i].of].children)
    <3>1. record[inode[i].of].children \in SUBSET KnownEntry(used)
      BY <1>4 DEF MountInv, FitRecords
    <3>2. Agrees(i, record[inode[i].of].children)
      BY <1>4, <3>1 DEF Agrees, KnownEntry
    <3>3. /\ FitTable(inode', used) /\ FitNumbers' /\ nextIno <= nextIno'
          /\ \A q \in Inos \ {i}, n \in Names : index'[<<q, n>>] = index[<<q, n>>]
          /\ Keeps
      <4>1. FitTree /\ used \subseteq Ids
        BY DEF MountInv, FitSets
      <4> QED
        BY <1>4, <2>2, <3>1, <3>2, <4>1, PopulateFits
    <3>4. \A j \in mount'.todo : j \in Inos /\ inode[j].kind = "folder" /\ j # i /\ j \in mount.todo
      BY <1>4, <1>5 DEF Phase, MountInv, FitMount, IsFolder
    <3>5. \A j \in mount'.todo : inode'[j].kind = "folder" /\ \A n \in Names : index'[<<j, n>>] = NoIno
      BY <3>3, <3>4 DEF Keeps, MountInv, FitMount
    <3>6. FitMount'
      BY <1>5, <3>5 DEF FitMount, IsFolder
    <3>7. nextIno' \in Int
      BY <3>3, Numbers DEF FitNumbers
    <3> QED
      BY <1>1, <3>3, <3>6, <3>7 DEF FitTree
  <2> QED
    BY <2>1, <2>2 DEF PrePopulate
<1>7. FitFetched'
  BY <1>1, <1>6, FewerFetched DEF MountInv
<1> QED
  BY <1>2, <1>3, <1>6, <1>7 DEF MountInv

LEMMA QuitFits == ASSUME MountInv, Quit PROVE MountInv' /\ mount' = Down
<1>1. /\ inode' = [i \in Inos |-> IF i = RootIno THEN RootInode ELSE Free]
      /\ index' = [key \in Inos \X Names |-> NoIno] /\ nextIno' = RootIno + 1 /\ mount' = Down
      /\ mutated' = {} /\ queue' = {} /\ open' = {} /\ threads' = {} /\ asked' = {} /\ fetched' = {}
      /\ seqCache' = [d \in FolderIds |-> -1] /\ acked' = [d \in FolderIds |-> -1]
      /\ UNCHANGED <<record, used, built, made, removed, gone>>
  BY DEF Quit
<1>2. FitTable(inode', used')
  <2>1. inode' \in [Inos -> Inode] /\ \A i \in Inos : inode'[i] \in {Free, RootInode}
    BY <1>1, FreeInode
  <2>2. Root \in used'
    BY <1>1 DEF MountInv, FitSets
  <2> QED
    BY <2>1, <2>2, FreeInode, MountAssumption DEF FitTable
<1>3. FitNumbers'
  <2>1. \A i \in Inos : i >= RootIno + 1 => inode'[i] = Free
    BY <1>1, Numbers
  <2> QED
    BY <1>1, <2>1, Numbers, FreeInode DEF FitNumbers
<1>4. FitMount'
  BY <1>1 DEF FitMount, Phase, Down
<1>5. FitRecords' /\ FitThreads' /\ FitFetched'
  BY <1>1, SameRecords DEF MountInv, FitThreads, FitFetched
<1>6. mishaps' \in Nat /\ rushed' \in BOOLEAN
  BY DEF Quit, MountInv, FitSets
<1>7. FitSets'
  <2>1. seqCache' \in [FolderIds -> Int] /\ acked' \in [FolderIds -> Int]
    <3>1. -1 \in Int
      OBVIOUS
    <3> QED
      BY <1>1, <3>1
  <2> QED
    BY <1>1, <1>6, <2>1 DEF MountInv, FitSets
<1> QED
  BY <1>1, <1>2, <1>3, <1>4, <1>5, <1>7 DEF MountInv, FitTree

(* A refresh is merged                                                      *)
LEMMA DrainFits ==
    ASSUME MountInv, NEW m \in fetched, DrainRefresh(m)
    PROVE  MountInv' /\ UNCHANGED removed /\ (~rushed' => Keeps)
<1>1. UNCHANGED <<record, threads, seqCache, acked, built, mount, mutated, queue, open, asked, used,
                  made, removed, gone, mishaps>> /\ Serving /\ fetched' \subseteq fetched
  BY DEF DrainRefresh, network
<1>2. FitRecords' /\ FitThreads' /\ FitMount'
  BY <1>1, SameRecords, FewerThreads, ServingMount DEF MountInv
<1>3. m.ino \in Inos /\ m.ino < nextIno /\ m.children \in SUBSET KnownEntry(used)
  BY DEF MountInv, FitFetched, Fetched
<1>4. FitTree' /\ nextIno' \in Int /\ nextIno <= nextIno' /\ rushed' \in BOOLEAN /\ (~rushed' => Keeps)
  <2>1. CASE UNCHANGED <<tree, rushed>>
    <3>1. nextIno \in Int /\ nextIno <= nextIno
      BY Numbers DEF MountInv, FitTree, FitNumbers
    <3> QED
      BY <1>1, <2>1, <3>1, SameTree, TreeKept DEF MountInv, FitSets, tree
  <2>2. CASE Populate(m.ino, m.children) /\ rushed' = (rushed \/ Collides(m))
    <3>1. rushed' \in BOOLEAN /\ (~rushed' => Agrees(m.ino, m.children))
      BY <2>2 DEF Collides, Agrees, MountInv, FitSets
    <3>2. /\ FitTable(inode', used) /\ FitNumbers' /\ nextIno <= nextIno'
          /\ Agrees(m.ino, m.children) => Keeps
      <4>1. FitTree /\ used \subseteq Ids
        BY DEF MountInv, FitSets
      <4> QED
        BY <1>3, <2>2, <4>1, PopulateFits
    <3>3. nextIno' \in Int
      BY <3>2, Numbers DEF FitNumbers
    <3> QED
      BY <1>1, <3>1, <3>2, <3>3 DEF FitTree
  <2> QED
    BY <2>1, <2>2 DEF DrainRefresh
<1>5. FitFetched' /\ FitSets'
  BY <1>1, <1>4, FewerFetched DEF MountInv, FitSets
<1> QED
  BY <1>1, <1>2, <1>4, <1>5 DEF MountInv

(* Other devices' changes                                                   *)
LEMMA ElsewhereFits == ASSUME MountInv, Elsewhere PROVE MountInv' /\ UNCHANGED <<tree, removed>>
<1>1. /\ UNCHANGED <<tree, mount, mutated, queue, open, threads, seqCache, asked, fetched, built, acked,
                     made, removed, rushed>>
      /\ mishaps' = mishaps + 1
  BY DEF Elsewhere, RemoteAdd, RemoteRemove
<1>2. FitRecords' /\ used \subseteq used' /\ used' \subseteq Ids /\ gone' \subseteq used'
  <2>1. CASE \E d \in FolderIds, n \in Names, e \in Ids : RemoteAdd(d, n, e)
    <3>1. PICK d \in FolderIds, n \in Names, e \in Ids : RemoteAdd(d, n, e)
      BY <2>1
    <3> DEFINE c == [name |-> n, of |-> e]
               new == [seq |-> record[d].seq + 1, children |-> record[d].children \cup {c}]
               fresh == [seq |-> 0, children |-> {}]
    <3>2. /\ used' = used \cup {e} /\ UNCHANGED gone
          /\ record' = [x \in FolderIds |-> IF x = d THEN new ELSE IF x = e THEN fresh ELSE record[x]]
      BY <3>1 DEF RemoteAdd
    <3>3. c \in KnownEntry(used') /\ c \in Entry
      BY <3>2 DEF KnownEntry, Entry
    <3> HIDE DEF c
    <3>4. record[d].children \subseteq KnownEntry(used') /\ record[d] \in Record
      BY <3>2, KnownGrows DEF MountInv, FitRecords
    <3>5. new \in Record /\ new.children \subseteq KnownEntry(used') /\ fresh \in Record /\ fresh.children = {}
      BY <3>3, <3>4 DEF Record, Listing
    <3> HIDE DEF new, fresh
    <3>6. record \in [FolderIds -> Record] /\ \A x \in FolderIds : record[x].children \subseteq KnownEntry(used')
      BY <3>2, KnownGrows DEF MountInv, FitRecords
    <3>7. FitRecords'
      BY <3>2, <3>5, <3>6 DEF FitRecords
    <3> QED
      BY <3>2, <3>7 DEF MountInv, FitSets
  <2>2. CASE \E d \in FolderIds : \E c \in record[d].children : RemoteRemove(d, c)
    <3>1. PICK d \in FolderIds : \E c \in record[d].children : RemoteRemove(d, c)
      BY <2>2
    <3>2. PICK c \in record[d].children : RemoteRemove(d, c)
      BY <3>1
    <3> DEFINE new == [seq |-> record[d].seq + 1, children |-> record[d].children \ {c}]
    <3>3. record \in [FolderIds -> Record] /\ \A x \in FolderIds : record[x].children \subseteq KnownEntry(used)
      BY DEF MountInv, FitRecords
    <3>4. record' = [record EXCEPT ![d] = new] /\ UNCHANGED used /\ gone' = gone \cup {c.of}
      BY <3>2, <3>3 DEF RemoteRemove
    <3>5. new \in Record /\ new.children \subseteq KnownEntry(used)
      BY <3>3 DEF Record, Listing
    <3>6. c.of \in used
      BY <3>3 DEF KnownEntry
    <3> HIDE DEF new
    <3>7. record' \in [FolderIds -> Record] /\ \A x \in FolderIds : record'[x] \in {record[x], new}
      BY <3>3, <3>4, <3>5
    <3>8. FitRecords'
      BY <3>3, <3>4, <3>5, <3>7 DEF FitRecords
    <3> QED
      BY <3>4, <3>6, <3>8 DEF MountInv, FitSets
  <2> QED
    BY <2>1, <2>2 DEF Elsewhere
<1>3. FitTree' /\ FitMount' /\ FitThreads' /\ FitFetched'
  BY <1>1, <1>2, SameTree, SameMount, FewerThreads, SameFetched DEF MountInv, tree
<1>4. FitSets'
  BY <1>1, <1>2 DEF MountInv, FitSets
<1> QED
  BY <1>1, <1>2, <1>3, <1>4 DEF MountInv

-----------------------------------------------------------------------------
(* MountFolders: changes                                                    *)

(* The parts a change leaves alone                                          *)
LEMMA ChangeKeeps ==
    ASSUME MountInv, Serving, UNCHANGED <<record, mount, seqCache, acked, asked, fetched, gone, mishaps>>,
           used \subseteq used', FitNumbers', nextIno <= nextIno'
    PROVE  FitMount' /\ FitRecords' /\ FitFetched'
<1>1. nextIno' \in Int
  BY DEF FitNumbers
<1> QED
  BY <1>1, ServingMount, SameRecords, FewerFetched DEF MountInv

LEMMA CreateFits ==
    ASSUME MountInv, NEW p \in Inos, NEW n \in Names, NEW f \in FileIds, Create(p, n, f)
    PROVE  MountInv' /\ Keeps /\ UNCHANGED removed
<1> DEFINE node == [Free EXCEPT !.kind = "file", !.name = n, !.parent = p, !.of = f, !.resolved = TRUE]
<1>1. /\ UNCHANGED <<record, threads, seqCache, acked, built, mount, queue, asked, fetched, removed, gone, mishaps>>
      /\ Serving /\ IsFolder(p) /\ used' = used \cup {f} /\ made' = made \cup {f}
      /\ InsertInode(p, node) /\ open' = open \cup {nextIno} /\ mutated' = mutated \cup {p}
      /\ rushed' = (rushed \/ ~inode[p].loaded)
  BY DEF Create, NotFound, network
<1>2. /\ node \in Inode /\ node.of = f /\ node.kind = "file" /\ ~node.loaded
      /\ f \in used' /\ used \subseteq used' /\ f \in Ids
  BY <1>1, FreeInode DEF Inode, Ids
<1> HIDE DEF node
<1>3. /\ FitTable(inode', used') /\ FitNumbers' /\ nextIno \in Inos /\ nextIno # p /\ inode'[nextIno] = node
      /\ \A j \in Inos \ {nextIno} : /\ inode'[j].kind = inode[j].kind /\ inode'[j].of = inode[j].of
                                     /\ inode[j].children \subseteq inode'[j].children
  BY <1>1, <1>2, InsertFits DEF MountInv
<1>4. Keeps
  <2>1. inode[nextIno].kind = "free"
    BY <1>3, Numbers DEF MountInv, FitTree, FitNumbers
  <2> QED
    BY <1>3, <2>1 DEF Keeps, IsFolder
<1>5. nextIno' = nextIno + 1 /\ nextIno <= nextIno'
  BY <1>3, Numbers DEF InsertInode, Create
<1>6. FitThreads'
  BY <1>1, <1>2, FewerThreads DEF MountInv
<1>7. FitMount' /\ FitRecords' /\ FitFetched'
  BY <1>1, <1>2, <1>3, <1>5, ChangeKeeps
<1>8. FitSets'
  BY <1>1, <1>2, <1>3 DEF MountInv, FitSets
<1> QED
  BY <1>1, <1>3, <1>4, <1>6, <1>7, <1>8 DEF MountInv, FitTree

LEMMA MkdirFits ==
    ASSUME MountInv, NEW p \in Inos, NEW n \in Names, NEW d \in FolderIds, Mkdir(p, n, d)
    PROVE  MountInv' /\ Keeps /\ UNCHANGED removed
<1> DEFINE node == [Free EXCEPT !.kind = "folder", !.name = n, !.parent = p, !.of = d,
                                !.listed = TRUE, !.loaded = TRUE]
<1>1. /\ UNCHANGED <<record, mount, mutated, queue, open, seqCache, asked, fetched, acked, removed, gone, mishaps>>
      /\ Serving /\ IsFolder(p) /\ used' = used \cup {d} /\ made' = made \cup {d}
      /\ InsertInode(p, node) /\ built' = built + 1
      /\ threads' = threads \cup {Publishing(inode', p, d)}
      /\ rushed' = (rushed \/ Crowded({p}))
  BY DEF Mkdir, NotFound
<1>2. /\ node \in Inode /\ node.of = d /\ node.kind = "folder" /\ node.listed
      /\ d \in used' /\ used \subseteq used' /\ d \in Ids
  BY <1>1, FreeInode DEF Inode, Ids
<1> HIDE DEF node
<1>3. /\ FitTable(inode', used') /\ FitNumbers' /\ nextIno \in Inos /\ nextIno # p /\ inode'[nextIno] = node
      /\ \A j \in Inos \ {nextIno} : /\ inode'[j].kind = inode[j].kind /\ inode'[j].of = inode[j].of
                                     /\ inode[j].children \subseteq inode'[j].children
      /\ inode'[p].kind = "folder"
  BY <1>1, <1>2, InsertFits DEF MountInv
<1>4. Keeps
  <2>1. inode[nextIno].kind = "free"
    BY <1>3, Numbers DEF MountInv, FitTree, FitNumbers
  <2> QED
    BY <1>3, <2>1 DEF Keeps, IsFolder
<1>5. nextIno' = nextIno + 1 /\ nextIno <= nextIno'
  BY <1>3, Numbers DEF InsertInode, Mkdir
<1>6. used' \subseteq Ids /\ built \in Nat
  BY <1>1, <1>2 DEF MountInv, FitSets
<1>7. FitThreads'
  <2>1. PICK t : t = Publishing(inode', p, d)
    OBVIOUS
  <2>2. t \in Thread /\ t.children \subseteq KnownEntry(used')
    BY <1>3, <1>6, <2>1, PublishingFits
  <2>3. /\ threads \subseteq Thread /\ \A u \in threads : u.children \subseteq KnownEntry(used')
    BY <1>2, KnownGrows DEF MountInv, FitThreads
  <2> QED
    BY <1>1, <2>1, <2>2, <2>3 DEF FitThreads
<1>8. FitMount' /\ FitRecords' /\ FitFetched'
  BY <1>1, <1>2, <1>3, <1>5, ChangeKeeps
<1>9. FitSets'
  BY <1>1, <1>2, <1>3, <1>6 DEF MountInv, FitSets
<1> QED
  BY <1>1, <1>3, <1>4, <1>7, <1>8, <1>9 DEF MountInv, FitTree

(* A change publishes the folders it touched                                *)
LEMMA UpdateFits ==
    ASSUME MountInv, UNCHANGED <<queue, open, used, seqCache, acked, made, gone, mishaps>>,
           NEW table, FitTable(table, used), NEW S \in SUBSET Inos, \A p \in S : table[p].kind # "file",
           UpdateFolders(table, S), removed' \subseteq used
    PROVE  FitThreads' /\ FitSets' /\ (~rushed' => \A p \in S : inode[p].loaded)
<1>1. /\ mutated' = mutated \cup S /\ StartPublishes(table, S) /\ rushed' = (rushed \/ Crowded(S))
  BY DEF UpdateFolders
<1>2. FitThreads' /\ built' \in Nat
  BY <1>1, PublishesFit DEF MountInv, FitSets
<1>3. FitSets'
  BY <1>1, <1>2 DEF MountInv, FitSets
<1> QED
  BY <1>1, <1>2, <1>3 DEF Crowded

LEMMA RemoveStepFits ==
    ASSUME MountInv, NEW p \in Inos, NEW n \in Names, Remove(p, n)
    PROVE  /\ MountInv'
           /\ \A f \in FileIds : InTree(f) => InTree(f)' \/ f \in removed'
<1> DEFINE i == index[<<p, n>>]
           table == RemoveInode(inode, i)
<1>1. /\ UNCHANGED <<record, nextIno, mount, queue, open, seqCache, asked, fetched, used, acked, made, gone, mishaps>>
      /\ Serving /\ IsFolder(p) /\ i # NoIno /\ Live(i) /\ Emptied(i)
      /\ inode' = table /\ index' = RemoveName(index, i)
      /\ removed' = removed \cup {inode[i].of} /\ UpdateFolders(table, {p})
  BY DEF Remove
<1>2. i \in Inos
  BY <1>1 DEF MountInv, FitTree, FitNumbers
<1> HIDE DEF i
<1>3. /\ FitTable(table, used)
      /\ \A j \in Inos \ {i} : /\ table[j].kind = inode[j].kind
                               /\ table[j].of = inode[j].of
                               /\ table[j].children \in {inode[j].children, inode[j].children \ {i}}
      /\ table[i] = Free
  BY <1>2, RemoveFits DEF MountInv, FitTree, FitSets
<1> HIDE DEF table
<1>4. inode[i].of \in used /\ inode \in [Inos -> Inode]
  BY <1>2 DEF MountInv, FitTree, FitTable
<1>5. FitThreads' /\ FitSets'
  <2>1. {p} \in SUBSET Inos /\ (\A q \in {p} : table[q].kind # "file")
    BY <1>1, <1>3, FreeInode DEF IsFolder
  <2>2. removed' \subseteq used
    BY <1>1, <1>4 DEF MountInv, FitSets
  <2> QED
    BY <1>1, <1>3, <2>1, <2>2, UpdateFits
<1>6. FitNumbers'
  <2>1. /\ index' \in [Inos \X Names -> Inos \cup {NoIno}]
        /\ \A q \in Inos, m \in Names : index'[<<q, m>>] \in {index[<<q, m>>], NoIno}
    BY <1>1 DEF RemoveName, MountInv, FitTree, FitNumbers
  <2>2. \A q \in Inos, m \in Names : index'[<<q, m>>] < nextIno' /\ index'[<<q, m>>] # q
    <3> SUFFICES ASSUME NEW q \in Inos, NEW m \in Names
                 PROVE  index'[<<q, m>>] < nextIno' /\ index'[<<q, m>>] # q
      OBVIOUS
    <3>1. index'[<<q, m>>] = index[<<q, m>>] \/ index'[<<q, m>>] = NoIno
      BY <2>1
    <3>2. index[<<q, m>>] < nextIno /\ index[<<q, m>>] # q /\ nextIno \in Nat /\ nextIno >= 2
      BY DEF MountInv, FitTree, FitNumbers
    <3> QED
      BY <1>1, <3>1, <3>2, Numbers
  <2>3. \A j \in Inos : j >= nextIno' => inode'[j].kind = "free"
    BY <1>1, <1>3, FreeInode DEF MountInv, FitTree, FitNumbers
  <2> QED
    BY <1>1, <2>1, <2>2, <2>3 DEF MountInv, FitTree, FitNumbers
<1>7. FitMount' /\ FitRecords' /\ FitFetched'
  <2>1. nextIno <= nextIno'
    BY <1>1, Numbers DEF MountInv, FitTree, FitNumbers
  <2> QED
    BY <1>1, <1>6, <2>1, ChangeKeeps
<1>8. ASSUME NEW f \in FileIds, InTree(f) PROVE InTree(f)' \/ f \in removed'
  <2>1. PICK q \in Inos : IsFolder(q) /\ \E j \in inode[q].children : inode[j].of = f
    BY <1>8 DEF InTree
  <2>2. PICK j \in inode[q].children : inode[j].of = f
    BY <2>1
  <2>3. j \in Inos
    BY <1>4 DEF Inode
  <2>4. CASE j = i
    BY <1>1, <2>2, <2>4
  <2>5. CASE j # i
    <3>1. q # i
      BY <1>1, <2>1, <2>2 DEF Emptied
    <3>2. table[q].kind = "folder" /\ j \in table[q].children /\ table[j].of = f
      BY <1>3, <2>1, <2>2, <2>3, <2>5, <3>1 DEF IsFolder
    <3> QED
      BY <1>1, <3>2 DEF InTree, IsFolder
  <2> QED
    BY <2>4, <2>5
<1>9. FitTree'
  BY <1>1, <1>3, <1>6 DEF FitTree
<1> QED
  BY <1>5, <1>7, <1>8, <1>9 DEF MountInv

LEMMA RenameFits ==
    ASSUME MountInv, NEW p \in Inos, NEW n \in Names, NEW q \in Inos, NEW m \in Names, Rename(p, n, q, m)
    PROVE  /\ MountInv'
           /\ \A f \in FileIds : InTree(f) /\ ~rushed' => InTree(f)' \/ f \in removed'
<1>1. PICK i : i = Named(p, n)
  OBVIOUS
<1>2. PICK dest : dest = index[<<q, m>>]
  OBVIOUS
<1>3. PICK cleared : cleared = IF dest = NoIno THEN inode ELSE RemoveInode(inode, dest)
  OBVIOUS
<1>4. PICK names : names = IF dest = NoIno THEN index ELSE RemoveName(index, dest)
  OBVIOUS
<1>5. PICK moved : moved = [cleared[i] EXCEPT !.name = m, !.parent = q]
  OBVIOUS
<1>6. PICK left : left = [cleared[p] EXCEPT !.children = @ \ {i}]
  OBVIOUS
<1>7. PICK joined : joined = [cleared[q] EXCEPT !.children = @ \cup {i}]
  OBVIOUS
<1>8. PICK table : table = [j \in Inos |->
                    IF j = i THEN moved
                    ELSE IF p = q THEN cleared[j]
                    ELSE IF j = p THEN left
                    ELSE IF j = q /\ cleared[q].listed THEN joined
                    ELSE cleared[j]]
  OBVIOUS
<1>9. /\ Serving /\ IsFolder(p) /\ IsFolder(q)
      /\ i # NoIno /\ Live(i) /\ q \notin Under(i)
      /\ dest # i
      /\ dest # NoIno => ~IsFolder(dest) \/ inode[dest].children = {}
      /\ inode' = table
      /\ index' = [names EXCEPT ![<<p, inode[i].name>>] = NoIno, ![<<q, m>>] = i]
      /\ removed' = removed \cup (IF dest # NoIno /\ Live(dest) THEN {inode[dest].of} ELSE {})
      /\ UpdateFolders(table, {p, q})
      /\ UNCHANGED <<record, nextIno, mount, queue, open, seqCache, asked,
                     fetched, used, acked, made, gone, mishaps>>
  BY <1>1, <1>2, <1>3, <1>4, <1>5, <1>6, <1>7, <1>8 DEF Rename
<1>10. /\ inode \in [Inos -> Inode] /\ index \in [Inos \X Names -> Inos \cup {NoIno}] /\ Root \in used
       /\ nextIno \in Nat /\ nextIno >= 2
       /\ \A a \in Inos, x \in Names : index[<<a, x>>] < nextIno /\ index[<<a, x>>] # a
       /\ FitTable(inode, used)
  BY DEF MountInv, FitTree, FitTable, FitNumbers, FitSets
<1>11. i \in Inos
  <2>1. CASE index[<<p, n>>] # NoIno
    BY <1>1, <1>10, <2>1 DEF Named
  <2>2. CASE index[<<p, n>>] = NoIno
    <3>1. PICK ends : ends = {j \in inode[p].children : <<inode[j].name, n>> \in SuffixOf}
      OBVIOUS
    <3>2. Cardinality(ends) = 1 /\ i = CHOOSE j \in ends : TRUE
      BY <1>1, <1>9, <2>2, <3>1 DEF Named
    <3>3. ends # {}
      BY <3>2, FS_EmptySet
    <3>4. i \in ends
      BY <3>2, <3>3
    <3>5. inode[p].children \subseteq Inos
      BY <1>10 DEF Inode
    <3> QED
      BY <3>1, <3>4, <3>5
  <2> QED
    BY <2>1, <2>2
<1>12. inode[i].name \in Names /\ q # i /\ dest # q /\ dest \in Inos \cup {NoIno}
  BY <1>2, <1>9, <1>10, <1>11 DEF Under, Inode
(* What takes the place of the entry replaced                               *)
<1>13. /\ FitTable(cleared, used)
       /\ \A j \in Inos \ {dest} : /\ cleared[j].kind = inode[j].kind /\ cleared[j].of = inode[j].of
                                   /\ cleared[j].listed = inode[j].listed
                                   /\ cleared[j].children \in {inode[j].children, inode[j].children \ {dest}}
       /\ dest \in Inos => cleared[dest] = Free
  <2>1. CASE dest = NoIno
    BY <1>3, <1>10, <2>1, Numbers
  <2>2. CASE dest # NoIno
    <3>1. dest \in Inos /\ cleared = RemoveInode(inode, dest)
      BY <1>3, <1>12, <2>2
    <3>2. FitTable(inode, used) /\ Root \in used
      BY <1>10
    <3>3. PICK e \in Inos : e = dest
      BY <3>1
    <3>4. /\ FitTable(RemoveInode(inode, e), used)
          /\ RemoveInode(inode, e)[e] = Free
      BY <3>2, <3>3, RemoveFits
    <3>5. \A j \in Inos \ {e} : RemoveInode(inode, e)[j].kind = inode[j].kind
      BY <3>2, <3>3, RemoveFits
    <3>6. \A j \in Inos \ {e} : RemoveInode(inode, e)[j].listed = inode[j].listed /\ RemoveInode(inode, e)[j].of = inode[j].of
      BY <3>2, <3>3, RemoveFits
    <3>7. \A j \in Inos \ {e} : RemoveInode(inode, e)[j].children \in {inode[j].children, inode[j].children \ {e}}
      BY <3>2, <3>3, RemoveFits
    <3> QED
      BY <3>1, <3>3, <3>4, <3>5, <3>6, <3>7
  <2> QED
    BY <2>1, <2>2
<1>14. cleared[i] \in Inode /\ cleared[p] \in Inode /\ cleared[q] \in Inode
  BY <1>11, <1>13 DEF FitTable
<1>15. /\ moved \in Inode /\ moved.kind = cleared[i].kind /\ moved.of = cleared[i].of
       /\ moved.listed = cleared[i].listed /\ moved.loaded = cleared[i].loaded
       /\ moved.children = cleared[i].children
  BY <1>5, <1>14 DEF Inode
<1>16. /\ left \in Inode /\ left.kind = cleared[p].kind /\ left.of = cleared[p].of
       /\ left.listed = cleared[p].listed /\ left.loaded = cleared[p].loaded
       /\ left.children = cleared[p].children \ {i}
  BY <1>6, <1>14 DEF Inode
<1>17. /\ joined \in Inode /\ joined.kind = cleared[q].kind /\ joined.of = cleared[q].of
       /\ joined.listed = cleared[q].listed /\ joined.loaded = cleared[q].loaded
       /\ joined.children = cleared[q].children \cup {i}
  BY <1>7, <1>11, <1>14 DEF Inode
<1>18. cleared[q].kind = "folder"
  BY <1>9, <1>12, <1>13 DEF IsFolder
<1>19. ASSUME NEW j \in Inos
       PROVE  /\ table[j] \in Inode /\ table[j].kind = cleared[j].kind /\ table[j].of = cleared[j].of
              /\ table[j].listed = cleared[j].listed /\ table[j].loaded = cleared[j].loaded
              /\ table[j].children \subseteq cleared[j].children \/ j = q
              /\ \A x \in cleared[j].children : x # i => x \in table[j].children
              /\ p = q /\ j # i => table[j].children = cleared[j].children
              /\ p # q /\ j = q /\ cleared[q].listed => i \in table[j].children
  <2>1. table[j] = IF j = i THEN moved
                   ELSE IF p = q THEN cleared[j]
                   ELSE IF j = p THEN left
                   ELSE IF j = q /\ cleared[q].listed THEN joined
                   ELSE cleared[j]
    BY <1>8
  <2>2. cleared[j] \in Inode
    BY <1>13 DEF FitTable
  <2>3. CASE j = i
    BY <1>12, <1>15, <2>1, <2>3
  <2>4. CASE j # i /\ p # q /\ j = p
    BY <1>16, <2>1, <2>4
  <2>5. CASE j # i /\ p # q /\ j = q /\ j # p /\ cleared[q].listed
    BY <1>17, <2>1, <2>5
  <2>6. CASE j # i /\ (p = q \/ (j # p /\ (j # q \/ ~cleared[q].listed)))
    BY <2>1, <2>2, <2>6
  <2> QED
    BY <2>3, <2>4, <2>5, <2>6
<1>20. FitTable(table, used)
  <2>1. table \in [Inos -> Inode]
    BY <1>8, <1>19
  <2>2. ASSUME NEW j \in Inos, table[j].kind = "free" PROVE table[j].children = {}
    <3>1. j # q
      BY <1>18, <1>19, <2>2
    <3> QED
      BY <1>13, <1>19, <2>2, <3>1 DEF FitTable
  <2> QED
    BY <1>13, <1>19, <2>1, <2>2 DEF FitTable
<1>21. FitNumbers'
  <2>1. /\ names \in [Inos \X Names -> Inos \cup {NoIno}]
        /\ \A a \in Inos, x \in Names : names[<<a, x>>] \in {index[<<a, x>>], NoIno}
    BY <1>4, <1>10 DEF RemoveName
  <2>2. index' \in [Inos \X Names -> Inos \cup {NoIno}]
    <3>1. i \in Inos \cup {NoIno} /\ NoIno \in Inos \cup {NoIno}
      BY <1>11
    <3>2. index' = [names EXCEPT ![<<p, inode[i].name>>] = NoIno, ![<<q, m>>] = i]
      BY <1>9
    <3> QED
      BY <2>1, <3>1, <3>2
  <2>3. ASSUME NEW a \in Inos, NEW x \in Names
        PROVE  /\ \/ index'[<<a, x>>] = index[<<a, x>>] \/ index'[<<a, x>>] = NoIno
                  \/ (a = q /\ index'[<<a, x>>] = i)
    <3>1. names[<<a, x>>] = index[<<a, x>>] \/ names[<<a, x>>] = NoIno
      BY <2>1
    <3>2. \/ index'[<<a, x>>] = names[<<a, x>>] \/ index'[<<a, x>>] = NoIno
          \/ (a = q /\ index'[<<a, x>>] = i)
      BY <1>9, <1>12, <2>1
    <3> QED
      BY <3>1, <3>2
  <2>4. i < nextIno
    BY <1>9, <1>10, <1>11, Numbers DEF Live, MountInv, FitTree, FitNumbers
  <2>5. ASSUME NEW a \in Inos, NEW x \in Names
        PROVE  index'[<<a, x>>] < nextIno' /\ index'[<<a, x>>] # a
    <3>1. index[<<a, x>>] < nextIno /\ index[<<a, x>>] # a /\ nextIno' = nextIno
      BY <1>9, <1>10
    <3> QED
      BY <1>10, <1>12, <2>3, <2>4, <3>1, Numbers
  <2>6. \A j \in Inos : j >= nextIno' => inode'[j].kind = "free"
    <3> SUFFICES ASSUME NEW j \in Inos, j >= nextIno' PROVE inode'[j].kind = "free"
      OBVIOUS
    <3>1. inode[j].kind = "free"
      BY <1>9 DEF MountInv, FitTree, FitNumbers
    <3>2. cleared[j].kind = "free"
      BY <1>13, <3>1, FreeInode
    <3> QED
      BY <1>9, <1>19, <3>2
  <2> QED
    BY <1>9, <2>2, <2>5, <2>6 DEF MountInv, FitTree, FitNumbers
<1>22. FitThreads' /\ FitSets' /\ (~rushed' => inode[q].loaded)
  <2>1. {p, q} \in SUBSET Inos
    OBVIOUS
  <2>2. \A a \in {p, q} : table[a].kind # "file"
    <3>1. inode[p].kind = "folder" /\ inode[q].kind = "folder"
      BY <1>9 DEF IsFolder
    <3>2. cleared[p].kind # "file" /\ cleared[q].kind # "file"
      BY <1>13, <3>1, FreeInode
    <3> QED
      BY <1>19, <3>2
  <2>3. removed' \subseteq used
    <3>1. dest \in Inos => inode[dest].of \in used
      BY <1>10 DEF FitTable
    <3> QED
      BY <1>9, <1>12, <3>1 DEF MountInv, FitSets
  <2> QED
    BY <1>9, <1>20, <2>1, <2>2, <2>3, UpdateFits
<1>23. FitMount' /\ FitRecords' /\ FitFetched'
  <2>1. nextIno <= nextIno'
    BY <1>9, <1>10
  <2> QED
    BY <1>9, <1>21, <2>1, ChangeKeeps
<1>24. ASSUME NEW f \in FileIds, InTree(f), ~rushed' PROVE InTree(f)' \/ f \in removed'
  <2>1. PICK r \in Inos : IsFolder(r) /\ \E j \in inode[r].children : inode[j].of = f
    BY <1>24 DEF InTree
  <2>2. PICK j \in inode[r].children : inode[j].of = f
    BY <2>1
  <2>3. j \in Inos /\ inode[j].kind = "file"
    <3>1. j \in Inos
      BY <1>10 DEF Inode
    <3>2. inode[j].kind \in {"free", "folder", "file"}
      BY <1>10, <3>1 DEF Inode
    <3> QED
      BY <1>10, <2>2, <3>1, <3>2, MountAssumption DEF FitTable
  <2>4. r # dest
    BY <1>9, <1>12, <2>1, <2>2, Numbers
  <2>5. CASE j = dest
    BY <1>9, <2>2, <2>3, <2>5, Numbers DEF Live
  <2>6. CASE j # dest
    <3>1. /\ cleared[r].kind = "folder" /\ j \in cleared[r].children /\ cleared[j].of = f
          /\ cleared[r].listed = inode[r].listed
      BY <1>13, <2>1, <2>2, <2>3, <2>4, <2>6 DEF IsFolder
    <3>2. table[r].kind = "folder" /\ table[j].of = f
      BY <1>19, <2>3, <3>1
    <3>3. CASE j # i \/ p = q
      <4>1. r # i \/ j # i
        BY <2>1, <2>3 DEF IsFolder
      <4>2. j \in table[r].children
        BY <1>19, <3>1, <3>3, <4>1
      <4> QED
        BY <1>9, <3>2, <4>2 DEF InTree, IsFolder
    <3>4. CASE j = i /\ p # q
      <4>1. cleared[q].listed
        BY <1>10, <1>12, <1>13, <1>22, <1>24 DEF FitTable
      <4>2. table[q].kind = "folder" /\ i \in table[q].children
        BY <1>18, <1>19, <3>4, <4>1
      <4> QED
        BY <1>9, <3>2, <3>4, <4>2 DEF InTree, IsFolder
    <3> QED
      BY <3>3, <3>4
  <2> QED
    BY <2>5, <2>6
<1>25. FitTree'
  BY <1>9, <1>20, <1>21 DEF FitTree
<1> QED
  BY <1>22, <1>23, <1>24, <1>25 DEF MountInv

-----------------------------------------------------------------------------
(* MountFolders: the theorems                                               *)

MadeKept == \A f \in made \cap FileIds : InTree(f) /\ ~rushed' =>
                InTree(f)' \/ f \in removed' \/ mount' = Down

LEMMA MountStep == ASSUME MountInv, [Next]_vars PROVE MountInv' /\ MadeKept
<1>0. Keeps => \A f \in FileIds : InTree(f) => InTree(f)'
  BY EntriesKept DEF MountInv
<1>1. CASE Session
  BY <1>0, <1>1, MountFits, PrePopulateFits, QuitFits DEF Session, MadeKept
<1>2. CASE \E m \in fetched : DrainRefresh(m)
  BY <1>0, <1>2, DrainFits DEF MadeKept
<1>3. CASE \/ Reading /\ ~\E m \in fetched : DrainRefresh(m)
           \/ \E i \in Inos : OpenWrite(i) \/ Release(i)
           \/ Passing
  <2>1. MountInv' /\ UNCHANGED <<tree, removed>>
    BY <1>3, ReadsFit DEF Reading, Passing
  <2> QED
    BY <1>0, <2>1, TreeKept DEF MadeKept
<1>4. CASE \E p \in Inos, n \in Names :
             (\E f \in FileIds : Create(p, n, f)) \/ \E d \in FolderIds : Mkdir(p, n, d)
  BY <1>0, <1>4, CreateFits, MkdirFits DEF MadeKept
<1>5. CASE \E p \in Inos, n \in Names : Remove(p, n)
  BY <1>5, RemoveStepFits DEF MadeKept
<1>6. CASE \E p \in Inos, n \in Names, q \in Inos, m \in Names : Rename(p, n, q, m)
  BY <1>6, RenameFits DEF MadeKept
<1>7. CASE PublishingSteps
  BY <1>0, <1>7, ThreadFits, TreeKept DEF PublishingSteps, MadeKept
<1>8. CASE Elsewhere
  BY <1>0, <1>8, ElsewhereFits, TreeKept DEF MadeKept
<1>9. CASE UNCHANGED vars
  <2>1. UNCHANGED <<tree, used, record, threads, asked, fetched, nextIno, mount>>
    BY <1>9 DEF vars, tree
  <2>2. FitTree' /\ FitMount' /\ FitRecords' /\ FitThreads' /\ FitFetched'
    BY <2>1, SameTree, SameMount, SameRecords, FewerThreads, SameFetched DEF MountInv
  <2>3. FitSets'
    BY <1>9 DEF vars, MountInv, FitSets
  <2> QED
    BY <1>0, <2>1, <2>2, <2>3, TreeKept DEF MountInv, MadeKept
<1> QED
  BY <1>1, <1>2, <1>3, <1>4, <1>5, <1>6, <1>7, <1>8, <1>9 DEF Next, Changing, Reading

LEMMA MountAlways == Spec => []MountInv
<1>1. MountInv /\ [Next]_vars => MountInv'
  BY MountStep
<1> QED
  BY <1>1, MountStart, PTL DEF Spec

(* The table, the records, the publishes and the refreshes under way are as *)
(* declared: an entry published or merged is one that was given out, and no *)
(* refresh is for an inode number still to be given out                     *)
THEOREM FoldersTypeCorrect == Spec => []TypeOK
<1>1. MountInv => TypeOK
  BY DEF MountInv, FitTree, FitTable, FitNumbers, FitMount, FitRecords, FitThreads, FitFetched, FitSets, TypeOK
<1> QED
  BY <1>1, MountAlways, PTL

(* A file created here leaves the tree only by unlink, rename or the end of *)
(* the process: populate_folder with merge_only, whatever listing it gets,  *)
(* only adds to a folder, and gives no entry the inode of another           *)
THEOREM MadeFilesStay == Spec => MadeStays
<1>1. MountInv /\ [Next]_vars => [MadeKept]_vars
  BY MountStep
<1> QED
  BY <1>1, MountAlways, PTL DEF Spec, MadeStays, MadeKept

-----------------------------------------------------------------------------
(* MountFolders: the parts of the invariant, while nothing was rushed        *)

(* The table and the index say the same, and no id has two inodes           *)
Places(i, p) == Live(i) /\ i # RootIno /\ inode[i].parent = p
TableFits ==
    /\ IsFolder(RootIno) /\ inode[RootIno].of = Root
    /\ \A i, j \in Inos : Live(i) /\ Live(j) /\ inode[i].of = inode[j].of => i = j
    /\ \A i \in Inos : Live(i) => inode[i].of \notin removed
    /\ \A i \in Inos : Live(i) /\ i # RootIno => /\ index[<<inode[i].parent, inode[i].name>>] = i
                                                  /\ inode[i].parent < nextIno
    /\ \A p \in Inos, n \in Names : index[<<p, n>>] # NoIno =>
         Places(index[<<p, n>>], p) /\ inode[index[<<p, n>>]].name = n
    /\ \A p \in Inos : IsFolder(p) => /\ inode[p].listed
                                      /\ inode[p].children = {i \in Inos : Places(i, p)}

(* Where an entry is: in the table, or where a refresh may still put it     *)
Shows(p, c) == \E i \in Inos : Places(i, p) /\ inode[i].name = c.name /\ inode[i].of = c.of
HeldAt(d, c) == \E p \in Inos : IsFolder(p) /\ inode[p].of = d /\ Shows(p, c)
Changed(d) == \E t \in threads : t.of = d /\ t.child = None
Told(d, c) ==
    \/ ~Changed(d) /\ c \in record[d].children
    \/ \E m \in fetched : m.of = d /\ m.ino \notin mutated /\ c \in m.children
Claimed(d, c) == HeldAt(d, c) \/ Told(d, c)
ClaimsFit ==
    /\ \A d, e \in FolderIds, b, c \in Entry :
         Claimed(d, b) /\ Claimed(e, c) /\ b.of = c.of => d = e /\ b = c
    /\ \A d \in FolderIds, c \in Entry : Claimed(d, c) => c.of \notin removed /\ c.of # Root

NamesDiffer(listing) == \A b, c \in listing : b.name = c.name => b = c
ListingsFit ==
    /\ \A d \in FolderIds : NamesDiffer(record[d].children)
    /\ \A t \in threads : NamesDiffer(t.children)
    /\ \A m \in fetched : NamesDiffer(m.children)

(* An inode made for a folder that was gone is all there is of its entry    *)
Orphan(i) == Live(i) /\ i # RootIno /\ ~IsFolder(inode[i].parent)
OrphansFit ==
    \A i \in Inos : Orphan(i) => \A d \in FolderIds, c \in Entry :
        Told(d, c) /\ c.of = inode[i].of =>
            /\ c.name = inode[i].name /\ d \in removed
            /\ \A r \in asked \cup fetched : r.of = d => r.ino = inode[i].parent

(* A refresh is for a folder of the table or for one that was deleted       *)
RefreshesFit ==
    /\ \A r \in asked \cup fetched : IF Live(r.ino) THEN IsFolder(r.ino) /\ r.of = inode[r.ino].of
                                     ELSE r.of \in removed
    /\ \A r, s \in asked \cup fetched : r.of = s.of => r.ino = s.ino
    /\ \A r \in asked : Changed(r.of) => r.ino \in mutated

(* A snapshot still under way shows what the table shows                    *)
ThreadsFit ==
    /\ queue \subseteq mutated
    /\ \A p \in Inos : IsFolder(p) /\ Changed(inode[p].of) => p \in mutated
    /\ \A t \in threads : /\ \A c \in t.children : HeldAt(t.of, c)
                          /\ t.of \in removed \/ \E p \in Inos : IsFolder(p) /\ inode[p].of = t.of

PhaseFits ==
    mount # Up => threads = {} /\ mutated = {} /\ queue = {} /\ open = {} /\ asked = {} /\ fetched = {}

DeletedFits == TableFits /\ ClaimsFit /\ ListingsFit /\ OrphansFit /\ RefreshesFit /\ ThreadsFit /\ PhaseFits

(* What this mount answers for: the vault it was given, and what it made    *)
Ours == (made \cup VaultIds) \ gone
Entered(i) == [name |-> inode[i].name, of |-> inode[i].of]

(* A folder that was fetched shows all that a refresh may still bring; of   *)
(* one that was not, all refreshes bring what the record has                *)
LoadedFits ==
    \A p \in Inos : IsFolder(p) =>
        IF inode[p].loaded THEN \A c \in Entry : Told(inode[p].of, c) /\ c.of \in Ours => Shows(p, c)
        ELSE /\ \A t \in threads : t.of # inode[p].of
             /\ \A m \in fetched : m.ino = p => \A c \in Entry : c.of \in Ours =>
                   (c \in m.children <=> c \in record[inode[p].of].children)

(* An entry is published, or in the snapshots under way, or its file is     *)
(* open, or its folder queued                                               *)
Unsaved(i) == i \in open \/ inode[i].parent \in queue \/ inode[i].of \notin Ours
SavedFits ==
    \A p, i \in Inos : IsFolder(p) /\ Places(i, p) /\ ~Unsaved(i) =>
        /\ \/ Entered(i) \in record[inode[p].of].children
           \/ \E t \in threads : t.of = inode[p].of /\ Entered(i) \in t.children
        /\ \A t \in threads : t.of = inode[p].of => Entered(i) \in t.children

(* A new folder's own record is still to come, and an id not given out has  *)
(* none                                                                     *)
ChildrenFit ==
    /\ VaultIds \subseteq used
    /\ \A d \in FolderIds \ used : record[d] = Unpublished /\ seqCache[d] = -1
    /\ \A t \in threads : t.stage = "child" =>
        /\ t.child \in used \cap FolderIds /\ record[t.child] = Unpublished /\ seqCache[t.child] = -1
        /\ \A u \in threads : u.of = t.child => u.stage # "locked"
        /\ \A u \in threads : u.stage = "child" /\ u.child = t.child => u = t

VaultFits == LoadedFits /\ SavedFits /\ ChildrenFit
TimelyFits == DeletedFits /\ VaultFits

-----------------------------------------------------------------------------
(* MountFolders: facts about claims                                         *)

LEMMA EntryIs == \A b, c \in Entry : /\ b.name \in Names /\ b.of \in Ids
                                     /\ b.name = c.name /\ b.of = c.of => b = c
BY DEF Entry

LEMMA InodeTypes ==
    ASSUME MountInv
    PROVE  /\ \A i \in Inos : /\ inode[i].name \in Names /\ inode[i].parent \in Inos
                              /\ inode[i].of \in Ids /\ inode[i].of \in used
                              /\ inode[i].children \subseteq Inos
                              /\ inode[i].listed \in BOOLEAN /\ inode[i].loaded \in BOOLEAN
                              /\ IsFolder(i) => Live(i) /\ inode[i].of \in FolderIds
                              /\ Live(i) => i < nextIno
                              /\ Entered(i) \in Entry
           /\ \A p \in Inos, n \in Names : index[<<p, n>>] \in Inos \cup {NoIno}
           /\ nextIno \in Nat /\ NoIno \notin Inos /\ RootIno \in Inos /\ Inos \subseteq Nat
<1>1. inode \in [Inos -> Inode] /\ \A i \in Inos : inode[i].of \in used
  BY DEF MountInv, FitTree, FitTable
<1>2. \A i \in Inos : IsFolder(i) => Live(i) /\ inode[i].of \in FolderIds
  BY DEF MountInv, FitTree, FitTable, IsFolder, Live
<1>3. index \in [Inos \X Names -> Inos \cup {NoIno}] /\ nextIno \in Nat
  BY DEF MountInv, FitTree, FitNumbers
<1>4. \A i \in Inos : Live(i) => i < nextIno
  BY <1>3, Numbers DEF MountInv, FitTree, FitNumbers, Live
<1> QED
  BY <1>1, <1>2, <1>3, <1>4, Numbers DEF Inode, Entered, Entry

LEMMA OtherTypes ==
    ASSUME MountInv
    PROVE  /\ \A d \in FolderIds : /\ record[d].children \subseteq Entry /\ record[d].seq \in Int
                                   /\ \A c \in record[d].children : c.of \in used
           /\ \A t \in threads : /\ t.of \in FolderIds /\ t.children \subseteq Entry
                                 /\ t.child \in FolderIds \cup {None} /\ t.seq \in Int
                                 /\ t.stage \in {"child", "wait", "locked"}
           /\ \A r \in asked : r.ino \in Inos /\ r.of \in FolderIds /\ r.ino < nextIno
           /\ \A m \in fetched : /\ m.ino \in Inos /\ m.of \in FolderIds /\ m.children \subseteq Entry
                                 /\ m.ino < nextIno /\ \A c \in m.children : c.of \in used
<1>1. \A c \in KnownEntry(used) : c.of \in used
  BY DEF KnownEntry
<1>2. \A d \in FolderIds : record[d].children \in Listing /\ record[d].seq \in Int
                           /\ record[d].children \subseteq KnownEntry(used)
  BY DEF MountInv, FitRecords, Record
<1>3. threads \subseteq Thread /\ asked \subseteq Refresh /\ fetched \subseteq Fetched
      /\ (\A r \in asked : r.ino < nextIno)
      /\ (\A m \in fetched : m.ino < nextIno /\ m.children \subseteq KnownEntry(used))
  BY DEF MountInv, FitThreads, FitFetched
<1>4. \A t \in Thread : /\ t.of \in FolderIds /\ t.children \subseteq Entry
                        /\ t.child \in FolderIds \cup {None} /\ t.seq \in Int
                        /\ t.stage \in {"child", "wait", "locked"}
  BY DEF Thread, Listing
<1>5. (\A r \in Refresh : r.ino \in Inos /\ r.of \in FolderIds)
      /\ (\A m \in Fetched : m.ino \in Inos /\ m.of \in FolderIds /\ m.children \subseteq Entry)
  BY DEF Refresh, Fetched, Listing
<1> QED
  BY <1>1, <1>2, <1>3, <1>4, <1>5 DEF Listing

(* Entries that are claimed were given out                                  *)
LEMMA ClaimsUsed ==
    ASSUME MountInv, NEW d \in FolderIds, NEW c \in Entry, Claimed(d, c)
    PROVE  c.of \in used
<1>1. CASE HeldAt(d, c)
  BY <1>1, InodeTypes DEF HeldAt, Shows
<1>2. CASE Told(d, c)
  BY <1>2, OtherTypes DEF Told
<1> QED
  BY <1>1, <1>2 DEF Claimed

(* The id of a folder names its inode                                       *)
LEMMA HeldIs ==
    ASSUME MountInv, TableFits, NEW p \in Inos, IsFolder(p), NEW c
    PROVE  HeldAt(inode[p].of, c) <=> Shows(p, c)
BY InodeTypes DEF HeldAt, TableFits

(* Two entries in one folder of one name are one                            *)
LEMMA ShownOnce ==
    ASSUME MountInv, TableFits, NEW p \in Inos, NEW i \in Inos, NEW j \in Inos,
           Places(i, p), Places(j, p), inode[i].name = inode[j].name
    PROVE  i = j
<1>1. /\ index[<<p, inode[i].name>>] = i /\ index[<<p, inode[j].name>>] = j
  BY DEF TableFits, Places
<1> QED
  BY <1>1

LEMMA OneFolder ==
    ASSUME MountInv, TableFits, NEW p \in Inos, NEW q \in Inos, IsFolder(p), IsFolder(q),
           inode[p].of = inode[q].of
    PROVE  p = q
BY InodeTypes DEF TableFits

-----------------------------------------------------------------------------
(* MountFolders: steps that do not touch the table, while nothing is rushed *)

LEMMA SameTable ==
    ASSUME UNCHANGED tree
    PROVE  /\ inode' = inode /\ nextIno' = nextIno
           /\ \A i \in Inos : /\ ((IsFolder(i))' <=> IsFolder(i)) /\ ((Live(i))' <=> Live(i))
                              /\ ((Orphan(i))' <=> Orphan(i)) /\ Entered(i)' = Entered(i)
           /\ \A i, p \in Inos : (Places(i, p))' <=> Places(i, p)
           /\ \A p, c : (Shows(p, c))' <=> Shows(p, c)
           /\ \A d, c : (HeldAt(d, c))' <=> HeldAt(d, c)
<1>1. inode' = inode /\ nextIno' = nextIno
  BY DEF tree
<1>2. \A i \in Inos : /\ ((IsFolder(i))' <=> IsFolder(i)) /\ ((Live(i))' <=> Live(i))
                      /\ ((Orphan(i))' <=> Orphan(i)) /\ Entered(i)' = Entered(i)
  BY <1>1 DEF IsFolder, Live, Orphan, Entered
<1>3. \A i, p \in Inos : (Places(i, p))' <=> Places(i, p)
  BY <1>1 DEF Live, Places
<1>4. \A p, c : (Shows(p, c))' <=> Shows(p, c)
  BY <1>1 DEF Live, Places, Shows
<1>5. \A d, c : (HeldAt(d, c))' <=> HeldAt(d, c)
  BY <1>1, <1>4 DEF IsFolder, HeldAt
<1> QED
  BY <1>1, <1>2, <1>3, <1>4, <1>5

LEMMA SettlesTable ==
    ASSUME TableFits, UNCHANGED tree, removed' = removed PROVE TableFits'
<1>1. inode' = inode /\ nextIno' = nextIno /\ index' = index
  BY DEF tree
<1> QED
  BY <1>1 DEF TableFits, IsFolder, Live, Places

LEMMA SettlesDeleted ==
    ASSUME MountInv, DeletedFits, UNCHANGED tree, removed' = removed,
           \A d \in FolderIds, c \in Entry : (Told(d, c))' => Claimed(d, c),
           \A r \in (asked \cup fetched)' :
              r.of \in removed => \E s \in asked \cup fetched : s.of = r.of /\ s.ino = r.ino,
           ListingsFit', RefreshesFit', ThreadsFit', PhaseFits'
    PROVE  DeletedFits'
<1>1. TableFits' /\ TableFits
  BY SettlesTable DEF DeletedFits
<1>2. \A d \in FolderIds, c \in Entry : (Claimed(d, c))' => Claimed(d, c)
  BY SameTable DEF Claimed
<1>3. ClaimsFit'
  <2>1. ClaimsFit
    BY DEF DeletedFits
  <2> QED
    BY <1>2, <2>1 DEF ClaimsFit
<1>4. OrphansFit'
  <2> SUFFICES ASSUME NEW i \in Inos, (Orphan(i))', NEW d \in FolderIds, NEW c \in Entry,
                      (Told(d, c))', c.of = inode'[i].of
               PROVE  /\ c.name = inode'[i].name /\ d \in removed'
                      /\ \A r \in (asked \cup fetched)' : r.of = d => r.ino = inode'[i].parent
    BY DEF OrphansFit
  <2>1. Orphan(i) /\ c.of = inode[i].of /\ inode' = inode
    BY SameTable
  <2>2. ~HeldAt(d, c)
    BY <1>1, <2>1, InodeTypes DEF HeldAt, Shows, Places, Orphan, TableFits
  <2>3. Told(d, c)
    BY <2>2 DEF Claimed
  <2>4. /\ c.name = inode[i].name /\ d \in removed
        /\ \A r \in asked \cup fetched : r.of = d => r.ino = inode[i].parent
    BY <2>1, <2>3 DEF DeletedFits, OrphansFit
  <2> QED
    BY <2>1, <2>4
<1> QED
  BY <1>1, <1>3, <1>4 DEF DeletedFits

LEMMA SettlesLoaded ==
    ASSUME MountInv, TimelyFits, UNCHANGED tree, Ours' \subseteq Ours,
           \A d \in FolderIds, c \in Entry : (Told(d, c))' => Claimed(d, c) \/ c.of \notin Ours',
           \A p \in Inos : IsFolder(p) /\ ~inode[p].loaded =>
              /\ \A t \in threads' : t.of # inode[p].of
              /\ \A m \in fetched' : m.ino = p => \A c \in Entry : c.of \in Ours' =>
                   (c \in m.children <=> c \in record'[inode[p].of].children)
    PROVE  LoadedFits'
<1> SUFFICES ASSUME NEW p \in Inos, (IsFolder(p))'
             PROVE  IF inode'[p].loaded
                    THEN \A c \in Entry : (Told(inode[p].of, c))' /\ c.of \in Ours' => (Shows(p, c))'
                    ELSE /\ \A t \in threads' : t.of # inode'[p].of
                         /\ \A m \in fetched' : m.ino = p => \A c \in Entry : c.of \in Ours' =>
                              (c \in m.children <=> c \in record'[inode'[p].of].children)
  BY SameTable DEF LoadedFits
<1>1. IsFolder(p) /\ inode' = inode /\ inode[p].of \in FolderIds
  BY SameTable, InodeTypes
<1>2. ASSUME inode[p].loaded, NEW c \in Entry, (Told(inode[p].of, c))', c.of \in Ours' PROVE (Shows(p, c))'
  <2>1. HeldAt(inode[p].of, c) \/ Told(inode[p].of, c)
    BY <1>1, <1>2 DEF Claimed
  <2>2. HeldAt(inode[p].of, c) => Shows(p, c)
    BY <1>1, HeldIs DEF TimelyFits, DeletedFits
  <2>3. Told(inode[p].of, c) => Shows(p, c)
    BY <1>1, <1>2 DEF TimelyFits, VaultFits, LoadedFits
  <2> QED
    BY <2>1, <2>2, <2>3, SameTable
<1> QED
  BY <1>1, <1>2

(* A snapshot shows what its folder shows                                   *)
LEMMA SnapshotShows ==
    ASSUME MountInv, TableFits, NEW p \in Inos, IsFolder(p)
    PROVE  /\ Snapshot(inode, p) \subseteq Entry /\ NamesDiffer(Snapshot(inode, p))
           /\ \A c \in Snapshot(inode, p) : Shows(p, c)
           /\ \A i \in Inos : Places(i, p) => Entered(i) \in Snapshot(inode, p)
<1>1. inode[p].children = {i \in Inos : Places(i, p)}
  BY DEF TableFits
<1>2. \A c \in Snapshot(inode, p) : \E i \in Inos : Places(i, p) /\ c = Entered(i)
  BY <1>1 DEF Snapshot, Entered
<1>3. \A i \in Inos : Places(i, p) => Entered(i) \in Snapshot(inode, p)
  BY <1>1 DEF Snapshot, Entered
<1>4. \A c \in Snapshot(inode, p) : c \in Entry /\ Shows(p, c)
  BY <1>2, InodeTypes DEF Shows, Entered
<1>5. NamesDiffer(Snapshot(inode, p))
  <2> SUFFICES ASSUME NEW b \in Snapshot(inode, p), NEW c \in Snapshot(inode, p), b.name = c.name
               PROVE  b = c
    BY DEF NamesDiffer
  <2>1. PICK i \in Inos : Places(i, p) /\ b = Entered(i)
    BY <1>2
  <2>2. PICK j \in Inos : Places(j, p) /\ c = Entered(j)
    BY <1>2
  <2>3. i = j
    BY <2>1, <2>2, ShownOnce DEF Entered
  <2> QED
    BY <2>1, <2>2, <2>3
<1> QED
  BY <1>3, <1>4, <1>5

(* The folders of S, each with no publish under way, are published as the   *)
(* table has them                                                           *)
Publishes(S) ==
    /\ threads' = threads \cup {Publishing(inode, p, None) : p \in S}
    /\ \A p \in S : IsFolder(p) /\ inode[p].loaded /\ p \in mutated' /\ \A t \in threads : t.of # inode[p].of

LEMMA NewThreads ==
    ASSUME MountInv, TableFits, NEW S \in SUBSET Inos, Publishes(S)
    PROVE  /\ \A t \in threads' : t \in threads \/ \E p \in S :
                /\ IsFolder(p) /\ inode[p].loaded /\ p \in mutated'
                /\ (\A u \in threads : u.of # inode[p].of)
                /\ t.of = inode[p].of /\ t.of \in FolderIds /\ t.child = None /\ t.stage = "wait"
                /\ t.children = Snapshot(inode, p)
           /\ \A p \in S : \E t \in threads' : t.of = inode[p].of /\ t.children = Snapshot(inode, p)
           /\ threads \subseteq threads'
<1>1. \A p \in Inos : LET t == Publishing(inode, p, None) IN
        /\ t.of = inode[p].of /\ t.child = None /\ t.stage = "wait"
        /\ t.children = Snapshot(inode, p)
  BY DEF Publishing
<1>2. \A p \in S : /\ IsFolder(p) /\ inode[p].loaded /\ p \in mutated' /\ p \in Inos /\ inode[p].of \in FolderIds
                   /\ \A t \in threads : t.of # inode[p].of
  BY InodeTypes DEF Publishes
<1>3. \A t \in threads' : t \in threads \/ \E p \in S : t = Publishing(inode, p, None)
  BY DEF Publishes
<1>4. \A p \in S : Publishing(inode, p, None) \in threads'
  BY DEF Publishes
<1>5. ASSUME NEW t \in threads', t \notin threads
      PROVE  \E p \in S :
                /\ IsFolder(p) /\ inode[p].loaded /\ p \in mutated'
                /\ (\A u \in threads : u.of # inode[p].of)
                /\ t.of = inode[p].of /\ t.of \in FolderIds /\ t.child = None /\ t.stage = "wait"
                /\ t.children = Snapshot(inode, p)
  <2>1. PICK p \in S : t = Publishing(inode, p, None)
    BY <1>3, <1>5
  <2> QED
    BY <1>1, <1>2, <2>1
<1> QED
  BY <1>1, <1>2, <1>4, <1>5 DEF Publishes

LEMMA PublishesKeeps ==
    ASSUME MountInv, TimelyFits, NEW S \in SUBSET Inos, Publishes(S),
           UNCHANGED <<tree, removed, record, fetched, gone, made, used, seqCache>>,
           mutated \subseteq mutated', queue' \subseteq mutated',
           \A q \in queue : q \in queue' \/ q \in S,
           \A i \in Inos : i \in open \ open' /\ Live(i) => inode[i].parent \in queue'
    PROVE  /\ \A d \in FolderIds, c \in Entry : (Told(d, c))' => Told(d, c)
           /\ \A d : (Changed(d))' => Changed(d) \/ \E p \in S : IsFolder(p) /\ inode[p].of = d
           /\ ListingsFit' /\ ThreadsFit' /\ VaultFits'
<1>0. TableFits /\ ListingsFit /\ ThreadsFit /\ VaultFits
  BY DEF TimelyFits, DeletedFits
<1>1. /\ \A t \in threads' : t \in threads \/ \E p \in S :
                /\ IsFolder(p) /\ inode[p].loaded /\ p \in mutated'
                /\ (\A u \in threads : u.of # inode[p].of)
                /\ t.of = inode[p].of /\ t.of \in FolderIds /\ t.child = None /\ t.stage = "wait"
                /\ t.children = Snapshot(inode, p)
      /\ \A p \in S : \E t \in threads' : t.of = inode[p].of /\ t.children = Snapshot(inode, p)
      /\ threads \subseteq threads'
  BY <1>0, NewThreads
<1>2. ASSUME NEW d PROVE (Changed(d) => (Changed(d))')
                         /\ ((Changed(d))' => Changed(d) \/ \E p \in S : IsFolder(p) /\ inode[p].of = d)
  BY <1>1 DEF Changed
<1>3. \A d \in FolderIds, c \in Entry : (Told(d, c))' => Told(d, c)
  BY <1>2 DEF Told
<1>4. ListingsFit'
  <2>1. \A t \in threads' : NamesDiffer(t.children)
    BY <1>0, <1>1, SnapshotShows DEF ListingsFit
  <2> QED
    BY <1>0, <2>1 DEF ListingsFit, NamesDiffer
<1>5. ThreadsFit'
  <2>1. ASSUME NEW p \in Inos, (IsFolder(p))', (Changed(inode[p].of))' PROVE p \in mutated'
    <3>1. IsFolder(p) /\ inode' = inode
      BY <2>1, SameTable
    <3>2. CASE Changed(inode[p].of)
      BY <1>0, <3>1, <3>2 DEF ThreadsFit
    <3>3. CASE ~Changed(inode[p].of)
      <4>1. PICK q \in S : IsFolder(q) /\ inode[q].of = inode[p].of
        BY <1>2, <2>1, <3>1, <3>3
      <4>2. q = p
        BY <1>0, <3>1, <4>1, InodeTypes DEF TableFits
      <4> QED
        BY <4>1, <4>2 DEF Publishes
    <3> QED
      BY <3>2, <3>3
  <2>2. ASSUME NEW t \in threads'
        PROVE  /\ \A c \in t.children : (HeldAt(t.of, c))'
               /\ t.of \in removed' \/ \E p \in Inos : (IsFolder(p))' /\ inode'[p].of = t.of
    <3>1. CASE t \in threads
      BY <1>0, <3>1, SameTable DEF ThreadsFit
    <3>2. CASE t \notin threads
      <4>1. PICK p \in S : IsFolder(p) /\ t.of = inode[p].of /\ t.children = Snapshot(inode, p)
        BY <1>1, <3>2
      <4>2. \A c \in t.children : HeldAt(t.of, c)
        BY <1>0, <4>1, SnapshotShows DEF HeldAt
      <4> QED
        BY <4>1, <4>2, SameTable
    <3> QED
      BY <3>1, <3>2
  <2> QED
    BY <2>1, <2>2 DEF ThreadsFit
<1>6. LoadedFits'
  <2>1. ASSUME NEW p \in Inos, IsFolder(p), ~inode[p].loaded
        PROVE  /\ \A t \in threads' : t.of # inode[p].of
               /\ \A m \in fetched' : m.ino = p => \A c \in Entry : c.of \in Ours' =>
                   (c \in m.children <=> c \in record'[inode[p].of].children)
    <3>1. \A t \in threads : t.of # inode[p].of
      BY <1>0, <2>1 DEF VaultFits, LoadedFits
    <3>2. \A q \in S : inode[q].of # inode[p].of
      BY <1>0, <2>1, InodeTypes DEF TableFits, Publishes
    <3>3. \A t \in threads' : t.of # inode[p].of
      BY <1>1, <3>1, <3>2
    <3> QED
      BY <1>0, <2>1, <3>3 DEF VaultFits, LoadedFits, Ours
  <2>2. Ours' = Ours
    BY DEF Ours
  <2>3. \A d \in FolderIds, c \in Entry : (Told(d, c))' => Claimed(d, c)
    BY <1>3 DEF Claimed
  <2> QED
    BY <2>1, <2>2, <2>3, SettlesLoaded
<1>7. SavedFits'
  <2> SUFFICES ASSUME NEW p \in Inos, NEW i \in Inos, (IsFolder(p))', (Places(i, p))', ~(Unsaved(i))'
               PROVE  /\ \/ Entered(i)' \in record'[inode'[p].of].children
                         \/ \E t \in threads' : t.of = inode'[p].of /\ Entered(i)' \in t.children
                      /\ \A t \in threads' : t.of = inode'[p].of => Entered(i)' \in t.children
    BY DEF SavedFits
  <2>1. IsFolder(p) /\ Places(i, p) /\ inode' = inode /\ Entered(i)' = Entered(i) /\ record' = record /\ Ours' = Ours
        /\ Live(i) /\ inode[i].parent = p
    BY SameTable DEF Ours, Places
  <2>2. i \notin open' /\ p \notin queue' /\ inode[i].of \in Ours
    BY <2>1 DEF Unsaved
  <2>3. i \notin open /\ (p \in queue => p \in S)
    BY <2>1, <2>2
  <2>4. CASE p \in S
    <3>1. \A t \in threads' : t.of = inode[p].of => t.children = Snapshot(inode, p)
      <4> SUFFICES ASSUME NEW t \in threads', t.of = inode[p].of PROVE t.children = Snapshot(inode, p)
        OBVIOUS
      <4>1. t \notin threads
        BY <2>4 DEF Publishes
      <4>2. PICK q \in S : IsFolder(q) /\ t.of = inode[q].of /\ t.children = Snapshot(inode, q)
        BY <1>1, <4>1
      <4>3. q = p
        BY <1>0, <2>1, <4>2, OneFolder
      <4> QED
        BY <4>2, <4>3
    <3>2. Entered(i) \in Snapshot(inode, p)
      BY <1>0, <2>1, SnapshotShows
    <3> QED
      BY <1>1, <2>1, <2>4, <3>1, <3>2
  <2>5. CASE p \notin S
    <3>1. ~Unsaved(i)
      BY <2>1, <2>2, <2>3, <2>5 DEF Unsaved
    <3>2. \A t \in threads' : t.of = inode[p].of => t \in threads
      <4> SUFFICES ASSUME NEW t \in threads', t.of = inode[p].of, t \notin threads PROVE FALSE
        OBVIOUS
      <4>1. PICK q \in S : IsFolder(q) /\ t.of = inode[q].of
        BY <1>1
      <4>2. q = p
        BY <1>0, <2>1, <4>1, OneFolder
      <4> QED
        BY <2>5, <4>2
    <3>3. /\ \/ Entered(i) \in record[inode[p].of].children
             \/ \E t \in threads : t.of = inode[p].of /\ Entered(i) \in t.children
          /\ \A t \in threads : t.of = inode[p].of => Entered(i) \in t.children
      BY <1>0, <2>1, <3>1 DEF VaultFits, SavedFits
    <3> QED
      BY <1>1, <2>1, <3>2, <3>3
  <2> QED
    BY <2>4, <2>5
<1>8. ChildrenFit'
  <2> SUFFICES ASSUME NEW t \in threads', t.stage = "child"
               PROVE  /\ t.child \in used \cap FolderIds /\ record[t.child] = Unpublished /\ seqCache[t.child] = -1
                      /\ \A u \in threads' : u.of = t.child => u.stage # "locked"
                      /\ \A u \in threads' : u.stage = "child" /\ u.child = t.child => u = t
    BY <1>0 DEF VaultFits, ChildrenFit
  <2>1. t \in threads /\ \A u \in threads' : u \in threads \/ u.stage = "wait"
    BY <1>1
  <2> QED
    BY <1>0, <2>1 DEF VaultFits, ChildrenFit
<1> QED
  BY <1>2, <1>3, <1>4, <1>5, <1>6, <1>7, <1>8 DEF VaultFits

LEMMA RefreshIno ==
    ASSUME MountInv, TableFits, RefreshesFit, NEW r \in asked \cup fetched, NEW p \in Inos, IsFolder(p),
           r.of = inode[p].of
    PROVE  r.ino = p
<1>1. r.ino \in Inos
  BY OtherTypes
<1>2. inode[p].of \notin removed
  BY InodeTypes DEF TableFits
<1>3. IsFolder(r.ino) /\ inode[r.ino].of = inode[p].of
  BY <1>2 DEF RefreshesFit
<1> QED
  BY <1>1, <1>3, OneFolder

LEMMA FlushPublishes ==
    ASSUME MountInv, TimelyFits, NEW more \in SUBSET Inos, FlushQueue(more), ~rushed',
           mutated \subseteq mutated'
    PROVE  \E S \in SUBSET Inos : Publishes(S) /\ queue' = (queue \ S) \cup more
<1>1. PICK due \in SUBSET queue :
        LET buildable == {p \in due : IsFolder(p)} IN
        /\ StartPublishes(inode, buildable)
        /\ queue' = (queue \ due) \cup more
        /\ rushed' = (rushed \/ Crowded(buildable) \/ due # buildable)
  BY DEF FlushQueue
<1>2. due = {p \in due : IsFolder(p)} /\ ~Crowded(due)
  BY <1>1
<1>3. StartPublishes(inode, due)
  BY <1>1, <1>2
<1>4. queue \subseteq mutated /\ queue \subseteq Inos
  BY DEF TimelyFits, DeletedFits, ThreadsFit, MountInv, FitSets
<1>5. Publishes(due)
  BY <1>2, <1>3, <1>4 DEF Publishes, StartPublishes, Crowded
<1> QED
  BY <1>1, <1>4, <1>5

(* Lookup, getattr and release                                              *)
LEMMA FlushTimely ==
    ASSUME MountInv, TimelyFits, Serving, ~rushed', NEW more \in SUBSET Inos, FlushQueue(more),
           UNCHANGED <<tree, mount, record, fetched, gone, made, removed, used, seqCache>>,
           mutated' = mutated \cup more,
           \A i \in Inos : i \in open \ open' /\ Live(i) => inode[i].parent \in more,
           \/ asked' = asked
           \/ \E p \in Inos : IsFolder(p) /\ asked' = asked \cup {[ino |-> p, of |-> inode[p].of]}
    PROVE  TimelyFits'
<1>0. TableFits /\ RefreshesFit /\ ThreadsFit
  BY DEF TimelyFits, DeletedFits
<1>1. PICK S \in SUBSET Inos : Publishes(S) /\ queue' = (queue \ S) \cup more
  BY FlushPublishes
<1>2. queue' \subseteq mutated' /\ (\A q \in queue : q \in queue' \/ q \in S)
      /\ \A i \in Inos : i \in open \ open' /\ Live(i) => inode[i].parent \in queue'
  BY <1>0, <1>1 DEF ThreadsFit
<1>3. /\ \A d \in FolderIds, c \in Entry : (Told(d, c))' => Told(d, c)
      /\ \A d : (Changed(d))' => Changed(d) \/ \E p \in S : IsFolder(p) /\ inode[p].of = d
      /\ ListingsFit' /\ ThreadsFit' /\ VaultFits'
  BY <1>1, <1>2, PublishesKeeps
<1>4. inode' = inode /\ \A i \in Inos : ((IsFolder(i))' <=> IsFolder(i)) /\ ((Live(i))' <=> Live(i))
  BY SameTable
<1>5. ASSUME NEW r \in asked' PROVE r \in asked \/ \E p \in Inos : IsFolder(p) /\ r.ino = p /\ r.of = inode[p].of
  OBVIOUS
<1>6. ASSUME NEW r \in (asked \cup fetched)'
      PROVE  r \in asked \cup fetched \/ (r \in asked' /\ r.ino \in Inos /\ IsFolder(r.ino) /\ r.of = inode[r.ino].of)
  BY <1>5
<1>7. RefreshesFit'
  <2>1. ASSUME NEW r \in (asked \cup fetched)'
        PROVE  IF (Live(r.ino))' THEN (IsFolder(r.ino))' /\ r.of = inode'[r.ino].of ELSE r.of \in removed'
    <3>1. CASE r \in asked \cup fetched
      <4>1. r.ino \in Inos
        BY <3>1, OtherTypes
      <4> QED
        BY <1>0, <1>4, <3>1, <4>1 DEF RefreshesFit
    <3>2. CASE r.ino \in Inos /\ IsFolder(r.ino) /\ r.of = inode[r.ino].of
      BY <1>4, <3>2, InodeTypes
    <3> QED
      BY <1>6, <3>1, <3>2
  <2>2. ASSUME NEW r \in (asked \cup fetched)', NEW s \in (asked \cup fetched)', r.of = s.of PROVE r.ino = s.ino
    <3>1. CASE r \in asked \cup fetched /\ s \in asked \cup fetched
      BY <1>0, <2>2, <3>1 DEF RefreshesFit
    <3>2. CASE r \in asked \cup fetched /\ s.ino \in Inos /\ IsFolder(s.ino) /\ s.of = inode[s.ino].of
      BY <1>0, <2>2, <3>2, RefreshIno
    <3>3. CASE s \in asked \cup fetched /\ r.ino \in Inos /\ IsFolder(r.ino) /\ r.of = inode[r.ino].of
      BY <1>0, <2>2, <3>3, RefreshIno
    <3>4. CASE /\ s.ino \in Inos /\ IsFolder(s.ino) /\ s.of = inode[s.ino].of
               /\ r.ino \in Inos /\ IsFolder(r.ino) /\ r.of = inode[r.ino].of
      BY <1>0, <2>2, <3>4, OneFolder
    <3> QED
      BY <1>6, <3>1, <3>2, <3>3, <3>4
  <2>3. ASSUME NEW r \in asked', (Changed(r.of))' PROVE r.ino \in mutated'
    <3>1. CASE r \in asked
      <4>1. CASE Changed(r.of)
        BY <1>0, <3>1, <4>1 DEF RefreshesFit
      <4>2. CASE ~Changed(r.of)
        <5>1. PICK p \in S : IsFolder(p) /\ inode[p].of = r.of
          BY <1>3, <2>3, <4>2
        <5>2. r.ino = p
          BY <1>0, <3>1, <5>1, RefreshIno
        <5> QED
          BY <1>1, <5>1, <5>2 DEF Publishes
      <4> QED
        BY <4>1, <4>2
    <3>2. CASE r.ino \in Inos /\ IsFolder(r.ino) /\ r.of = inode[r.ino].of
      BY <1>3, <1>4, <2>3, <3>2 DEF ThreadsFit
    <3> QED
      BY <1>5, <3>1, <3>2
  <2> QED
    BY <2>1, <2>2, <2>3 DEF RefreshesFit
<1>8. ASSUME NEW r \in (asked \cup fetched)', r.of \in removed
      PROVE  \E s \in asked \cup fetched : s.of = r.of /\ s.ino = r.ino
  BY <1>0, <1>6, <1>8, InodeTypes DEF TableFits
<1>9. PhaseFits'
  BY DEF PhaseFits, Serving
<1>10. DeletedFits'
  <2>1. \A d \in FolderIds, c \in Entry : (Told(d, c))' => Claimed(d, c)
    BY <1>3 DEF Claimed
  <2>2. DeletedFits /\ removed' = removed /\ UNCHANGED tree
    BY DEF TimelyFits
  <2> QED
    BY <1>3, <1>7, <1>8, <1>9, <2>1, <2>2, SettlesDeleted
<1> QED
  BY <1>3, <1>10 DEF TimelyFits

(* A readdir, the answer to a refresh or its failure, and an open: nothing  *)
(* is published                                                             *)
LEMMA RefreshTimely ==
    ASSUME MountInv, TimelyFits, ~rushed',
           UNCHANGED <<tree, mount, record, threads, gone, made, removed, used, seqCache, queue, mutated>>,
           open \subseteq open', mount = Up,
           \A r \in asked' : r \in asked \/ \E p \in Inos : IsFolder(p) /\ r.ino = p /\ r.of = inode[p].of,
           \A m \in fetched' : m \in fetched \/
              \E r \in asked : m.ino = r.ino /\ m.of = r.of /\ m.children = record[r.of].children
    PROVE  TimelyFits'
<1>0. TableFits /\ RefreshesFit /\ ThreadsFit /\ ListingsFit /\ VaultFits
  BY DEF TimelyFits, DeletedFits
<1>1. inode' = inode /\ \A i \in Inos : ((IsFolder(i))' <=> IsFolder(i)) /\ ((Live(i))' <=> Live(i))
  BY SameTable
<1>2. \A d : (Changed(d))' <=> Changed(d)
  BY DEF Changed
<1>3. ASSUME NEW r \in (asked \cup fetched)'
      PROVE  \/ \E s \in asked \cup fetched : s.ino = r.ino /\ s.of = r.of
             \/ r \in asked' /\ r.ino \in Inos /\ IsFolder(r.ino) /\ r.of = inode[r.ino].of
  OBVIOUS
<1>4. \A d \in FolderIds, c \in Entry : (Told(d, c))' => Told(d, c)
  <2> SUFFICES ASSUME NEW d \in FolderIds, NEW c \in Entry, NEW m \in fetched', m.of = d, m.ino \notin mutated,
                      c \in m.children
               PROVE  Told(d, c)
    BY <1>2 DEF Told
  <2>1. CASE m \in fetched
    BY <2>1 DEF Told
  <2>2. CASE \E r \in asked : m.ino = r.ino /\ m.of = r.of /\ m.children = record[r.of].children
    BY <1>0, <2>2 DEF Told, RefreshesFit
  <2> QED
    BY <2>1, <2>2
<1>5. RefreshesFit'
  <2>1. ASSUME NEW r \in (asked \cup fetched)'
        PROVE  IF (Live(r.ino))' THEN (IsFolder(r.ino))' /\ r.of = inode'[r.ino].of ELSE r.of \in removed'
    <3>1. CASE \E s \in asked \cup fetched : s.ino = r.ino /\ s.of = r.of
      <4>1. PICK s \in asked \cup fetched : s.ino = r.ino /\ s.of = r.of
        BY <3>1
      <4>2. s.ino \in Inos
        BY OtherTypes
      <4> QED
        BY <1>0, <1>1, <4>1, <4>2 DEF RefreshesFit
    <3>2. CASE r.ino \in Inos /\ IsFolder(r.ino) /\ r.of = inode[r.ino].of
      BY <1>1, <3>2, InodeTypes
    <3> QED
      BY <1>3, <3>1, <3>2
  <2>2. ASSUME NEW r \in (asked \cup fetched)', NEW s \in (asked \cup fetched)', r.of = s.of PROVE r.ino = s.ino
    <3>1. CASE /\ \E u \in asked \cup fetched : u.ino = r.ino /\ u.of = r.of
               /\ \E u \in asked \cup fetched : u.ino = s.ino /\ u.of = s.of
      BY <1>0, <2>2, <3>1 DEF RefreshesFit
    <3>2. CASE /\ \E u \in asked \cup fetched : u.ino = r.ino /\ u.of = r.of
               /\ s.ino \in Inos /\ IsFolder(s.ino) /\ s.of = inode[s.ino].of
      <4>1. PICK u \in asked \cup fetched : u.ino = r.ino /\ u.of = r.of
        BY <3>2
      <4> QED
        BY <1>0, <2>2, <3>2, <4>1, RefreshIno
    <3>3. CASE /\ \E u \in asked \cup fetched : u.ino = s.ino /\ u.of = s.of
               /\ r.ino \in Inos /\ IsFolder(r.ino) /\ r.of = inode[r.ino].of
      <4>1. PICK u \in asked \cup fetched : u.ino = s.ino /\ u.of = s.of
        BY <3>3
      <4> QED
        BY <1>0, <2>2, <3>3, <4>1, RefreshIno
    <3>4. CASE /\ s.ino \in Inos /\ IsFolder(s.ino) /\ s.of = inode[s.ino].of
               /\ r.ino \in Inos /\ IsFolder(r.ino) /\ r.of = inode[r.ino].of
      BY <1>0, <2>2, <3>4, OneFolder
    <3> QED
      BY <1>3, <3>1, <3>2, <3>3, <3>4
  <2>3. ASSUME NEW r \in asked', (Changed(r.of))' PROVE r.ino \in mutated'
    BY <1>0, <1>2, <2>3 DEF RefreshesFit, ThreadsFit
  <2> QED
    BY <2>1, <2>2, <2>3 DEF RefreshesFit
<1>6. ASSUME NEW r \in (asked \cup fetched)', r.of \in removed
      PROVE  \E s \in asked \cup fetched : s.of = r.of /\ s.ino = r.ino
  BY <1>0, <1>3, <1>6, InodeTypes DEF TableFits
<1>7. ListingsFit'
  <2>1. ASSUME NEW m \in fetched' PROVE NamesDiffer(m.children)
    <3>1. CASE m \in fetched
      BY <1>0, <3>1 DEF ListingsFit
    <3>2. CASE \E r \in asked : m.ino = r.ino /\ m.of = r.of /\ m.children = record[r.of].children
      BY <1>0, <3>2, OtherTypes DEF ListingsFit
    <3> QED
      BY <3>1, <3>2
  <2> QED
    BY <1>0, <2>1 DEF ListingsFit, NamesDiffer
<1>8. ThreadsFit'
  BY <1>0, <1>1, <1>2, SameTable DEF ThreadsFit
<1>9. PhaseFits'
  BY DEF PhaseFits
<1>10. Ours' = Ours /\ \A d \in FolderIds, c \in Entry : (Told(d, c))' => Claimed(d, c)
  BY <1>4 DEF Ours, Claimed
<1>11. DeletedFits'
  <2>1. DeletedFits /\ removed' = removed /\ UNCHANGED tree
    BY DEF TimelyFits
  <2> QED
    BY <1>5, <1>6, <1>7, <1>8, <1>9, <1>10, <2>1, SettlesDeleted
<1>12. LoadedFits'
  <2>1. ASSUME NEW p \in Inos, IsFolder(p), ~inode[p].loaded
        PROVE  /\ \A t \in threads' : t.of # inode[p].of
               /\ \A m \in fetched' : m.ino = p => \A c \in Entry : c.of \in Ours' =>
                   (c \in m.children <=> c \in record'[inode[p].of].children)
    <3>1. \A t \in threads' : t.of # inode[p].of
      BY <1>0, <2>1 DEF VaultFits, LoadedFits
    <3>2. ASSUME NEW m \in fetched', m.ino = p, NEW c \in Entry, c.of \in Ours'
          PROVE  c \in m.children <=> c \in record[inode[p].of].children
      <4>1. CASE m \in fetched
        BY <1>0, <1>10, <2>1, <3>2, <4>1 DEF VaultFits, LoadedFits
      <4>2. CASE \E r \in asked : m.ino = r.ino /\ m.of = r.of /\ m.children = record[r.of].children
        BY <1>0, <2>1, <3>2, <4>2, InodeTypes DEF RefreshesFit
      <4> QED
        BY <4>1, <4>2
    <3> QED
      BY <3>1, <3>2
  <2> QED
    BY <1>10, <2>1, SettlesLoaded
<1>13. SavedFits'
  <2> SUFFICES ASSUME NEW p \in Inos, NEW i \in Inos, (IsFolder(p))', (Places(i, p))', ~(Unsaved(i))'
               PROVE  /\ \/ Entered(i)' \in record'[inode'[p].of].children
                         \/ \E t \in threads' : t.of = inode'[p].of /\ Entered(i)' \in t.children
                      /\ \A t \in threads' : t.of = inode'[p].of => Entered(i)' \in t.children
    BY DEF SavedFits
  <2>1. IsFolder(p) /\ Places(i, p) /\ Entered(i)' = Entered(i)
    BY SameTable
  <2>2. ~Unsaved(i)
    BY <1>1, <1>10 DEF Unsaved
  <2> QED
    BY <1>0, <1>1, <2>1, <2>2 DEF VaultFits, SavedFits
<1>14. ChildrenFit'
  BY <1>0 DEF VaultFits, ChildrenFit
<1> QED
  BY <1>11, <1>12, <1>13, <1>14 DEF TimelyFits, VaultFits

LEMMA CooldownTimely ==
    ASSUME MountInv, TimelyFits, ~rushed', NEW i \in Inos, CooldownEnds(i)
    PROVE  TimelyFits'
<1>0. TableFits /\ RefreshesFit /\ ThreadsFit /\ ListingsFit /\ VaultFits /\ PhaseFits
  BY DEF TimelyFits, DeletedFits
<1>1. /\ mutated' = mutated \ {i} /\ i \notin queue /\ (\A t \in threads : t.of # inode[i].of)
      /\ (\A r \in asked : r.ino # i) /\ (\A m \in fetched : m.ino # i)
      /\ UNCHANGED <<tree, record, threads, seqCache, mount, queue, open, asked, fetched, used,
                     made, removed, gone>>
  BY DEF CooldownEnds, network
<1>2. \A d : (Changed(d))' <=> Changed(d)
  BY <1>1 DEF Changed
<1>3. Ours' = Ours /\ \A d \in FolderIds, c \in Entry : (Told(d, c))' => Claimed(d, c)
  BY <1>1, <1>2 DEF Told, Claimed, Ours
<1>4. inode' = inode /\ \A j \in Inos : ((IsFolder(j))' <=> IsFolder(j)) /\ ((Live(j))' <=> Live(j))
  BY <1>1, SameTable
<1>5. RefreshesFit'
  <2>1. \A r \in asked \cup fetched : r.ino \in Inos
    BY OtherTypes
  <2>2. \A r \in asked \cup fetched : IF (Live(r.ino))' THEN (IsFolder(r.ino))' /\ r.of = inode'[r.ino].of
                                      ELSE r.of \in removed'
    BY <1>0, <1>1, <1>4, <2>1 DEF RefreshesFit
  <2> QED
    BY <1>0, <1>1, <1>2, <2>2 DEF RefreshesFit
<1>6. ListingsFit'
  BY <1>0, <1>1 DEF ListingsFit, NamesDiffer
<1>7. ThreadsFit'
  <2>1. \A p \in Inos : (IsFolder(p))' /\ (Changed(inode[p].of))' => p \in mutated'
    <3> SUFFICES ASSUME NEW p \in Inos, IsFolder(p), Changed(inode[p].of) PROVE p \in mutated'
      BY <1>1, <1>2, <1>4
    <3>1. p \in mutated /\ p # i
      BY <1>0, <1>1 DEF ThreadsFit, Changed
    <3> QED
      BY <1>1, <3>1
  <2>2. \A t \in threads' : /\ \A c \in t.children : (HeldAt(t.of, c))'
                            /\ t.of \in removed' \/ \E p \in Inos : (IsFolder(p))' /\ inode'[p].of = t.of
    BY <1>0, <1>1, <1>4, SameTable DEF ThreadsFit
  <2>3. queue' \subseteq mutated'
    BY <1>0, <1>1 DEF ThreadsFit
  <2> QED
    BY <2>1, <2>2, <2>3, <1>4 DEF ThreadsFit
<1>8. PhaseFits'
  BY <1>0, <1>1 DEF PhaseFits
<1>9. DeletedFits'
  BY <1>1, <1>3, <1>5, <1>6, <1>7, <1>8, SettlesDeleted DEF TimelyFits
<1>10. LoadedFits'
  <2>1. \A p \in Inos : IsFolder(p) /\ ~inode[p].loaded =>
              /\ \A t \in threads' : t.of # inode[p].of
              /\ \A m \in fetched' : m.ino = p => \A c \in Entry : c.of \in Ours' =>
                   (c \in m.children <=> c \in record'[inode[p].of].children)
    BY <1>0, <1>1, <1>3 DEF VaultFits, LoadedFits
  <2> QED
    BY <1>1, <1>3, <2>1, SettlesLoaded
<1>11. SavedFits'
  <2>1. \A j \in Inos : (Unsaved(j))' <=> Unsaved(j)
    BY <1>1, <1>3, <1>4 DEF Unsaved
  <2> QED
    BY <1>0, <1>1, <1>4, <2>1, SameTable DEF VaultFits, SavedFits
<1>12. ChildrenFit'
  BY <1>0, <1>1 DEF VaultFits, ChildrenFit
<1> QED
  BY <1>9, <1>10, <1>11, <1>12 DEF TimelyFits, VaultFits

-----------------------------------------------------------------------------
(* MountFolders: a listing is merged, while nothing is rushed               *)

LEMMA PopulatedIs ==
    ASSUME MountInv, NEW p \in Inos, NEW c \in Entry, NEW i \in Inos, Live(i) => inode[i].of = c.of
    PROVE  LET new == Populated(p, c, i) IN
           /\ new.name = c.name /\ new.parent = p /\ new.of = c.of
           /\ new.kind = IF c.of \in FolderIds THEN "folder" ELSE "file"
           /\ new.kind = "folder" => new.children = inode[i].children /\ new.loaded = (IsFolder(i) /\ inode[i].loaded)
                                     /\ new.listed = (Live(i) => inode[i].listed)
           /\ Live(i) => new.kind = inode[i].kind
<1>1. IsFile(i) => Live(i)
  BY DEF IsFile, Live
<1>2. c.of \in FolderIds => Populated(p, c, i) = FolderPopulated(p, c, i)
  BY DEF Populated
<1>3. c.of \notin FolderIds => Populated(p, c, i) = FilePopulated(p, c, i)
  BY DEF Populated
<1>4. LET new == FolderPopulated(p, c, i) IN
        /\ new.name = c.name /\ new.parent = p /\ new.of = c.of /\ new.kind = "folder"
        /\ new.children = inode[i].children /\ new.loaded = (IsFolder(i) /\ inode[i].loaded)
        /\ new.listed = (Live(i) => inode[i].listed)
  BY DEF FolderPopulated
<1>5. LET new == FilePopulated(p, c, i) IN
        new.name = c.name /\ new.parent = p /\ new.of = c.of /\ new.kind = "file"
  BY <1>1 DEF FilePopulated
<1>6. Live(i) => inode[i].kind = IF inode[i].of \in FolderIds THEN "folder" ELSE "file"
  BY MountAssumption DEF MountInv, FitTree, FitTable, Inode, Live
<1> QED
  BY <1>2, <1>3, <1>4, <1>5, <1>6

(* The entries of the listing that are not in the table get inodes there,   *)
(* and nothing else changes                                                 *)
Grown(p, listing) ==
    /\ \A i \in Inos : Live(i) =>
         /\ (Live(i))' /\ ((IsFolder(i))' <=> IsFolder(i))
         /\ inode'[i].parent = inode[i].parent /\ Entered(i)' = Entered(i) /\ inode'[i].of = inode[i].of
         /\ inode'[i].name = inode[i].name
         /\ IsFolder(i) => (inode'[i].loaded <=> inode[i].loaded \/ i = p)
    /\ \A i \in Inos : (Live(i))' /\ ~Live(i) =>
         /\ i # RootIno /\ inode'[i].parent = p /\ Entered(i)' \in listing /\ i >= nextIno
         /\ (IsFolder(i))' => ~inode'[i].loaded
         /\ \A j \in Inos : Live(j) => inode[j].of # inode'[i].of
    /\ \A c \in listing : \E i \in Inos : (Places(i, p))' /\ Entered(i)' = c
    /\ TableFits'

LEMMA PopulateGrows ==
    ASSUME MountInv, TableFits, removed' = removed, NEW p \in Inos, p < nextIno, IsFolder(p) \/ ~Live(p),
           NEW listing \in SUBSET KnownEntry(used), NamesDiffer(listing), Agrees(p, listing), Populate(p, listing),
           \A c \in listing : /\ c.of \notin removed /\ c.of # Root
                              /\ index[<<p, c.name>>] = NoIno => \A j \in Inos : Live(j) => inode[j].of # c.of,
           \A b, c \in listing : b.of = c.of => b = c
    PROVE  Grown(p, listing)
<1>1. PICK place \in Placements(index, p, listing) :
        LET placed == {place[c] : c \in listing}
            at(i) == CHOOSE c \in listing : place[c] = i
            filled == [i \in Inos |->
                         IF i \in placed THEN Populated(p, at(i), i)
                         ELSE IF i = p /\ Live(p)
                           THEN [inode[p] EXCEPT !.children = Merged(p, placed),
                                                 !.listed = TRUE, !.loaded = IsFolder(p)]
                         ELSE inode[i]]
            pointers == {i \in Inos : /\ filled[i].kind = "file" /\ ~filled[i].resolved
                                      /\ filled[i].parent = p /\ IsFolder(p)}
        IN  \E found \in SUBSET pointers :
              /\ inode' = [i \in Inos |-> IF i \in found
                             THEN [filled[i] EXCEPT !.resolved = TRUE] ELSE filled[i]]
              /\ index' = [key \in Inos \X Names |->
                             IF key[1] = p /\ \E c \in listing : c.name = key[2]
                               THEN place[CHOOSE c \in listing : c.name = key[2]]
                               ELSE index[key]]
              /\ nextIno' = nextIno + Cardinality({i \in placed : i >= nextIno})
  BY DEF Populate
<1> DEFINE placed == {place[c] : c \in listing}
           at(i) == CHOOSE c \in listing : place[c] = i
           more == Cardinality({i \in placed : i >= nextIno})
           host == [inode[p] EXCEPT !.children = Merged(p, placed),
                                    !.listed = TRUE, !.loaded = IsFolder(p)]
           filled == [i \in Inos |-> IF i \in placed THEN Populated(p, at(i), i)
                                     ELSE IF i = p /\ Live(p) THEN host ELSE inode[i]]
<1>2. PICK found \in SUBSET Inos :
        /\ inode' = [i \in Inos |-> IF i \in found THEN [filled[i] EXCEPT !.resolved = TRUE] ELSE filled[i]]
        /\ index' = [key \in Inos \X Names |->
                             IF key[1] = p /\ \E c \in listing : c.name = key[2]
                               THEN place[CHOOSE c \in listing : c.name = key[2]]
                               ELSE index[key]]
        /\ nextIno' = nextIno + more
  BY <1>1
<1>0. \A c \in listing : c.name \in Names /\ c.of \in used /\ c \in Entry
  BY KnownListings DEF KnownEntry, MountInv, FitSets
<1>t. FitTree /\ FitNumbers /\ used \subseteq Ids
  BY DEF MountInv, FitTree, FitSets
<1>3. /\ \A c \in listing :
                   /\ place[c] \in Inos
                   /\ index[<<p, c.name>>] # NoIno =>
                        place[c] = index[<<p, c.name>>] /\ place[c] < nextIno
                   /\ index[<<p, c.name>>] = NoIno => place[c] >= nextIno
      /\ \A c, d \in listing : index[<<p, c.name>>] = NoIno /\ index[<<p, d.name>>] = NoIno /\ place[c] = place[d] => c = d
      /\ more \in Nat
  <2>0. \A c \in listing : c.name \in Names
    BY <1>0
  <2>1. FitNumbers
    BY <1>t
  <2> HIDE DEF at, host, filled
  <2> QED
    BY <2>0, <2>1, PlacesFit, SMTT(40)
<1> HIDE DEF more
<1>4. \A i \in placed : at(i) \in listing /\ place[at(i)] = i /\ i \in Inos
  BY <1>3
<1>5. inode \in [Inos -> Inode] /\ inode[p] \in Inode
  BY <1>t DEF FitTree, FitTable
<1>6. FitTable(inode', used) /\ FitNumbers' /\ nextIno <= nextIno'
  BY <1>t, PopulateFits
<1>7. ASSUME NEW c \in listing, index[<<p, c.name>>] # NoIno
      PROVE  Places(place[c], p) /\ Entered(place[c]) = c
  <2>1. Places(place[c], p) /\ inode[place[c]].name = c.name
    BY <1>0, <1>3, <1>7 DEF TableFits
  <2>2. inode[place[c]].of = c.of
    BY <1>3, <1>7 DEF Agrees
  <2>3. Entered(place[c]) = [name |-> inode[place[c]].name, of |-> inode[place[c]].of]
    BY DEF Entered
  <2>4. c = [name |-> c.name, of |-> c.of]
    BY <1>0 DEF Entry
  <2> QED
    BY <2>1, <2>2, <2>3, <2>4
<1>8. ASSUME NEW c \in listing, index[<<p, c.name>>] = NoIno
      PROVE  ~Live(place[c]) /\ place[c] >= nextIno /\ place[c] \in Inos
  BY <1>3, <1>8, <1>t DEF FitNumbers, Live
<1>9. ASSUME NEW c \in listing, NEW d \in listing, place[c] = place[d] PROVE c = d
  <2>1. CASE index[<<p, c.name>>] = NoIno /\ index[<<p, d.name>>] = NoIno
    BY <1>3, <1>9, <2>1
  <2>2. CASE index[<<p, c.name>>] # NoIno /\ index[<<p, d.name>>] # NoIno
    BY <1>7, <1>9, <2>2
  <2>3. CASE index[<<p, c.name>>] = NoIno /\ index[<<p, d.name>>] # NoIno
    BY <1>7, <1>8, <1>9, <2>3 DEF Places
  <2>4. CASE index[<<p, c.name>>] # NoIno /\ index[<<p, d.name>>] = NoIno
    BY <1>7, <1>8, <1>9, <2>4 DEF Places
  <2> QED
    BY <2>1, <2>2, <2>3, <2>4
<1>10. ASSUME NEW c \in listing PROVE at(place[c]) = c /\ place[c] \in placed
  BY <1>4, <1>9
<1>11. p \notin placed
  <2>1. ASSUME NEW c \in listing, place[c] = p PROVE FALSE
    <3>1. CASE index[<<p, c.name>>] = NoIno
      BY <1>3, <2>1, <3>1, <1>t, Numbers DEF FitNumbers
    <3>2. CASE index[<<p, c.name>>] # NoIno
      BY <1>0, <1>3, <2>1, <3>2, <1>t DEF FitNumbers
    <3> QED
      BY <3>1, <3>2
  <2> QED
    BY <2>1
<1>12. \A c \in listing : filled[place[c]] = Populated(p, c, place[c])
  BY <1>3, <1>10
<1>13. \A i \in Inos : i \notin placed /\ ~(i = p /\ Live(p)) => filled[i] = inode[i]
  OBVIOUS
<1>14. Live(p) => filled[p] = host
  BY <1>11
<1>15. ASSUME NEW i \in Inos
       PROVE  /\ inode'[i].of = filled[i].of /\ inode'[i].kind = filled[i].kind /\ inode'[i].name = filled[i].name
              /\ inode'[i].parent = filled[i].parent
              /\ inode'[i].listed = filled[i].listed /\ inode'[i].loaded = filled[i].loaded
              /\ inode'[i].children = filled[i].children
  <2>1. inode'[i] = IF i \in found THEN [filled[i] EXCEPT !.resolved = TRUE] ELSE filled[i]
    BY <1>2
  <2>2. filled[i] \in Inode
    <3>1. CASE i \in placed
      <4>1. PICK c \in listing : place[c] = i
        BY <3>1
      <4>2. Populated(p, c, i) \in Inode
        BY <1>0, <1>t, PopulatedFits
      <4> QED
        BY <1>12, <4>1, <4>2
    <3>2. CASE i \notin placed /\ i = p /\ Live(p)
      <4>1. Merged(p, placed) \subseteq Inos
        BY <1>4, <1>5 DEF Merged, Inode
      <4>2. IsFolder(p) \in BOOLEAN
        BY DEF IsFolder
      <4> HIDE DEF placed
      <4>3. host \in Inode
        BY <1>5, <4>1, <4>2 DEF Inode
      <4> HIDE DEF host
      <4> QED
        BY <1>14, <3>2, <4>3
    <3>3. CASE i \notin placed /\ ~(i = p /\ Live(p))
      BY <1>5, <1>13, <3>3
    <3> QED
      BY <3>1, <3>2, <3>3
  <2> HIDE DEF filled
  <2> QED
    BY <2>1, <2>2 DEF Inode
<1>16. Live(p) => /\ host.of = inode[p].of /\ host.kind = inode[p].kind /\ host.name = inode[p].name
                  /\ host.parent = inode[p].parent /\ host.listed /\ (host.loaded <=> IsFolder(p))
                  /\ host.children = inode[p].children \cup placed
  BY <1>5 DEF Inode, Merged, IsFolder
<1> HIDE DEF filled, host, at
<1>17. ASSUME NEW c \in listing
       PROVE  LET i == place[c] IN
              /\ i \in Inos /\ i # RootIno /\ i # p
              /\ Live(i) <=> index[<<p, c.name>>] # NoIno
              /\ Live(i) => Entered(i) = c /\ Places(i, p)
              /\ inode'[i].name = c.name /\ inode'[i].parent = p /\ inode'[i].of = c.of
              /\ (Live(i))' /\ (IsFolder(i) => (IsFolder(i))') /\ (Live(i) /\ (IsFolder(i))' => IsFolder(i))
              /\ (IsFolder(i))' => /\ inode'[i].children = inode[i].children
                                   /\ inode'[i].loaded = (IsFolder(i) /\ inode[i].loaded)
                                   /\ inode'[i].listed = (Live(i) => inode[i].listed)
  <2>1. place[c] \in Inos /\ place[c] # p
    BY <1>3, <1>11
  <2>2. Live(place[c]) <=> index[<<p, c.name>>] # NoIno
    BY <1>7, <1>8 DEF Places
  <2>3. Live(place[c]) => Entered(place[c]) = c /\ Places(place[c], p) /\ inode[place[c]].of = c.of
    BY <1>7, <2>2 DEF Entered
  <2>4. place[c] # RootIno
    BY <2>3, <1>8, <2>2, <1>t, Numbers DEF Places, FitNumbers
  <2>5. LET new == Populated(p, c, place[c]) IN
           /\ new.name = c.name /\ new.parent = p /\ new.of = c.of
           /\ new.kind = IF c.of \in FolderIds THEN "folder" ELSE "file"
           /\ new.kind = "folder" => new.children = inode[place[c]].children
                 /\ new.loaded = (IsFolder(place[c]) /\ inode[place[c]].loaded)
                 /\ new.listed = (Live(place[c]) => inode[place[c]].listed)
           /\ Live(place[c]) => new.kind = inode[place[c]].kind
    BY <1>0, <2>1, <2>3, PopulatedIs
  <2>6. LET i == place[c]  new == Populated(p, c, place[c]) IN
        /\ inode'[i].of = new.of /\ inode'[i].kind = new.kind /\ inode'[i].name = new.name
        /\ inode'[i].parent = new.parent /\ inode'[i].listed = new.listed /\ inode'[i].loaded = new.loaded
        /\ inode'[i].children = new.children
    BY <1>12, <1>15, <2>1
  <2> DEFINE new == Populated(p, c, place[c])
             i == place[c]
  <2> HIDE DEF new
  <2>7. IsFolder(i) => Live(i)
    BY DEF IsFolder, Live
  <2> QED
    BY <2>1, <2>2, <2>3, <2>4, <2>5, <2>6, <2>7 DEF new, IsFolder, Live
<1>18. ASSUME NEW i \in Inos, i \notin placed
       PROVE  /\ inode'[i].of = inode[i].of /\ inode'[i].kind = inode[i].kind /\ inode'[i].name = inode[i].name
              /\ inode'[i].parent = inode[i].parent
              /\ i # p \/ ~Live(p) => /\ inode'[i].listed = inode[i].listed /\ inode'[i].loaded = inode[i].loaded
                                      /\ inode'[i].children = inode[i].children
              /\ i = p /\ Live(p) => /\ inode'[i].listed /\ (inode'[i].loaded <=> IsFolder(p))
                                     /\ inode'[i].children = inode[p].children \cup placed
  BY <1>13, <1>14, <1>15, <1>16, <1>18
<1>19. \A i \in placed : \E c \in listing : i = place[c]
  OBVIOUS
<1> HIDE DEF placed
<1>20. \A i \in Inos : i \in placed => \E c \in listing : i = place[c]
  BY <1>19
<1>21. ASSUME NEW i \in Inos, Live(i)
       PROVE  /\ (Live(i))' /\ ((IsFolder(i))' <=> IsFolder(i))
              /\ inode'[i].parent = inode[i].parent /\ Entered(i)' = Entered(i) /\ inode'[i].of = inode[i].of
              /\ inode'[i].name = inode[i].name
              /\ IsFolder(i) => (inode'[i].loaded <=> inode[i].loaded \/ i = p)
  <2>0. inode[i].loaded \in BOOLEAN
    BY InodeTypes
  <2>1. CASE i \notin placed
    BY <1>18, <1>21, <2>0, <2>1 DEF IsFolder, Live, Entered
  <2>2. CASE i \in placed
    <3>1. PICK c \in listing : i = place[c]
      BY <1>20, <2>2
    <3>2. /\ i # p /\ Entered(i) = c /\ Places(i, p) /\ inode'[i].name = c.name /\ inode'[i].parent = p
          /\ inode'[i].of = c.of /\ (Live(i))' /\ ((IsFolder(i))' <=> IsFolder(i))
          /\ (IsFolder(i))' => inode'[i].loaded = (IsFolder(i) /\ inode[i].loaded)
      BY <1>17, <1>21, <3>1
    <3>3. inode[i].of = c.of /\ inode[i].name = c.name
      BY <3>2 DEF Entered
    <3> QED
      BY <2>0, <3>2, <3>3 DEF Entered, Places
  <2> QED
    BY <2>1, <2>2
<1>22. ASSUME NEW i \in Inos, (Live(i))', ~Live(i)
       PROVE  /\ i # RootIno /\ inode'[i].parent = p /\ Entered(i)' \in listing /\ i >= nextIno
              /\ (IsFolder(i))' => ~inode'[i].loaded
              /\ \A j \in Inos : Live(j) => inode[j].of # inode'[i].of
              /\ \E c \in listing : i = place[c] /\ index[<<p, c.name>>] = NoIno
  <2>1. i \in placed
    BY <1>18, <1>22 DEF Live
  <2>2. PICK c \in listing : i = place[c]
    BY <1>20, <2>1
  <2>3. index[<<p, c.name>>] = NoIno
    BY <1>17, <1>22, <2>2
  <2>4. Entered(i)' = c
    <3>1. Entered(i)' = [name |-> inode'[i].name, of |-> inode'[i].of]
      BY DEF Entered
    <3>2. c = [name |-> c.name, of |-> c.of]
      BY <1>0 DEF Entry
    <3> QED
      BY <1>17, <2>2, <3>1, <3>2
  <2>5. (IsFolder(i))' => ~inode'[i].loaded
    <3>1. ~IsFolder(i)
      BY <1>22 DEF IsFolder, Live
    <3> QED
      BY <1>17, <2>2, <3>1
  <2>6. inode'[i].of = c.of /\ i # RootIno /\ inode'[i].parent = p
    BY <1>17, <2>2
  <2>7. \A j \in Inos : Live(j) => inode[j].of # c.of
    BY <2>3
  <2>8. i >= nextIno
    BY <1>8, <2>2, <2>3
  <2> QED
    BY <2>2, <2>3, <2>4, <2>5, <2>6, <2>7, <2>8
<1>23. ASSUME NEW c \in listing PROVE (Places(place[c], p))' /\ Entered(place[c])' = c
  <2>1. Entered(place[c])' = [name |-> inode'[place[c]].name, of |-> inode'[place[c]].of]
    BY DEF Entered
  <2>2. c = [name |-> c.name, of |-> c.of]
    BY <1>0 DEF Entry
  <2> QED
    BY <1>17, <2>1, <2>2 DEF Places
<1>24. ASSUME NEW i \in Inos, NEW q \in Inos
       PROVE  (Places(i, q))' <=> Places(i, q) \/ (q = p /\ i \in placed)
  <2>1. CASE Live(i)
    <3>1. i \in placed => Places(i, p)
      <4> SUFFICES ASSUME i \in placed PROVE Places(i, p)
        OBVIOUS
      <4>1. PICK c \in listing : i = place[c]
        BY <1>20
      <4> QED
        BY <1>17, <2>1, <4>1
    <3> QED
      BY <1>21, <2>1, <3>1 DEF Places
  <2>2. CASE ~Live(i)
    <3>1. (Live(i))' => i \in placed
      BY <1>18, <2>2 DEF Live
    <3>2. i \in placed => (Places(i, p))'
      BY <1>20, <1>23
    <3> QED
      BY <2>2, <3>1, <3>2 DEF Places
  <2> QED
    BY <2>1, <2>2
<1>25. \A key \in Inos \X Names : key[1] # p \/ (\A c \in listing : c.name # key[2]) => index'[key] = index[key]
  BY <1>2
<1>26. ASSUME NEW c \in listing PROVE index'[<<p, c.name>>] = place[c]
  <2>1. <<p, c.name>> \in Inos \X Names
    BY <1>0
  <2>2. (CHOOSE d \in listing : d.name = c.name) = c
    BY DEF NamesDiffer
  <2> QED
    BY <1>2, <2>1, <2>2
<1>27. TableFits'
  <2>1. (IsFolder(RootIno))' /\ inode'[RootIno].of = Root
    BY <1>21, InodeTypes DEF TableFits
  <2>2. ASSUME NEW i \in Inos, NEW j \in Inos, (Live(i))', (Live(j))', inode'[i].of = inode'[j].of
        PROVE  i = j
    <3>1. CASE Live(i) /\ Live(j)
      BY <1>21, <2>2, <3>1 DEF TableFits
    <3>2. CASE Live(i) /\ ~Live(j)
      BY <1>21, <1>22, <2>2, <3>2
    <3>3. CASE ~Live(i) /\ Live(j)
      BY <1>21, <1>22, <2>2, <3>3
    <3>4. CASE ~Live(i) /\ ~Live(j)
      <4>1. PICK c \in listing : i = place[c]
        BY <1>22, <2>2, <3>4
      <4>2. PICK d \in listing : j = place[d]
        BY <1>22, <2>2, <3>4
      <4>3. inode'[i].of = c.of /\ inode'[j].of = d.of
        BY <1>17, <4>1, <4>2
      <4>4. c = d
        BY <2>2, <4>3
      <4> QED
        BY <4>1, <4>2, <4>4
    <3> QED
      BY <3>1, <3>2, <3>3, <3>4
  <2>3. ASSUME NEW i \in Inos, (Live(i))' PROVE inode'[i].of \notin removed'
    <3>1. CASE Live(i)
      BY <1>21, <3>1 DEF TableFits
    <3>2. CASE ~Live(i)
      <4>1. PICK c \in listing : i = place[c]
        BY <1>22, <2>3, <3>2
      <4>2. inode'[i].of = c.of
        BY <1>17, <4>1
      <4> QED
        BY <4>2
    <3> QED
      BY <3>1, <3>2
  <2>4. ASSUME NEW i \in Inos, (Live(i))', i # RootIno
        PROVE  index'[<<inode'[i].parent, inode'[i].name>>] = i /\ inode'[i].parent < nextIno'
    <3>0. nextIno \in Nat /\ nextIno' \in Nat /\ nextIno <= nextIno'
      BY <1>6, <1>t, Numbers DEF FitNumbers
    <3>1. CASE i \in placed
      <4>1. PICK c \in listing : i = place[c]
        BY <1>20, <3>1
      <4>2. inode'[i].name = c.name /\ inode'[i].parent = p
        BY <1>17, <4>1
      <4>3. index'[<<p, c.name>>] = i
        BY <1>26, <4>1
      <4>4. p < nextIno'
        BY <3>0, Numbers
      <4> QED
        BY <4>2, <4>3, <4>4
    <3>2. CASE i \notin placed
      <4>1. Live(i)
        BY <1>18, <2>4, <3>2 DEF Live
      <4>2. index[<<inode[i].parent, inode[i].name>>] = i /\ inode[i].parent < nextIno
        BY <2>4, <4>1 DEF TableFits
      <4>3. inode[i].name \in Names /\ inode[i].parent \in Inos
        BY InodeTypes
      <4>4. inode'[i].parent = inode[i].parent /\ inode'[i].name = inode[i].name
        BY <1>18, <3>2
      <4>5. ~\E c \in listing : inode[i].parent = p /\ c.name = inode[i].name
        <5> SUFFICES ASSUME NEW c \in listing, inode[i].parent = p, c.name = inode[i].name PROVE FALSE
          OBVIOUS
        <5>1. index[<<p, c.name>>] = i
          BY <4>2
        <5>2. place[c] = i
          BY <1>3, <5>1, Numbers
        <5> QED
          BY <1>10, <3>2, <5>2
      <4>6. index'[<<inode[i].parent, inode[i].name>>] = index[<<inode[i].parent, inode[i].name>>]
        BY <1>25, <4>3, <4>5
      <4> QED
        BY <3>0, <4>2, <4>3, <4>4, <4>6, Numbers
    <3> QED
      BY <3>1, <3>2
  <2>5. ASSUME NEW q \in Inos, NEW n \in Names, index'[<<q, n>>] # NoIno
        PROVE  (Places(index[<<q, n>>], q))' /\ inode'[index'[<<q, n>>]].name = n
    <3>1. CASE q = p /\ \E c \in listing : c.name = n
      <4>1. PICK c \in listing : c.name = n
        BY <3>1
      <4>2. index'[<<q, n>>] = place[c] /\ place[c] \in Inos
        BY <1>26, <3>1, <4>1, <1>17
      <4>3. (Places(place[c], p))' /\ inode'[place[c]].name = n
        BY <1>17, <1>23, <4>1
      <4>4. (Live(place[c]))' /\ place[c] # RootIno /\ inode'[place[c]].parent = p
        BY <4>3, <1>17
      <4> QED
        BY <3>1, <4>2, <4>3, <4>4 DEF Places, Live
    <3>2. CASE ~(q = p /\ \E c \in listing : c.name = n)
      <4>1. index'[<<q, n>>] = index[<<q, n>>]
        BY <1>25, <3>2
      <4>2. PICK i \in Inos : i = index[<<q, n>>] /\ Places(i, q) /\ inode[i].name = n
        BY <2>5, <4>1, InodeTypes DEF TableFits
      <4>3. Live(i) /\ i # RootIno /\ inode[i].parent = q
        BY <4>2 DEF Places
      <4>4. (Live(i))' /\ inode'[i].parent = q /\ inode'[i].name = n
        BY <1>21, <4>2, <4>3
      <4> QED
        BY <4>1, <4>2, <4>3, <4>4 DEF Places, Live
    <3> QED
      BY <3>1, <3>2
  <2>6. ASSUME NEW q \in Inos, (IsFolder(q))'
        PROVE  inode'[q].listed /\ inode'[q].children = {i \in Inos : (Places(i, q))'}
    <3>0. (Live(q))' /\ (Live(q) => IsFolder(q))
      BY <1>21, <2>6 DEF IsFolder, Live
    <3>1. CASE q = p
      <4>1. IsFolder(p) /\ Live(p) /\ inode'[p].listed /\ inode'[p].children = inode[p].children \cup placed
        BY <1>11, <1>18, <2>6, <3>1 DEF IsFolder, Live
      <4>2. inode[p].children = {i \in Inos : Places(i, p)}
        BY <4>1 DEF TableFits
      <4>3. placed \subseteq Inos
        BY <1>4
      <4> QED
        BY <1>24, <3>1, <4>1, <4>2, <4>3
    <3>2. CASE q # p /\ Live(q)
      <4>1. IsFolder(q) /\ inode[q].listed /\ inode[q].children = {i \in Inos : Places(i, q)}
        BY <3>0, <3>2 DEF TableFits
      <4>2. inode'[q].listed = inode[q].listed /\ inode'[q].children = inode[q].children
        <5>1. CASE q \notin placed
          BY <1>18, <3>2, <5>1
        <5>2. CASE q \in placed
          <6>1. PICK c \in listing : q = place[c]
            BY <1>20, <5>2
          <6>2. Live(q) => IsFolder(q) /\ inode[q].listed
            BY <3>2, <4>1
          <6> QED
            BY <1>17, <2>6, <3>2, <6>1, <6>2
        <5> QED
          BY <5>1, <5>2
      <4> QED
        BY <1>24, <3>2, <4>1, <4>2
    <3>3. CASE q # p /\ ~Live(q)
      <4>1. PICK c \in listing : q = place[c]
        BY <1>22, <3>0, <3>3
      <4>2. inode'[q].listed /\ inode'[q].children = inode[q].children
        BY <1>17, <2>6, <3>3, <4>1
      <4>3. inode[q].children = {}
        BY <3>3, <1>t DEF FitTree, FitTable, Live
      <4>4. \A i \in Inos : ~Places(i, q)
        <5>1. q >= nextIno /\ q \in Nat /\ nextIno \in Nat
          BY <1>22, <3>0, <3>3, <1>t, Numbers DEF FitNumbers
        <5>2. \A i \in Inos : Live(i) /\ i # RootIno => inode[i].parent < nextIno
          BY DEF TableFits
        <5> QED
          BY <5>1, <5>2 DEF Places
      <4> QED
        BY <1>24, <3>3, <4>2, <4>3, <4>4
    <3> QED
      BY <3>1, <3>2, <3>3
  <2> QED
    BY <2>1, <2>2, <2>3, <2>4, <2>5, <2>6 DEF TableFits
<1> QED
  BY <1>17, <1>21, <1>22, <1>23, <1>27 DEF Grown

(* The folder d of inode p, or what is left of it when it was deleted       *)
Stands(p, d) == \/ IsFolder(p) /\ d = inode[p].of
                \/ ~Live(p) /\ d \in removed /\ \A r \in asked \cup fetched : r.of = d => r.ino = p

LEMMA GrowsHere ==
    ASSUME MountInv, TimelyFits, removed' = removed, NEW p \in Inos, p < nextIno, NEW d \in FolderIds, Stands(p, d),
           NEW listing \in SUBSET KnownEntry(used), NamesDiffer(listing), Agrees(p, listing), Populate(p, listing),
           \A c \in listing : Told(d, c),
           IsFolder(p) \/ \E m \in fetched : m.of = d
    PROVE  Grown(p, listing)
<1>0. TableFits /\ ClaimsFit /\ OrphansFit
  BY DEF TimelyFits, DeletedFits
<1>1. listing \subseteq Entry
  BY KnownListings DEF MountInv, FitSets
<1>2. ASSUME NEW c \in listing PROVE c.of \notin removed /\ c.of # Root
  BY <1>0, <1>1 DEF ClaimsFit, Claimed
<1>3. ASSUME NEW b \in listing, NEW c \in listing, b.of = c.of PROVE b = c
  BY <1>0, <1>1, <1>3 DEF ClaimsFit, Claimed
<1>4. ASSUME NEW c \in listing, index[<<p, c.name>>] = NoIno, NEW j \in Inos, Live(j), inode[j].of = c.of PROVE FALSE
  <2>1. j # RootIno
    BY <1>0, <1>2, <1>4 DEF TableFits
  <2>2. index[<<inode[j].parent, inode[j].name>>] = j /\ inode[j].parent \in Inos
    BY <1>0, <1>4, <2>1, InodeTypes DEF TableFits
  <2>3. CASE IsFolder(inode[j].parent)
    <3> DEFINE q == inode[j].parent
    <3>1. q \in Inos /\ IsFolder(q) /\ inode[q].of \in FolderIds /\ Entered(j) \in Entry
          /\ Entered(j).of = c.of /\ Entered(j).name = inode[j].name
      BY <1>4, <2>3, InodeTypes DEF Entered
    <3>2. HeldAt(inode[q].of, Entered(j))
      BY <1>4, <2>1, <3>1 DEF HeldAt, Shows, Places
    <3>3. inode[q].of = d /\ Entered(j) = c
      BY <1>0, <1>1, <3>1, <3>2 DEF ClaimsFit, Claimed
    <3>4. inode[q].of \notin removed
      BY <1>0, <3>1, InodeTypes DEF TableFits
    <3>5. q = p
      BY <1>0, <3>1, <3>3, <3>4, OneFolder DEF Stands
    <3> QED
      BY <1>4, <2>2, <3>1, <3>3, <3>5, Numbers
  <2>4. CASE ~IsFolder(inode[j].parent)
    <3>1. c.name = inode[j].name /\ d \in removed /\ \A r \in asked \cup fetched : r.of = d => r.ino = inode[j].parent
      BY <1>0, <1>1, <1>4, <2>1, <2>4 DEF OrphansFit, Orphan
    <3>2. ~IsFolder(p)
      BY <1>0, <3>1, InodeTypes DEF Stands, TableFits
    <3>3. inode[j].parent = p
      BY <3>1, <3>2 DEF Stands
    <3> QED
      BY <1>4, <2>2, <3>1, <3>3, Numbers
  <2> QED
    BY <2>3, <2>4
<1>5. IsFolder(p) \/ ~Live(p)
  BY DEF Stands
<1>6. \A c \in listing : /\ c.of \notin removed /\ c.of # Root
                         /\ index[<<p, c.name>>] = NoIno => \A j \in Inos : Live(j) => inode[j].of # c.of
  BY <1>2, <1>4
<1> QED
  BY <1>0, <1>3, <1>5, <1>6, PopulateGrows

LEMMA GrowsTimely ==
    ASSUME MountInv, TimelyFits, NEW p \in Inos, p < nextIno, NEW d \in FolderIds, Stands(p, d),
           NEW listing \in SUBSET Entry, \A c \in listing : Told(d, c), Grown(p, listing), nextIno \in Nat,
           IsFolder(p) /\ ~inode[p].loaded =>
              \A c \in Entry : c.of \in Ours => (c \in listing <=> c \in record[d].children),
           UNCHANGED <<record, threads, seqCache, queue, mutated, open, asked, used, made, removed, gone>>,
           fetched' \subseteq fetched, mount' = mount \/ mount # Up
    PROVE  TimelyFits'
<1>0. TableFits /\ ClaimsFit /\ OrphansFit /\ RefreshesFit /\ ThreadsFit /\ ListingsFit /\ PhaseFits /\ VaultFits
  BY DEF TimelyFits, DeletedFits
<1>1. /\ \A i \in Inos : Live(i) =>
         /\ (Live(i))' /\ ((IsFolder(i))' <=> IsFolder(i))
         /\ inode'[i].parent = inode[i].parent /\ Entered(i)' = Entered(i) /\ inode'[i].of = inode[i].of
         /\ inode'[i].name = inode[i].name
         /\ IsFolder(i) => (inode'[i].loaded <=> inode[i].loaded \/ i = p)
      /\ \A i \in Inos : (Live(i))' /\ ~Live(i) =>
         /\ i # RootIno /\ inode'[i].parent = p /\ Entered(i)' \in listing /\ i >= nextIno
         /\ (IsFolder(i))' => ~inode'[i].loaded
         /\ \A j \in Inos : Live(j) => inode[j].of # inode'[i].of
      /\ \A c \in listing : \E i \in Inos : (Places(i, p))' /\ Entered(i)' = c
      /\ TableFits'
  BY DEF Grown
<1>2. \A i \in Inos : (IsFolder(i) => Live(i)) /\ ((IsFolder(i))' => (Live(i))')
  BY DEF IsFolder, Live
<1>3. \A i \in Inos : Entered(i)' = [name |-> inode'[i].name, of |-> inode'[i].of]
  BY DEF Entered
<1>4. \A c \in Entry : c = [name |-> c.name, of |-> c.of]
  BY DEF Entry
<1>5. \A i, q \in Inos : Places(i, q) => q < nextIno /\ (Places(i, q))' /\ Live(i)
  <2>1. \A i \in Inos : Live(i) /\ i # RootIno => inode[i].parent < nextIno
    BY <1>0 DEF TableFits
  <2> QED
    BY <1>1, <2>1 DEF Places
<1>6. \A i, q \in Inos : (Places(i, q))' => Places(i, q) \/ (q = p /\ ~Live(i) /\ (Live(i))')
  BY <1>1 DEF Places
<1>7. ASSUME NEW q \in Inos, NEW c \in Entry
      PROVE  /\ Shows(q, c) => (Shows(q, c))'
             /\ (Shows(q, c))' => Shows(q, c) \/ (q = p /\ c \in listing)
             /\ c \in listing => (Shows(p, c))'
  <2>1. Shows(q, c) => (Shows(q, c))'
    BY <1>1, <1>5 DEF Shows
  <2>2. (Shows(q, c))' => Shows(q, c) \/ (q = p /\ c \in listing)
    <3> SUFFICES ASSUME NEW i \in Inos, (Places(i, q))', inode'[i].name = c.name, inode'[i].of = c.of
                 PROVE  Shows(q, c) \/ (q = p /\ c \in listing)
      BY DEF Shows
    <3>1. CASE Places(i, q)
      BY <1>1, <1>5, <3>1 DEF Shows
    <3>2. CASE q = p /\ ~Live(i) /\ (Live(i))'
      BY <1>1, <1>3, <1>4, <3>2
    <3> QED
      BY <1>6, <3>1, <3>2
  <2>3. c \in listing => (Shows(p, c))'
    <3> SUFFICES ASSUME c \in listing PROVE (Shows(p, c))'
      OBVIOUS
    <3>1. PICK i \in Inos : (Places(i, p))' /\ Entered(i)' = c
      BY <1>1
    <3>2. inode'[i].name = c.name /\ inode'[i].of = c.of
      BY <1>3, <3>1
    <3> QED
      BY <3>1, <3>2 DEF Shows
  <2> QED
    BY <2>1, <2>2, <2>3
(* A folder just made had no entries, no publishes and no refreshes         *)
<1>8. ASSUME NEW i \in Inos, (IsFolder(i))', ~Live(i)
      PROVE  /\ i >= nextIno /\ i # p /\ ~inode'[i].loaded
             /\ \A t \in threads : t.of # inode'[i].of
             /\ \A c \in Entry : ~(Shows(i, c))'
  <2>1. i >= nextIno /\ ~inode'[i].loaded /\ Entered(i)' \in listing /\ \A j \in Inos : Live(j) => inode[j].of # inode'[i].of
    BY <1>1, <1>2, <1>8
  <2>2. i # p
    BY <2>1, Numbers
  <2>3. inode'[i].of \notin removed
    BY <1>1, <1>2, <1>8 DEF TableFits
  <2>4. \A t \in threads : t.of # inode'[i].of
    BY <1>0, <1>2, <2>1, <2>3 DEF ThreadsFit
  <2>5. \A c \in Entry : ~Shows(i, c)
    BY <1>5, <2>1, Numbers DEF Shows
  <2> QED
    BY <1>7, <2>1, <2>2, <2>4, <2>5
<1>9. ASSUME NEW e \in FolderIds, NEW c \in Entry
      PROVE  /\ HeldAt(e, c) => (HeldAt(e, c))'
             /\ (HeldAt(e, c))' => HeldAt(e, c) \/ (e = d /\ c \in listing)
  <2>1. HeldAt(e, c) => (HeldAt(e, c))'
    BY <1>1, <1>2, <1>7 DEF HeldAt
  <2>2. (HeldAt(e, c))' => HeldAt(e, c) \/ (e = d /\ c \in listing)
    <3> SUFFICES ASSUME NEW q \in Inos, (IsFolder(q))', inode'[q].of = e, (Shows(q, c))'
                 PROVE  HeldAt(e, c) \/ (e = d /\ c \in listing)
      BY DEF HeldAt
    <3>1. Live(q)
      BY <1>8
    <3>2. IsFolder(q) /\ inode[q].of = e
      BY <1>1, <3>1
    <3>3. Shows(q, c) \/ (q = p /\ c \in listing)
      BY <1>7
    <3> QED
      BY <3>2, <3>3, <1>2 DEF HeldAt, Stands
  <2> QED
    BY <2>1, <2>2
<1>10. \A e : (Changed(e))' <=> Changed(e)
  BY DEF Changed
<1>11. ASSUME NEW e \in FolderIds, NEW c \in Entry
       PROVE  ((Told(e, c))' => Told(e, c)) /\ ((Claimed(e, c))' => Claimed(e, c))
  <2>1. (Told(e, c))' => Told(e, c)
    BY <1>10 DEF Told
  <2> QED
    BY <1>9, <2>1 DEF Claimed
<1>12. ClaimsFit' /\ ListingsFit'
  <2>1. ClaimsFit'
    BY <1>0, <1>11 DEF ClaimsFit
  <2>2. ListingsFit'
    BY <1>0 DEF ListingsFit, NamesDiffer
  <2> QED
    BY <2>1, <2>2
<1>13. \A r \in asked \cup fetched : r.ino \in Inos /\ ((Live(r.ino))' <=> Live(r.ino))
  BY <1>1, OtherTypes, Numbers
<1>14. RefreshesFit'
  <2>1. ASSUME NEW r \in (asked \cup fetched)'
        PROVE  IF (Live(r.ino))' THEN (IsFolder(r.ino))' /\ r.of = inode'[r.ino].of ELSE r.of \in removed'
    <3>1. r \in asked \cup fetched
      OBVIOUS
    <3> QED
      BY <1>0, <1>1, <1>13, <3>1 DEF RefreshesFit
  <2>2. \A r, s \in (asked \cup fetched)' : r.of = s.of => r.ino = s.ino
    BY <1>0 DEF RefreshesFit
  <2>3. \A r \in asked' : (Changed(r.of))' => r.ino \in mutated'
    BY <1>0, <1>10 DEF RefreshesFit
  <2> QED
    BY <2>1, <2>2, <2>3 DEF RefreshesFit
<1>15. OrphansFit'
  <2> SUFFICES ASSUME NEW i \in Inos, (Orphan(i))', NEW e \in FolderIds, NEW c \in Entry,
                      (Told(e, c))', c.of = inode'[i].of
               PROVE  /\ c.name = inode'[i].name /\ e \in removed'
                      /\ \A r \in (asked \cup fetched)' : r.of = e => r.ino = inode'[i].parent
    BY DEF OrphansFit
  <2>0. Told(e, c) /\ (Live(i))' /\ i # RootIno /\ ~(IsFolder(inode[i].parent))'
    BY <1>11 DEF Orphan
  <2>1. CASE Live(i)
    <3>1. inode[i].parent \in Inos /\ inode'[i].parent = inode[i].parent /\ c.of = inode[i].of /\ inode'[i].name = inode[i].name
      BY <1>1, <2>1, InodeTypes
    <3>2. ~IsFolder(inode[i].parent)
      BY <1>1, <1>2, <2>0, <3>1 DEF IsFolder, Live
    <3>3. Orphan(i)
      BY <2>0, <2>1, <3>2 DEF Orphan
    <3>4. /\ c.name = inode[i].name /\ e \in removed
          /\ \A r \in asked \cup fetched : r.of = e => r.ino = inode[i].parent
      BY <1>0, <2>0, <3>1, <3>3 DEF OrphansFit
    <3> QED
      BY <3>1, <3>4
  <2>2. CASE ~Live(i)
    <3>1. inode'[i].parent = p /\ Entered(i)' \in listing
      BY <1>1, <2>0, <2>2
    <3>2. ~IsFolder(p)
      BY <1>1, <1>2, <2>0, <3>1 DEF IsFolder
    <3>3. Told(d, Entered(i)') /\ Entered(i)'.of = c.of
      BY <1>3, <3>1
    <3>4. d = e /\ c = Entered(i)'
      BY <1>0, <2>0, <3>1, <3>3 DEF ClaimsFit, Claimed
    <3>5. c.name = inode'[i].name
      BY <1>3, <3>4
    <3>6. d \in removed /\ \A r \in asked \cup fetched : r.of = d => r.ino = p
      BY <3>2 DEF Stands
    <3> QED
      BY <3>1, <3>4, <3>5, <3>6
  <2> QED
    BY <2>1, <2>2
<1>16. ThreadsFit'
  <2>1. ASSUME NEW q \in Inos, (IsFolder(q))', (Changed(inode[q].of))' PROVE q \in mutated'
    <3>1. Live(q)
      BY <1>8, <1>10, <2>1 DEF Changed
    <3> QED
      BY <1>0, <1>1, <1>10, <2>1, <3>1 DEF ThreadsFit
  <2>2. ASSUME NEW t \in threads'
        PROVE  /\ \A c \in t.children : (HeldAt(t.of, c))'
               /\ t.of \in removed' \/ \E q \in Inos : (IsFolder(q))' /\ inode'[q].of = t.of
    <3>1. t \in threads /\ t.of \in FolderIds /\ t.children \subseteq Entry
      BY OtherTypes
    <3>2. \A c \in t.children : (HeldAt(t.of, c))'
      BY <1>0, <1>9, <3>1 DEF ThreadsFit
    <3>3. t.of \in removed \/ \E q \in Inos : IsFolder(q) /\ inode[q].of = t.of
      BY <1>0, <3>1 DEF ThreadsFit
    <3> QED
      BY <1>1, <1>2, <3>2, <3>3
  <2>3. queue' \subseteq mutated'
    BY <1>0 DEF ThreadsFit
  <2> QED
    BY <2>1, <2>2, <2>3 DEF ThreadsFit
<1>17. PhaseFits'
  BY <1>0 DEF PhaseFits
<1>18. Ours' = Ours
  BY DEF Ours
<1>19. LoadedFits'
  <2> SUFFICES ASSUME NEW q \in Inos, (IsFolder(q))'
               PROVE  IF inode'[q].loaded
                      THEN \A c \in Entry : (Told(inode[q].of, c))' /\ c.of \in Ours' => (Shows(q, c))'
                      ELSE /\ \A t \in threads' : t.of # inode'[q].of
                           /\ \A m \in fetched' : m.ino = q => \A c \in Entry : c.of \in Ours' =>
                                 (c \in m.children <=> c \in record'[inode'[q].of].children)
    BY DEF LoadedFits
  <2>1. CASE ~Live(q)
    <3>1. q >= nextIno /\ ~inode'[q].loaded /\ \A t \in threads : t.of # inode'[q].of
      BY <1>8, <2>1
    <3>2. \A m \in fetched : m.ino # q
      BY <3>1, OtherTypes, Numbers
    <3> QED
      BY <3>1, <3>2
  <2>2. CASE Live(q) /\ q # p
    <3>1. IsFolder(q) /\ inode'[q].of = inode[q].of /\ inode[q].of \in FolderIds /\ (inode'[q].loaded <=> inode[q].loaded)
      BY <1>1, <2>2, InodeTypes
    <3>2. CASE inode[q].loaded
      <4>1. \A c \in Entry : Told(inode[q].of, c) /\ c.of \in Ours => Shows(q, c)
        BY <1>0, <3>1, <3>2 DEF VaultFits, LoadedFits
      <4> QED
        BY <1>7, <1>11, <1>18, <3>1, <3>2, <4>1
    <3>3. CASE ~inode[q].loaded
      <4>1. /\ \A t \in threads : t.of # inode[q].of
            /\ \A m \in fetched : m.ino = q => \A c \in Entry : c.of \in Ours =>
                   (c \in m.children <=> c \in record[inode[q].of].children)
        BY <1>0, <3>1, <3>3 DEF VaultFits, LoadedFits
      <4> QED
        BY <1>18, <3>1, <3>3, <4>1
    <3> QED
      BY <3>2, <3>3
  <2>3. CASE Live(q) /\ q = p
    <3>1. IsFolder(p) /\ inode'[p].of = d /\ inode[p].of = d /\ inode'[p].loaded
      BY <1>1, <2>3 DEF Stands
    <3>2. ASSUME NEW c \in Entry, (Told(d, c))', c.of \in Ours PROVE (Shows(p, c))'
      <4>1. CASE inode[p].loaded
        <5>1. Told(d, c) => Shows(p, c)
          BY <1>0, <3>1, <3>2, <4>1 DEF VaultFits, LoadedFits
        <5> QED
          BY <1>7, <1>11, <3>2, <5>1
      <4>2. CASE ~inode[p].loaded
        <5>1. c \in listing <=> c \in record[d].children
          BY <3>1, <3>2, <4>2
        <5>2. CASE c \in record[d].children
          BY <1>7, <5>1, <5>2
        <5>3. CASE \E m \in fetched : m.of = d /\ c \in m.children
          <6>1. PICK m \in fetched : m.of = d /\ c \in m.children
            BY <5>3
          <6>2. m.ino = p
            BY <1>0, <3>1, <6>1, RefreshIno
          <6>3. c \in record[d].children
            BY <1>0, <3>1, <3>2, <4>2, <6>1, <6>2 DEF VaultFits, LoadedFits
          <6> QED
            BY <1>7, <5>1, <6>3
        <5> QED
          BY <1>11, <3>2, <5>2, <5>3 DEF Told
      <4> QED
        BY <4>1, <4>2
    <3> QED
      BY <1>18, <2>3, <3>1, <3>2
  <2> QED
    BY <2>1, <2>2, <2>3
<1>20. SavedFits'
  <2> SUFFICES ASSUME NEW q \in Inos, NEW i \in Inos, (IsFolder(q))', (Places(i, q))', ~(Unsaved(i))'
               PROVE  /\ \/ Entered(i)' \in record'[inode'[q].of].children
                         \/ \E t \in threads' : t.of = inode'[q].of /\ Entered(i)' \in t.children
                      /\ \A t \in threads' : t.of = inode'[q].of => Entered(i)' \in t.children
    BY DEF SavedFits
  <2>1. inode'[i].of \in Ours /\ i \notin open /\ inode'[i].parent \notin queue
    BY <1>18 DEF Unsaved
  <2>2. CASE Live(i)
    <3>1. Places(i, q) /\ q < nextIno
      BY <1>5, <1>6, <2>2
    <3>2. IsFolder(q) /\ inode'[q].of = inode[q].of
      <4>1. Live(q)
        BY <1>8, <3>1, Numbers
      <4> QED
        BY <1>1, <4>1
    <3>3. Entered(i)' = Entered(i) /\ ~Unsaved(i)
      BY <1>1, <2>1, <2>2 DEF Unsaved
    <3>4. /\ \/ Entered(i) \in record[inode[q].of].children
             \/ \E t \in threads : t.of = inode[q].of /\ Entered(i) \in t.children
          /\ \A t \in threads : t.of = inode[q].of => Entered(i) \in t.children
      BY <1>0, <3>1, <3>2, <3>3 DEF VaultFits, SavedFits
    <3> QED
      BY <3>2, <3>3, <3>4
  <2>3. CASE ~Live(i)
    <3>1. q = p /\ (Live(i))'
      BY <1>5, <1>6, <2>3
    <3>2. Entered(i)' \in listing /\ Entered(i)' \in Entry /\ \A j \in Inos : Live(j) => inode[j].of # inode'[i].of
      BY <1>1, <2>3, <3>1
    <3>3. IsFolder(p) /\ inode[p].of = d /\ inode'[p].of = d
      <4>1. Live(p)
        BY <1>8, <3>1
      <4>2. IsFolder(p) /\ inode'[p].of = inode[p].of
        BY <1>1, <3>1, <4>1
      <4> QED
        BY <4>1, <4>2 DEF Stands
    <3>4. Entered(i)'.of = inode'[i].of /\ Told(d, Entered(i)')
      BY <1>3, <3>2
    <3>5. ~inode[p].loaded
      <4> SUFFICES ASSUME inode[p].loaded PROVE FALSE
        OBVIOUS
      <4>1. Shows(p, Entered(i)')
        BY <1>0, <2>1, <3>2, <3>3, <3>4 DEF VaultFits, LoadedFits
      <4> QED
        BY <1>5, <3>2, <3>4, <4>1 DEF Shows
    <3>6. Entered(i)' \in record[d].children
      BY <2>1, <3>2, <3>3, <3>4, <3>5
    <3>7. \A t \in threads : t.of # d
      BY <1>0, <3>3, <3>5 DEF VaultFits, LoadedFits
    <3> QED
      BY <3>1, <3>3, <3>6, <3>7
  <2> QED
    BY <2>2, <2>3
<1>21. ChildrenFit'
  BY <1>0 DEF VaultFits, ChildrenFit
<1>22. DeletedFits'
  BY <1>1, <1>12, <1>14, <1>15, <1>16, <1>17 DEF DeletedFits
<1> QED
  BY <1>19, <1>20, <1>21, <1>22 DEF TimelyFits, VaultFits

LEMMA MergesTimely ==
    ASSUME MountInv, TimelyFits, NEW p \in Inos, p < nextIno, NEW d \in FolderIds, Stands(p, d),
           NEW listing \in SUBSET KnownEntry(used), NamesDiffer(listing), Agrees(p, listing), Populate(p, listing),
           \A c \in listing : Told(d, c), IsFolder(p) \/ \E m \in fetched : m.of = d,
           IsFolder(p) /\ ~inode[p].loaded =>
              \A c \in Entry : c.of \in Ours => (c \in listing <=> c \in record[d].children),
           UNCHANGED <<record, threads, seqCache, queue, mutated, open, asked, used, made, removed, gone>>,
           fetched' \subseteq fetched, mount' = mount \/ mount # Up
    PROVE  TimelyFits'
<1>1. Grown(p, listing)
  BY GrowsHere
<1>2. listing \subseteq Entry /\ nextIno \in Nat
  BY KnownListings, InodeTypes DEF MountInv, FitSets
<1> QED
  BY <1>1, <1>2, GrowsTimely

(* Steps that leave everything but the phase and the refreshes fetched      *)
LEMMA StillTimely ==
    ASSUME MountInv, TimelyFits,
           UNCHANGED <<tree, record, threads, seqCache, queue, mutated, open, asked, used, made, removed, gone>>,
           fetched' \subseteq fetched, mount' = mount \/ mount # Up
    PROVE  TimelyFits'
<1>0. TableFits /\ RefreshesFit /\ ThreadsFit /\ ListingsFit /\ VaultFits /\ PhaseFits
  BY DEF TimelyFits, DeletedFits
<1>1. inode' = inode /\ \A j \in Inos : ((IsFolder(j))' <=> IsFolder(j)) /\ ((Live(j))' <=> Live(j))
  BY SameTable
<1>2. \A d : (Changed(d))' <=> Changed(d)
  BY DEF Changed
<1>3. Ours' = Ours /\ \A d \in FolderIds, c \in Entry : (Told(d, c))' => Claimed(d, c)
  BY <1>2 DEF Told, Claimed, Ours
<1>4. RefreshesFit'
  <2>1. \A r \in asked \cup fetched : r.ino \in Inos
    BY OtherTypes
  <2>2. \A r \in asked \cup fetched : IF (Live(r.ino))' THEN (IsFolder(r.ino))' /\ r.of = inode'[r.ino].of
                                      ELSE r.of \in removed'
    BY <1>0, <1>1, <2>1 DEF RefreshesFit
  <2> QED
    BY <1>0, <1>2, <2>2 DEF RefreshesFit
<1>5. ListingsFit'
  BY <1>0 DEF ListingsFit, NamesDiffer
<1>6. ThreadsFit'
  BY <1>0, <1>1, <1>2, SameTable DEF ThreadsFit
<1>7. PhaseFits'
  BY <1>0 DEF PhaseFits
<1>8. DeletedFits'
  <2>1. DeletedFits /\ removed' = removed /\ UNCHANGED tree
    BY DEF TimelyFits
  <2>2. \A r \in (asked \cup fetched)' :
              r.of \in removed => \E s \in asked \cup fetched : s.of = r.of /\ s.ino = r.ino
    OBVIOUS
  <2> QED
    BY <1>3, <1>4, <1>5, <1>6, <1>7, <2>1, <2>2, SettlesDeleted
<1>9. LoadedFits'
  <2>1. \A p \in Inos : IsFolder(p) /\ ~inode[p].loaded =>
              /\ \A t \in threads' : t.of # inode[p].of
              /\ \A m \in fetched' : m.ino = p => \A c \in Entry : c.of \in Ours' =>
                   (c \in m.children <=> c \in record'[inode[p].of].children)
    BY <1>0, <1>3 DEF VaultFits, LoadedFits
  <2> QED
    BY <1>3, <2>1, SettlesLoaded
<1>10. SavedFits'
  <2>1. \A j \in Inos : (Unsaved(j))' <=> Unsaved(j)
    BY <1>1, <1>3 DEF Unsaved
  <2> QED
    BY <1>0, <1>1, <2>1, SameTable DEF VaultFits, SavedFits
<1>11. ChildrenFit'
  BY <1>0 DEF VaultFits, ChildrenFit
<1> QED
  BY <1>8, <1>9, <1>10, <1>11 DEF TimelyFits, VaultFits

LEMMA MountTimely == ASSUME MountInv, TimelyFits, Mount PROVE TimelyFits'
<1>1. /\ mount = Down /\ mount # Up
      /\ UNCHANGED <<record, threads, seqCache, queue, mutated, open, asked, fetched, used, made, removed, gone>>
      /\ Populate(RootIno, record[Root].children) \/ UNCHANGED tree
  BY DEF Mount, network, Down, Up
<1>2. CASE UNCHANGED tree
  BY <1>1, <1>2, StillTimely
<1>3. CASE Populate(RootIno, record[Root].children)
  <2> DEFINE listing == record[Root].children
  <2>1. threads = {} /\ fetched = {} /\ index = [key \in Inos \X Names |-> NoIno]
    BY <1>1 DEF TimelyFits, DeletedFits, PhaseFits, MountInv, FitMount
  <2>2. RootIno \in Inos /\ RootIno < nextIno /\ IsFolder(RootIno) /\ inode[RootIno].of = Root /\ Root \in FolderIds
    BY MountAssumption, Numbers DEF TimelyFits, DeletedFits, TableFits, MountInv, FitTree, FitNumbers
  <2>3. listing \subseteq KnownEntry(used) /\ NamesDiffer(listing)
    BY <2>2 DEF MountInv, FitRecords, TimelyFits, DeletedFits, ListingsFit
  <2>4. Agrees(RootIno, listing)
    <3>1. \A c \in listing : <<RootIno, c.name>> \in Inos \X Names
      BY <2>2, <2>3 DEF KnownEntry
    <3> QED
      BY <2>1, <3>1 DEF Agrees
  <2>5. \A c \in listing : Told(Root, c)
    BY <2>1 DEF Told, Changed
  <2>6. Stands(RootIno, Root)
    BY <2>2 DEF Stands
  <2> QED
    BY <1>1, <1>3, <2>2, <2>3, <2>4, <2>5, <2>6, MergesTimely
<1> QED
  BY <1>1, <1>2, <1>3

LEMMA PrePopulateTimely == ASSUME MountInv, TimelyFits, NEW i \in Inos, PrePopulate(i) PROVE TimelyFits'
<1>1. /\ mount # Up /\ i \in mount.todo
      /\ UNCHANGED <<record, threads, seqCache, queue, mutated, open, asked, fetched, used, made, removed, gone>>
      /\ Populate(i, record[inode[i].of].children) \/ UNCHANGED tree
  BY DEF PrePopulate, network, Up
<1>2. CASE UNCHANGED tree
  BY <1>1, <1>2, StillTimely
<1>3. CASE Populate(i, record[inode[i].of].children)
  <2> DEFINE d == inode[i].of
             listing == record[d].children
  <2>1. threads = {} /\ fetched = {} /\ IsFolder(i) /\ \A n \in Names : index[<<i, n>>] = NoIno
    BY <1>1 DEF TimelyFits, DeletedFits, PhaseFits, MountInv, FitMount
  <2>2. i < nextIno /\ d \in FolderIds
    BY <2>1, InodeTypes
  <2>3. listing \subseteq KnownEntry(used) /\ NamesDiffer(listing)
    BY <2>2 DEF MountInv, FitRecords, TimelyFits, DeletedFits, ListingsFit
  <2>4. Agrees(i, listing)
    <3>1. \A c \in listing : c.name \in Names
      BY <2>3 DEF KnownEntry
    <3> QED
      BY <2>1, <3>1 DEF Agrees
  <2>5. \A c \in listing : Told(d, c)
    BY <2>1 DEF Told, Changed
  <2>6. Stands(i, d)
    BY <2>1 DEF Stands
  <2> QED
    BY <1>1, <1>3, <2>1, <2>2, <2>3, <2>4, <2>5, <2>6, MergesTimely
<1> QED
  BY <1>1, <1>2, <1>3

LEMMA DrainTimely ==
    ASSUME MountInv, TimelyFits, NEW m \in fetched, DrainRefresh(m), ~rushed' PROVE TimelyFits'
<1>1. /\ UNCHANGED <<record, threads, seqCache, queue, mutated, open, asked, used, made, removed, gone, mount>>
      /\ fetched' \subseteq fetched
      /\ \/ UNCHANGED tree
         \/ m.ino \notin mutated /\ Populate(m.ino, m.children) /\ ~Collides(m)
  BY DEF DrainRefresh, network, Skipped
<1>2. CASE UNCHANGED tree
  BY <1>1, <1>2, StillTimely
<1>3. CASE m.ino \notin mutated /\ Populate(m.ino, m.children) /\ ~Collides(m)
  <2>0. RefreshesFit /\ ListingsFit /\ LoadedFits
    BY DEF TimelyFits, DeletedFits, VaultFits
  <2>1. m.ino \in Inos /\ m.of \in FolderIds /\ m.ino < nextIno
    BY OtherTypes
  <2>2. m.children \subseteq KnownEntry(used) /\ NamesDiffer(m.children)
    BY <2>0 DEF MountInv, FitFetched, ListingsFit
  <2>3. Agrees(m.ino, m.children)
    BY <1>3 DEF Collides, Agrees
  <2>4. \A c \in m.children : Told(m.of, c)
    BY <1>3 DEF Told
  <2>5. Stands(m.ino, m.of)
    BY <2>0, <2>1 DEF Stands, RefreshesFit
  <2>6. IsFolder(m.ino) /\ ~inode[m.ino].loaded =>
              \A c \in Entry : c.of \in Ours => (c \in m.children <=> c \in record[m.of].children)
    <3>1. IsFolder(m.ino) => m.of = inode[m.ino].of
      BY <2>0, <2>1, InodeTypes DEF RefreshesFit
    <3> QED
      BY <2>0, <2>1, <3>1 DEF LoadedFits
  <2> QED
    BY <1>1, <1>3, <2>1, <2>2, <2>3, <2>4, <2>5, <2>6, MergesTimely
<1> QED
  BY <1>1, <1>2, <1>3

-----------------------------------------------------------------------------
(* MountFolders: publishes and other devices, while nothing is rushed       *)

LEMMA ThreadsUsed ==
    ASSUME MountInv, TimelyFits, NEW t \in threads
    PROVE  t.of \in used /\ t.of \in FolderIds
<1>1. t.of \in removed \/ \E p \in Inos : IsFolder(p) /\ inode[p].of = t.of
  BY DEF TimelyFits, DeletedFits, ThreadsFit
<1> QED
  BY <1>1, InodeTypes, OtherTypes DEF MountInv, FitSets

(* A publish goes from one stage to the next                                *)
LEMMA StageTimely ==
    ASSUME MountInv, TimelyFits, NEW t \in threads, NEW u, threads' = (threads \ {t}) \cup {u},
           u.of = t.of, u.child = t.child, u.children = t.children,
           UNCHANGED <<tree, mount, mutated, queue, open, asked, fetched, used, made, removed, gone>>,
           \A d \in FolderIds : record'[d].children = record[d].children, ChildrenFit'
    PROVE  TimelyFits'
<1>0. TableFits /\ RefreshesFit /\ ThreadsFit /\ ListingsFit /\ VaultFits /\ PhaseFits
  BY DEF TimelyFits, DeletedFits
<1>1. inode' = inode /\ \A j \in Inos : ((IsFolder(j))' <=> IsFolder(j)) /\ ((Live(j))' <=> Live(j))
  BY SameTable
<1>2. /\ \A v \in threads' : \E s \in threads : s.of = v.of /\ s.child = v.child /\ s.children = v.children
      /\ \A s \in threads : \E v \in threads' : s.of = v.of /\ s.child = v.child /\ s.children = v.children
  OBVIOUS
<1>3. \A d : (Changed(d))' <=> Changed(d)
  BY <1>2 DEF Changed
<1>4. Ours' = Ours /\ \A d \in FolderIds, c \in Entry : (Told(d, c))' => Claimed(d, c)
  BY <1>3 DEF Told, Claimed, Ours
<1>5. RefreshesFit'
  <2>1. \A r \in asked \cup fetched : r.ino \in Inos
    BY OtherTypes
  <2>2. \A r \in asked \cup fetched : IF (Live(r.ino))' THEN (IsFolder(r.ino))' /\ r.of = inode'[r.ino].of
                                      ELSE r.of \in removed'
    BY <1>0, <1>1, <2>1 DEF RefreshesFit
  <2> QED
    BY <1>0, <1>3, <2>2 DEF RefreshesFit
<1>6. ListingsFit'
  <2>1. \A v \in threads' : NamesDiffer(v.children)
    BY <1>0, <1>2 DEF ListingsFit
  <2>2. \A d \in FolderIds : NamesDiffer(record'[d].children)
    BY <1>0 DEF ListingsFit
  <2> QED
    BY <1>0, <2>1, <2>2 DEF ListingsFit, NamesDiffer
<1>7. ThreadsFit'
  <2>1. \A v \in threads' : /\ \A c \in v.children : (HeldAt(v.of, c))'
                            /\ v.of \in removed' \/ \E p \in Inos : (IsFolder(p))' /\ inode'[p].of = v.of
    <3> SUFFICES ASSUME NEW v \in threads'
                 PROVE  /\ \A c \in v.children : HeldAt(v.of, c)
                        /\ v.of \in removed \/ \E p \in Inos : IsFolder(p) /\ inode[p].of = v.of
      BY <1>1, SameTable
    <3>1. PICK s \in threads : s.of = v.of /\ s.children = v.children
      BY <1>2
    <3> QED
      BY <1>0, <3>1 DEF ThreadsFit
  <2>2. \A p \in Inos : (IsFolder(p))' /\ (Changed(inode[p].of))' => p \in mutated'
    BY <1>0, <1>1, <1>3 DEF ThreadsFit
  <2>3. queue' \subseteq mutated'
    BY <1>0 DEF ThreadsFit
  <2> QED
    BY <2>1, <2>2, <2>3 DEF ThreadsFit
<1>8. PhaseFits'
  BY <1>0 DEF PhaseFits
<1>9. DeletedFits'
  <2>1. DeletedFits /\ removed' = removed /\ UNCHANGED tree
    BY DEF TimelyFits
  <2>2. \A r \in (asked \cup fetched)' :
              r.of \in removed => \E s \in asked \cup fetched : s.of = r.of /\ s.ino = r.ino
    OBVIOUS
  <2> QED
    BY <1>4, <1>5, <1>6, <1>7, <1>8, <2>1, <2>2, SettlesDeleted
<1>10. LoadedFits'
  <2>1. ASSUME NEW p \in Inos, IsFolder(p), ~inode[p].loaded
        PROVE  /\ \A v \in threads' : v.of # inode[p].of
               /\ \A m \in fetched' : m.ino = p => \A c \in Entry : c.of \in Ours' =>
                   (c \in m.children <=> c \in record'[inode[p].of].children)
    <3>1. inode[p].of \in FolderIds
      BY <2>1, InodeTypes
    <3>2. \A s \in threads : s.of # inode[p].of
      BY <1>0, <2>1 DEF VaultFits, LoadedFits
    <3>3. \A v \in threads' : v.of # inode[p].of
      BY <1>2, <3>2
    <3> QED
      BY <1>0, <1>4, <2>1, <3>1, <3>3 DEF VaultFits, LoadedFits
  <2> QED
    BY <1>4, <2>1, SettlesLoaded
<1>11. SavedFits'
  <2> SUFFICES ASSUME NEW p \in Inos, NEW i \in Inos, (IsFolder(p))', (Places(i, p))', ~(Unsaved(i))'
               PROVE  /\ \/ Entered(i)' \in record'[inode'[p].of].children
                         \/ \E v \in threads' : v.of = inode'[p].of /\ Entered(i)' \in v.children
                      /\ \A v \in threads' : v.of = inode'[p].of => Entered(i)' \in v.children
    BY DEF SavedFits
  <2>1. IsFolder(p) /\ Places(i, p) /\ Entered(i)' = Entered(i) /\ inode[p].of \in FolderIds
    BY SameTable, InodeTypes
  <2>2. ~Unsaved(i)
    BY <1>1, <1>4 DEF Unsaved
  <2>3. /\ \/ Entered(i) \in record[inode[p].of].children
           \/ \E s \in threads : s.of = inode[p].of /\ Entered(i) \in s.children
        /\ \A s \in threads : s.of = inode[p].of => Entered(i) \in s.children
    BY <1>0, <2>1, <2>2 DEF VaultFits, SavedFits
  <2>4. \A v \in threads' : v.of = inode[p].of => Entered(i) \in v.children
    <3> SUFFICES ASSUME NEW v \in threads', v.of = inode[p].of PROVE Entered(i) \in v.children
      OBVIOUS
    <3>1. PICK s \in threads : s.of = v.of /\ s.children = v.children
      BY <1>2
    <3> QED
      BY <2>3, <3>1
  <2>5. (\E s \in threads : s.of = inode[p].of /\ Entered(i) \in s.children)
           => \E v \in threads' : v.of = inode[p].of /\ Entered(i) \in v.children
    <3> SUFFICES ASSUME NEW s \in threads, s.of = inode[p].of, Entered(i) \in s.children
                 PROVE  \E v \in threads' : v.of = inode[p].of /\ Entered(i) \in v.children
      OBVIOUS
    <3>1. PICK v \in threads' : s.of = v.of /\ s.children = v.children
      BY <1>2
    <3> QED
      BY <3>1
  <2> QED
    BY <1>1, <2>1, <2>3, <2>4, <2>5
<1> QED
  BY <1>9, <1>10, <1>11 DEF TimelyFits, VaultFits

LEMMA ResolveTimely == ASSUME MountInv, TimelyFits, NEW t \in threads, Resolve(t) PROVE TimelyFits'
<1>1. PICK seq :
        /\ t.stage = "wait"
        /\ threads' = (threads \ {t}) \cup {[t EXCEPT !.stage = "locked", !.seq = seq]}
        /\ seqCache' = [seqCache EXCEPT ![t.of] = seq]
        /\ seqCache[t.of] >= 0 \/ record[t.of].seq >= 0
        /\ UNCHANGED <<record, tree, mount, mutated, queue, open, asked,
                       fetched, used, built, acked, made, removed, gone, rushed, mishaps>>
  <2>1. record[t.of].seq \in Int
    BY OtherTypes
  <2>2. PICK n \in {k \in 0..record[t.of].seq : TRUE} \cup (IF seqCache[t.of] >= 0 THEN {seqCache[t.of]} ELSE {}) :
          LET seq == IF n > seqCache[t.of] THEN n ELSE seqCache[t.of] IN
             /\ threads' = (threads \ {t}) \cup {[t EXCEPT !.stage = "locked", !.seq = seq]}
             /\ seqCache' = [seqCache EXCEPT ![t.of] = seq]
    BY DEF Resolve
  <2>3. seqCache[t.of] >= 0 \/ record[t.of].seq >= 0
    BY <2>1, <2>2
  <2> QED
    BY <2>2, <2>3 DEF Resolve
<1> DEFINE u == [t EXCEPT !.stage = "locked", !.seq = seq]
<1>2. u.of = t.of /\ u.child = t.child /\ u.children = t.children /\ u.stage = "locked" /\ t \in Thread
  BY DEF MountInv, FitThreads, Thread
<1>3. threads' = (threads \ {t}) \cup {u}
  BY <1>1
<1> HIDE DEF u
<1>4. ChildrenFit'
  <2>0. ChildrenFit /\ seqCache \in [FolderIds -> Int]
    BY DEF TimelyFits, VaultFits, MountInv, FitSets
  <2>t. t.of \in used /\ t.of \in FolderIds
    BY ThreadsUsed
  <2>u. \A d \in FolderIds \ used' : record'[d] = Unpublished /\ seqCache'[d] = -1
    BY <1>1, <2>0, <2>t DEF ChildrenFit
  <2> SUFFICES ASSUME NEW v \in threads', v.stage = "child"
               PROVE  /\ v.child \in used \cap FolderIds /\ record[v.child] = Unpublished /\ seqCache'[v.child] = -1
                      /\ \A w \in threads' : w.of = v.child => w.stage # "locked"
                      /\ \A w \in threads' : w.stage = "child" /\ w.child = v.child => w = v
    BY <1>1, <2>0, <2>u DEF ChildrenFit
  <2>1. v \in threads
    BY <1>2, <1>3
  <2>2. /\ v.child \in used \cap FolderIds /\ record[v.child] = Unpublished /\ seqCache[v.child] = -1
        /\ \A w \in threads : w.of = v.child => w.stage # "locked"
        /\ \A w \in threads : w.stage = "child" /\ w.child = v.child => w = v
    BY <2>0, <2>1 DEF ChildrenFit
  <2>3. t.of # v.child
    BY <1>1, <2>2 DEF Unpublished
  <2> QED
    BY <1>1, <1>2, <1>3, <2>0, <2>2, <2>3
<1> QED
  BY <1>1, <1>2, <1>3, <1>4, StageTimely

LEMMA PublishChildTimely == ASSUME MountInv, TimelyFits, NEW t \in threads, PublishChild(t) PROVE TimelyFits'
<1> DEFINE u == [t EXCEPT !.stage = "wait"]
<1>1. /\ t.stage = "child" /\ threads' = (threads \ {t}) \cup {u}
      /\ Accept(t.child, 0, {}) /\ seqCache' = RecordPublish(t.child, 0)
      /\ UNCHANGED <<tree, mount, mutated, queue, open, asked, fetched, used, made, removed, gone>>
  BY DEF PublishChild
<1>2. u.of = t.of /\ u.child = t.child /\ u.children = t.children /\ u.stage = "wait" /\ t \in Thread
  BY DEF MountInv, FitThreads, Thread
<1> HIDE DEF u
<1>0. ChildrenFit /\ seqCache \in [FolderIds -> Int] /\ record \in [FolderIds -> Record]
  BY DEF TimelyFits, VaultFits, MountInv, FitSets, FitRecords
<1>3. t.child \in FolderIds /\ record[t.child] = Unpublished /\ seqCache[t.child] = -1
      /\ \A w \in threads : w.stage = "child" /\ w.child = t.child => w = t
  BY <1>0, <1>1 DEF ChildrenFit
<1>4. \A d \in FolderIds : /\ record'[d].children = record[d].children
                           /\ d # t.child => record'[d] = record[d] /\ seqCache'[d] = seqCache[d]
  <2>1. \A d \in FolderIds : d # t.child => record'[d] = record[d] /\ seqCache'[d] = seqCache[d]
    BY <1>0, <1>1 DEF Accept, RecordPublish
  <2>2. record'[t.child] = IF 0 >= record[t.child].seq THEN [seq |-> 0, children |-> {}] ELSE record[t.child]
    BY <1>0, <1>1, <1>3 DEF Accept
  <2>3. record'[t.child].children = {} /\ record[t.child].children = {}
    BY <1>3, <2>2 DEF Unpublished
  <2> QED
    BY <2>1, <2>3
<1>5. ChildrenFit'
  <2>t. t.child \in used
    BY <1>0, <1>1 DEF ChildrenFit
  <2>u. \A d \in FolderIds \ used' : record'[d] = Unpublished /\ seqCache'[d] = -1
    BY <1>0, <1>1, <1>4, <2>t DEF ChildrenFit
  <2> SUFFICES ASSUME NEW v \in threads', v.stage = "child"
               PROVE  /\ v.child \in used \cap FolderIds /\ record'[v.child] = Unpublished /\ seqCache'[v.child] = -1
                      /\ \A w \in threads' : w.of = v.child => w.stage # "locked"
                      /\ \A w \in threads' : w.stage = "child" /\ w.child = v.child => w = v
    BY <1>1, <1>0, <2>u DEF ChildrenFit
  <2>1. v \in threads /\ v # t
    BY <1>1, <1>2
  <2>2. /\ v.child \in used \cap FolderIds /\ record[v.child] = Unpublished /\ seqCache[v.child] = -1
        /\ \A w \in threads : w.of = v.child => w.stage # "locked"
        /\ \A w \in threads : w.stage = "child" /\ w.child = v.child => w = v
    BY <1>0, <2>1 DEF ChildrenFit
  <2>3. v.child # t.child
    BY <1>1, <1>3, <2>1
  <2> QED
    BY <1>1, <1>2, <1>4, <2>2, <2>3
<1> QED
  BY <1>1, <1>2, <1>4, <1>5, StageTimely

LEMMA PublishTimely ==
    ASSUME MountInv, TimelyFits, NEW t \in threads, Publish(t), ~rushed' PROVE TimelyFits'
<1>0. TableFits /\ RefreshesFit /\ ThreadsFit /\ ListingsFit /\ VaultFits /\ PhaseFits
  BY DEF TimelyFits, DeletedFits
<1>1. /\ t.stage = "locked" /\ threads' = threads \ {t} /\ record[t.of].seq <= t.seq
      /\ Accept(t.of, t.seq + 1, t.children) /\ seqCache' = RecordPublish(t.of, t.seq + 1)
      /\ UNCHANGED <<tree, mount, mutated, queue, open, asked, fetched, used, made, removed, gone>>
  <2>1. t.seq \in Int /\ record[t.of].seq \in Int
    BY OtherTypes
  <2>2. ~(record[t.of].seq > t.seq)
    BY DEF Publish
  <2>3. record[t.of].seq <= t.seq
    BY <2>1, <2>2
  <2> QED
    BY <2>3 DEF Publish
<1>2. seqCache \in [FolderIds -> Int] /\ record \in [FolderIds -> Record] /\ t.of \in FolderIds
      /\ t.seq \in Int /\ record[t.of].seq \in Int /\ t.children \subseteq Entry
  BY OtherTypes DEF MountInv, FitSets, FitRecords
<1>3. /\ record'[t.of].children = t.children
      /\ \A d \in FolderIds : d # t.of => record'[d] = record[d] /\ seqCache'[d] = seqCache[d]
  BY <1>1, <1>2 DEF Accept, RecordPublish
<1>4. inode' = inode /\ \A j \in Inos : ((IsFolder(j))' <=> IsFolder(j)) /\ ((Live(j))' <=> Live(j))
  BY <1>1, SameTable
<1>5. \A d : ((Changed(d))' => Changed(d)) /\ (d # t.of => ((Changed(d))' <=> Changed(d)))
  BY <1>1 DEF Changed
<1>6. Ours' = Ours
  BY <1>1 DEF Ours
<1>7. ASSUME NEW d \in FolderIds, NEW c \in Entry, (Told(d, c))' PROVE Claimed(d, c)
  <2>1. CASE \E m \in fetched : m.of = d /\ m.ino \notin mutated /\ c \in m.children
    BY <2>1 DEF Claimed, Told
  <2>2. CASE ~(Changed(d))' /\ c \in record'[d].children /\ d # t.of
    BY <1>3, <1>5, <2>2 DEF Claimed, Told
  <2>3. CASE c \in record'[d].children /\ d = t.of
    BY <1>0, <1>3, <2>3 DEF Claimed, ThreadsFit
  <2> QED
    BY <1>1, <1>7, <2>1, <2>2, <2>3 DEF Told
<1>8. RefreshesFit'
  <2>1. \A r \in asked \cup fetched : r.ino \in Inos
    BY OtherTypes
  <2>2. \A r \in asked \cup fetched : IF (Live(r.ino))' THEN (IsFolder(r.ino))' /\ r.of = inode'[r.ino].of
                                      ELSE r.of \in removed'
    BY <1>0, <1>1, <1>4, <2>1 DEF RefreshesFit
  <2> QED
    BY <1>0, <1>1, <1>5, <2>2 DEF RefreshesFit
<1>9. ListingsFit'
  <2>1. \A d \in FolderIds : NamesDiffer(record'[d].children)
    BY <1>0, <1>3 DEF ListingsFit
  <2> QED
    BY <1>0, <1>1, <2>1 DEF ListingsFit, NamesDiffer
<1>10. ThreadsFit'
  <2>1. \A v \in threads' : /\ \A c \in v.children : (HeldAt(v.of, c))'
                            /\ v.of \in removed' \/ \E p \in Inos : (IsFolder(p))' /\ inode'[p].of = v.of
    BY <1>0, <1>1, <1>4, SameTable DEF ThreadsFit
  <2>2. \A p \in Inos : (IsFolder(p))' /\ (Changed(inode[p].of))' => p \in mutated'
    BY <1>0, <1>1, <1>4, <1>5 DEF ThreadsFit
  <2>3. queue' \subseteq mutated'
    BY <1>0, <1>1 DEF ThreadsFit
  <2> QED
    BY <2>1, <2>2, <2>3 DEF ThreadsFit
<1>11. PhaseFits'
  BY <1>0, <1>1 DEF PhaseFits
<1>12. DeletedFits'
  <2>1. DeletedFits /\ removed' = removed /\ UNCHANGED tree
    BY <1>1 DEF TimelyFits
  <2>2. \A r \in (asked \cup fetched)' :
              r.of \in removed => \E s \in asked \cup fetched : s.of = r.of /\ s.ino = r.ino
    BY <1>1
  <2> QED
    BY <1>7, <1>8, <1>9, <1>10, <1>11, <2>1, <2>2, SettlesDeleted
<1>13. LoadedFits'
  <2>1. ASSUME NEW p \in Inos, IsFolder(p), ~inode[p].loaded
        PROVE  /\ \A v \in threads' : v.of # inode[p].of
               /\ \A m \in fetched' : m.ino = p => \A c \in Entry : c.of \in Ours' =>
                   (c \in m.children <=> c \in record'[inode[p].of].children)
    <3>1. inode[p].of \in FolderIds
      BY <2>1, InodeTypes
    <3>2. \A s \in threads : s.of # inode[p].of
      BY <1>0, <2>1 DEF VaultFits, LoadedFits
    <3>3. record'[inode[p].of] = record[inode[p].of]
      BY <1>3, <3>1, <3>2
    <3> QED
      BY <1>0, <1>1, <1>6, <2>1, <3>2, <3>3 DEF VaultFits, LoadedFits
  <2> QED
    BY <1>1, <1>6, <1>7, <2>1, SettlesLoaded
<1>14. SavedFits'
  <2> SUFFICES ASSUME NEW p \in Inos, NEW i \in Inos, (IsFolder(p))', (Places(i, p))', ~(Unsaved(i))'
               PROVE  /\ \/ Entered(i)' \in record'[inode'[p].of].children
                         \/ \E v \in threads' : v.of = inode'[p].of /\ Entered(i)' \in v.children
                      /\ \A v \in threads' : v.of = inode'[p].of => Entered(i)' \in v.children
    BY DEF SavedFits
  <2>1. IsFolder(p) /\ Places(i, p) /\ Entered(i)' = Entered(i) /\ inode[p].of \in FolderIds
    BY <1>1, SameTable, InodeTypes
  <2>2. ~Unsaved(i)
    BY <1>1, <1>4, <1>6 DEF Unsaved
  <2>3. /\ \/ Entered(i) \in record[inode[p].of].children
           \/ \E s \in threads : s.of = inode[p].of /\ Entered(i) \in s.children
        /\ \A s \in threads : s.of = inode[p].of => Entered(i) \in s.children
    BY <1>0, <2>1, <2>2 DEF VaultFits, SavedFits
  <2>4. CASE inode[p].of = t.of
    BY <1>1, <1>3, <1>4, <2>1, <2>3, <2>4
  <2>5. CASE inode[p].of # t.of
    BY <1>1, <1>3, <1>4, <2>1, <2>3, <2>5
  <2> QED
    BY <2>4, <2>5
<1>15. ChildrenFit'
  <2>0. ChildrenFit
    BY <1>0 DEF VaultFits
  <2>t. t.of \in used
    BY ThreadsUsed
  <2>u. \A d \in FolderIds \ used' : record'[d] = Unpublished /\ seqCache'[d] = -1
    BY <1>1, <1>3, <2>0, <2>t DEF ChildrenFit
  <2> SUFFICES ASSUME NEW v \in threads', v.stage = "child"
               PROVE  /\ v.child \in used \cap FolderIds /\ record'[v.child] = Unpublished /\ seqCache'[v.child] = -1
                      /\ \A w \in threads' : w.of = v.child => w.stage # "locked"
                      /\ \A w \in threads' : w.stage = "child" /\ w.child = v.child => w = v
    BY <1>1, <2>0, <2>u DEF ChildrenFit
  <2>2. /\ v.child \in used \cap FolderIds /\ record[v.child] = Unpublished /\ seqCache[v.child] = -1
        /\ \A w \in threads : w.of = v.child => w.stage # "locked"
        /\ \A w \in threads : w.stage = "child" /\ w.child = v.child => w = v
    BY <1>1, <2>0 DEF ChildrenFit
  <2>3. v.child # t.of
    BY <1>1, <2>2
  <2> QED
    BY <1>1, <1>3, <2>2, <2>3
<1> QED
  BY <1>12, <1>13, <1>14, <1>15 DEF TimelyFits, VaultFits

LEMMA PublishingTimely ==
    ASSUME MountInv, TimelyFits, PublishingSteps, ~rushed' PROVE TimelyFits'
<1>1. PICK t \in threads : \/ Resolve(t) \/ Publish(t) \/ PublishChild(t) \/ PublishFails(t)
                           \/ ResolveNotFound(t) \/ AnswerLost(t)
  BY DEF PublishingSteps
<1>2. ~PublishFails(t) /\ ~ResolveNotFound(t) /\ ~AnswerLost(t)
  BY DEF PublishFails, ResolveNotFound, AnswerLost
<1> QED
  BY <1>1, <1>2, ResolveTimely, PublishTimely, PublishChildTimely

LEMMA RemoteAddTimely ==
    ASSUME MountInv, TimelyFits, NEW d \in FolderIds, NEW n \in Names, NEW e \in Ids, RemoteAdd(d, n, e)
    PROVE  TimelyFits'
<1> DEFINE new == [name |-> n, of |-> e]
<1>0. /\ TableFits /\ RefreshesFit /\ ThreadsFit /\ ListingsFit /\ VaultFits /\ PhaseFits
      /\ ClaimsFit /\ OrphansFit
  BY DEF TimelyFits, DeletedFits
<1>1. /\ Resolvable(d) /\ e \notin used /\ used' = used \cup {e} /\ \A c \in record[d].children : c.name # n
      /\ record' = [x \in FolderIds |->
                    IF x = d THEN [seq |-> record[d].seq + 1, children |-> record[d].children \cup {new}]
                    ELSE IF x = e THEN [seq |-> 0, children |-> {}] ELSE record[x]]
      /\ UNCHANGED <<tree, mount, mutated, queue, open, threads, seqCache,
                     asked, fetched, built, acked, made, removed, gone>>
  BY DEF RemoteAdd
<1>2. /\ record'[d].children = record[d].children \cup {new}
      /\ \A x \in FolderIds : x # d /\ x # e => record'[x] = record[x]
      /\ \A x \in FolderIds : x # d /\ x = e => record'[x].children = {}
      /\ new \in Entry /\ new.of = e /\ new.name = n
  BY <1>1 DEF Entry
<1> HIDE DEF new
<1>3. Ours' = Ours /\ Ours \subseteq used /\ removed \subseteq used /\ Root \in used
  BY <1>0, <1>1 DEF Ours, VaultFits, ChildrenFit, MountInv, FitSets
<1>4. inode' = inode /\ \A j \in Inos : /\ ((IsFolder(j))' <=> IsFolder(j)) /\ ((Live(j))' <=> Live(j))
                                        /\ ((Orphan(j))' <=> Orphan(j))
  BY <1>1, SameTable
<1>5. \A x : (Changed(x))' <=> Changed(x)
  BY <1>1 DEF Changed
<1>6. ASSUME NEW x \in FolderIds, NEW c \in Entry, (Told(x, c))' PROVE Told(x, c) \/ (x = d /\ c = new)
  <2>1. CASE \E m \in fetched : m.of = x /\ m.ino \notin mutated /\ c \in m.children
    BY <2>1 DEF Told
  <2>2. CASE ~(Changed(x))' /\ c \in record'[x].children
    BY <1>2, <1>5, <2>2 DEF Told
  <2> QED
    BY <1>1, <1>6, <2>1, <2>2 DEF Told
<1>7. ASSUME NEW x \in FolderIds, NEW c \in Entry, (Claimed(x, c))' PROVE Claimed(x, c) \/ (x = d /\ c = new)
  BY <1>1, <1>6, <1>7, SameTable DEF Claimed
<1>8. \A x \in FolderIds, c \in Entry : Claimed(x, c) => c.of # e
  BY <1>1, ClaimsUsed
<1>9. ClaimsFit'
  <2>1. ASSUME NEW x \in FolderIds, NEW y \in FolderIds, NEW b \in Entry, NEW c \in Entry,
               (Claimed(x, b))', (Claimed(y, c))', b.of = c.of
        PROVE  x = y /\ b = c
    <3>1. CASE Claimed(x, b) /\ Claimed(y, c)
      BY <1>0, <2>1, <3>1 DEF ClaimsFit
    <3>2. CASE x = d /\ b = new /\ y = d /\ c = new
      BY <3>2
    <3> QED
      BY <1>2, <1>7, <1>8, <2>1, <3>1, <3>2
  <2>2. ASSUME NEW x \in FolderIds, NEW c \in Entry, (Claimed(x, c))' PROVE c.of \notin removed' /\ c.of # Root
    BY <1>0, <1>1, <1>2, <1>3, <1>7, <2>2 DEF ClaimsFit
  <2> QED
    BY <2>1, <2>2 DEF ClaimsFit
<1>10. OrphansFit'
  <2> SUFFICES ASSUME NEW i \in Inos, (Orphan(i))', NEW x \in FolderIds, NEW c \in Entry,
                      (Told(x, c))', c.of = inode[i].of
               PROVE  /\ c.name = inode[i].name /\ x \in removed
                      /\ \A r \in asked \cup fetched : r.of = x => r.ino = inode[i].parent
    BY <1>1, <1>4 DEF OrphansFit
  <2>1. Orphan(i) /\ inode[i].of \in used
    BY <1>4, InodeTypes
  <2>2. Told(x, c)
    BY <1>1, <1>2, <1>6, <2>1
  <2> QED
    BY <1>0, <2>1, <2>2 DEF OrphansFit
<1>11. TableFits'
  BY <1>0, <1>1, SettlesTable
<1>12. RefreshesFit'
  <2>1. \A r \in asked \cup fetched : r.ino \in Inos
    BY OtherTypes
  <2>2. \A r \in asked \cup fetched : IF (Live(r.ino))' THEN (IsFolder(r.ino))' /\ r.of = inode'[r.ino].of
                                      ELSE r.of \in removed'
    BY <1>0, <1>1, <1>4, <2>1 DEF RefreshesFit
  <2> QED
    BY <1>0, <1>1, <1>5, <2>2 DEF RefreshesFit
<1>13. ListingsFit'
  <2>1. ASSUME NEW x \in FolderIds PROVE NamesDiffer(record'[x].children)
    <3>1. CASE x = d
      BY <1>0, <1>1, <1>2, <3>1 DEF ListingsFit, NamesDiffer
    <3>2. CASE x # d
      BY <1>0, <1>2, <3>2 DEF ListingsFit, NamesDiffer
    <3> QED
      BY <3>1, <3>2
  <2> QED
    BY <1>0, <1>1, <2>1 DEF ListingsFit, NamesDiffer
<1>14. ThreadsFit'
  <2>1. \A v \in threads' : /\ \A c \in v.children : (HeldAt(v.of, c))'
                            /\ v.of \in removed' \/ \E p \in Inos : (IsFolder(p))' /\ inode'[p].of = v.of
    BY <1>0, <1>1, <1>4, SameTable DEF ThreadsFit
  <2>2. \A p \in Inos : (IsFolder(p))' /\ (Changed(inode[p].of))' => p \in mutated'
    BY <1>0, <1>1, <1>4, <1>5 DEF ThreadsFit
  <2>3. queue' \subseteq mutated'
    BY <1>0, <1>1 DEF ThreadsFit
  <2> QED
    BY <2>1, <2>2, <2>3 DEF ThreadsFit
<1>15. PhaseFits'
  BY <1>0, <1>1 DEF PhaseFits
<1>16. DeletedFits'
  BY <1>9, <1>10, <1>11, <1>12, <1>13, <1>14, <1>15 DEF DeletedFits
(* Nothing of ours comes or goes in the records of folders of the table     *)
<1>17. ASSUME NEW p \in Inos, IsFolder(p), NEW c \in Entry, c.of \in Ours
       PROVE  c \in record'[inode[p].of].children <=> c \in record[inode[p].of].children
  <2>1. inode[p].of \in FolderIds /\ inode[p].of \in used /\ inode[p].of # e /\ c # new
    BY <1>1, <1>2, <1>3, <1>17, InodeTypes
  <2> QED
    BY <1>2, <2>1
<1>18. LoadedFits'
  <2>1. ASSUME NEW p \in Inos, IsFolder(p), ~inode[p].loaded
        PROVE  /\ \A v \in threads' : v.of # inode[p].of
               /\ \A m \in fetched' : m.ino = p => \A c \in Entry : c.of \in Ours' =>
                   (c \in m.children <=> c \in record'[inode[p].of].children)
    BY <1>0, <1>1, <1>3, <1>17, <2>1 DEF VaultFits, LoadedFits
  <2>2. \A x \in FolderIds, c \in Entry : (Told(x, c))' => Claimed(x, c) \/ c.of \notin Ours'
    BY <1>1, <1>2, <1>3, <1>6 DEF Claimed
  <2> QED
    BY <1>1, <1>3, <2>1, <2>2, SettlesLoaded
<1>19. SavedFits'
  <2> SUFFICES ASSUME NEW p \in Inos, NEW i \in Inos, (IsFolder(p))', (Places(i, p))', ~(Unsaved(i))'
               PROVE  /\ \/ Entered(i)' \in record'[inode'[p].of].children
                         \/ \E v \in threads' : v.of = inode'[p].of /\ Entered(i)' \in v.children
                      /\ \A v \in threads' : v.of = inode'[p].of => Entered(i)' \in v.children
    BY DEF SavedFits
  <2>1. IsFolder(p) /\ Places(i, p) /\ Entered(i)' = Entered(i) /\ Entered(i) \in Entry
    BY <1>1, SameTable, InodeTypes
  <2>2. ~Unsaved(i) /\ Entered(i).of \in Ours
    BY <1>1, <1>3, <1>4 DEF Unsaved, Entered
  <2>3. /\ \/ Entered(i) \in record[inode[p].of].children
           \/ \E s \in threads : s.of = inode[p].of /\ Entered(i) \in s.children
        /\ \A s \in threads : s.of = inode[p].of => Entered(i) \in s.children
    BY <1>0, <2>1, <2>2 DEF VaultFits, SavedFits
  <2> QED
    BY <1>1, <1>4, <1>17, <2>1, <2>2, <2>3
<1>20. ChildrenFit'
  <2>0. ChildrenFit
    BY <1>0 DEF VaultFits
  <2>t. d \in used
    BY <1>1, <2>0 DEF ChildrenFit, Resolvable, Unpublished
  <2>u. \A o \in FolderIds \ used' : record'[o] = Unpublished /\ seqCache'[o] = -1
    BY <1>1, <1>2, <2>0, <2>t DEF ChildrenFit
  <2> SUFFICES ASSUME NEW v \in threads, v.stage = "child"
               PROVE  v.child \in used' \cap FolderIds /\ record'[v.child] = Unpublished
    BY <1>1, <2>0, <2>u DEF ChildrenFit
  <2>1. v.child \in used \cap FolderIds /\ record[v.child] = Unpublished
    BY <2>0 DEF ChildrenFit
  <2>2. v.child # d /\ v.child # e
    BY <1>1, <2>1 DEF Resolvable, Unpublished
  <2> QED
    BY <1>1, <1>2, <2>1, <2>2
<1> QED
  BY <1>16, <1>18, <1>19, <1>20 DEF TimelyFits, VaultFits

LEMMA RemoteRemoveTimely ==
    ASSUME MountInv, TimelyFits, NEW d \in FolderIds, NEW c \in record[d].children, RemoteRemove(d, c)
    PROVE  TimelyFits'
<1>0. TableFits /\ RefreshesFit /\ ThreadsFit /\ ListingsFit /\ VaultFits /\ PhaseFits
  BY DEF TimelyFits, DeletedFits
<1>1. /\ gone' = gone \cup {c.of}
      /\ record' = [record EXCEPT ![d] = [seq |-> @.seq + 1, children |-> @.children \ {c}]]
      /\ UNCHANGED <<tree, mount, mutated, queue, open, threads, seqCache,
                     asked, fetched, used, built, acked, made, removed>>
  BY DEF RemoteRemove
<1>2. /\ record'[d].children = record[d].children \ {c}
      /\ \A x \in FolderIds : x # d => record'[x] = record[x]
  <2>1. record \in [FolderIds -> Record]
    BY DEF MountInv, FitRecords
  <2> QED
    BY <1>1, <2>1
<1>3. Ours' \subseteq Ours /\ c.of \notin Ours'
  BY <1>1 DEF Ours
<1>4. inode' = inode /\ \A j \in Inos : ((IsFolder(j))' <=> IsFolder(j)) /\ ((Live(j))' <=> Live(j))
  BY <1>1, SameTable
<1>5. \A x : (Changed(x))' <=> Changed(x)
  BY <1>1 DEF Changed
<1>6. \A x \in FolderIds, b \in Entry : (Told(x, b))' => Claimed(x, b)
  BY <1>1, <1>2, <1>5 DEF Told, Claimed
<1>7. RefreshesFit'
  <2>1. \A r \in asked \cup fetched : r.ino \in Inos
    BY OtherTypes
  <2>2. \A r \in asked \cup fetched : IF (Live(r.ino))' THEN (IsFolder(r.ino))' /\ r.of = inode'[r.ino].of
                                      ELSE r.of \in removed'
    BY <1>0, <1>1, <1>4, <2>1 DEF RefreshesFit
  <2> QED
    BY <1>0, <1>1, <1>5, <2>2 DEF RefreshesFit
<1>8. ListingsFit'
  <2>1. \A x \in FolderIds : NamesDiffer(record'[x].children)
    BY <1>0, <1>2 DEF ListingsFit, NamesDiffer
  <2> QED
    BY <1>0, <1>1, <2>1 DEF ListingsFit, NamesDiffer
<1>9. ThreadsFit'
  <2>1. \A v \in threads' : /\ \A b \in v.children : (HeldAt(v.of, b))'
                            /\ v.of \in removed' \/ \E p \in Inos : (IsFolder(p))' /\ inode'[p].of = v.of
    BY <1>0, <1>1, <1>4, SameTable DEF ThreadsFit
  <2>2. \A p \in Inos : (IsFolder(p))' /\ (Changed(inode[p].of))' => p \in mutated'
    BY <1>0, <1>1, <1>4, <1>5 DEF ThreadsFit
  <2>3. queue' \subseteq mutated'
    BY <1>0, <1>1 DEF ThreadsFit
  <2> QED
    BY <2>1, <2>2, <2>3 DEF ThreadsFit
<1>10. PhaseFits'
  BY <1>0, <1>1 DEF PhaseFits
<1>11. DeletedFits'
  <2>1. DeletedFits /\ removed' = removed /\ UNCHANGED tree
    BY <1>1 DEF TimelyFits
  <2>2. \A r \in (asked \cup fetched)' :
              r.of \in removed => \E s \in asked \cup fetched : s.of = r.of /\ s.ino = r.ino
    BY <1>1
  <2> QED
    BY <1>6, <1>7, <1>8, <1>9, <1>10, <2>1, <2>2, SettlesDeleted
<1>12. ASSUME NEW x \in FolderIds, NEW b, b.of \in Ours'
       PROVE  b \in record'[x].children <=> b \in record[x].children
  BY <1>2, <1>3, <1>12
<1>13. LoadedFits'
  <2>1. ASSUME NEW p \in Inos, IsFolder(p), ~inode[p].loaded
        PROVE  /\ \A v \in threads' : v.of # inode[p].of
               /\ \A m \in fetched' : m.ino = p => \A b \in Entry : b.of \in Ours' =>
                   (b \in m.children <=> b \in record'[inode[p].of].children)
    <3>1. inode[p].of \in FolderIds
      BY <2>1, InodeTypes
    <3> QED
      BY <1>0, <1>1, <1>3, <1>12, <2>1, <3>1 DEF VaultFits, LoadedFits
  <2> QED
    BY <1>1, <1>3, <1>6, <2>1, SettlesLoaded
<1>14. SavedFits'
  <2> SUFFICES ASSUME NEW p \in Inos, NEW i \in Inos, (IsFolder(p))', (Places(i, p))', ~(Unsaved(i))'
               PROVE  /\ \/ Entered(i)' \in record'[inode'[p].of].children
                         \/ \E v \in threads' : v.of = inode'[p].of /\ Entered(i)' \in v.children
                      /\ \A v \in threads' : v.of = inode'[p].of => Entered(i)' \in v.children
    BY DEF SavedFits
  <2>1. IsFolder(p) /\ Places(i, p) /\ Entered(i)' = Entered(i) /\ inode[p].of \in FolderIds
    BY <1>1, SameTable, InodeTypes
  <2>2. ~Unsaved(i) /\ Entered(i).of \in Ours'
    BY <1>1, <1>3, <1>4 DEF Unsaved, Entered
  <2>3. /\ \/ Entered(i) \in record[inode[p].of].children
           \/ \E s \in threads : s.of = inode[p].of /\ Entered(i) \in s.children
        /\ \A s \in threads : s.of = inode[p].of => Entered(i) \in s.children
    BY <1>0, <2>1, <2>2 DEF VaultFits, SavedFits
  <2> QED
    BY <1>1, <1>4, <1>12, <2>1, <2>2, <2>3
<1>15. ChildrenFit'
  <2>0. ChildrenFit
    BY <1>0 DEF VaultFits
  <2>t. d \in used
    BY <2>0 DEF ChildrenFit, Unpublished
  <2>u. \A o \in FolderIds \ used' : record'[o] = Unpublished /\ seqCache'[o] = -1
    BY <1>1, <1>2, <2>0, <2>t DEF ChildrenFit
  <2> SUFFICES ASSUME NEW v \in threads, v.stage = "child"
               PROVE  record'[v.child] = Unpublished
    BY <1>1, <2>0, <2>u DEF ChildrenFit
  <2>1. v.child \in used \cap FolderIds /\ record[v.child] = Unpublished
    BY <2>0 DEF ChildrenFit
  <2>2. v.child # d
    BY <2>1 DEF Unpublished
  <2> QED
    BY <1>2, <2>1, <2>2
<1> QED
  BY <1>11, <1>13, <1>14, <1>15 DEF TimelyFits, VaultFits

LEMMA QuitTimely == ASSUME MountInv, TimelyFits, Quit, ~rushed' PROVE TimelyFits'
<1>0. ClaimsFit /\ ListingsFit /\ ChildrenFit
  BY DEF TimelyFits, DeletedFits, VaultFits
<1>1. /\ threads = {} /\ threads' = {} /\ fetched' = {} /\ asked' = {} /\ queue' = {} /\ mutated' = {} /\ open' = {}
      /\ inode' = [i \in Inos |-> IF i = RootIno THEN RootInode ELSE Free]
      /\ index' = [key \in Inos \X Names |-> NoIno] /\ nextIno' = RootIno + 1
      /\ UNCHANGED <<record, used, made, removed, gone>> /\ seqCache' = [d \in FolderIds |-> -1]
  BY DEF Quit
<1>2. /\ \A i \in Inos : /\ ((Live(i))' <=> i = RootIno) /\ ((IsFolder(i))' <=> i = RootIno)
                         /\ i # RootIno => inode'[i] = Free
      /\ inode'[RootIno] = RootInode
      /\ \A i, p \in Inos : ~(Places(i, p))'
      /\ \A p \in Inos, n \in Names : index'[<<p, n>>] = NoIno
  BY <1>1, FreeInode, Numbers DEF Live, IsFolder, Places
<1>3. TableFits'
  <2>1. Root \notin removed
    BY InodeTypes DEF TimelyFits, DeletedFits, TableFits, IsFolder, Live
  <2> QED
    BY <1>1, <1>2, <2>1, FreeInode, Numbers DEF TableFits
<1>4. ASSUME NEW d \in FolderIds, NEW c \in Entry PROVE ((Claimed(d, c))' => Claimed(d, c)) /\ ~(HeldAt(d, c))'
  <2>1. ~(HeldAt(d, c))'
    BY <1>2 DEF HeldAt, Shows
  <2> QED
    BY <1>1, <2>1 DEF Claimed, Told, Changed
<1>5. ClaimsFit'
  BY <1>0, <1>1, <1>4 DEF ClaimsFit
<1>6. ListingsFit'
  BY <1>0, <1>1 DEF ListingsFit, NamesDiffer
<1>7. OrphansFit'
  BY <1>1, <1>2 DEF OrphansFit, Orphan
<1>8. RefreshesFit' /\ ThreadsFit' /\ PhaseFits'
  BY <1>1 DEF RefreshesFit, ThreadsFit, PhaseFits, Changed
<1>9. LoadedFits'
  BY <1>1, <1>2, FreeInode DEF LoadedFits
<1>10. SavedFits' /\ ChildrenFit'
  BY <1>0, <1>1, <1>2 DEF SavedFits, ChildrenFit
<1> QED
  BY <1>3, <1>5, <1>6, <1>7, <1>8, <1>9, <1>10 DEF TimelyFits, DeletedFits, VaultFits

LEMMA StartTimely == ASSUME Init PROVE TimelyFits
<1>1. /\ threads = {} /\ fetched = {} /\ asked = {} /\ queue = {} /\ mutated = {} /\ open = {}
      /\ inode = [i \in Inos |-> IF i = RootIno THEN RootInode ELSE Free]
      /\ index = [key \in Inos \X Names |-> NoIno] /\ nextIno = RootIno + 1
      /\ removed = {} /\ gone = {} /\ used = VaultIds
      /\ record = [d \in FolderIds |-> IF d \in DOMAIN Vault
                   THEN [seq |-> 0, children |-> Vault[d]] ELSE Unpublished]
      /\ seqCache = [d \in FolderIds |-> -1]
  BY DEF Init
<1>2. /\ \A i \in Inos : /\ (Live(i) <=> i = RootIno) /\ (IsFolder(i) <=> i = RootIno)
                         /\ i # RootIno => inode[i] = Free
      /\ inode[RootIno] = RootInode
      /\ \A i, p \in Inos : ~Places(i, p)
      /\ \A p \in Inos, n \in Names : index[<<p, n>>] = NoIno
  BY <1>1, FreeInode, Numbers DEF Live, IsFolder, Places
<1>3. TableFits
  BY <1>1, <1>2, FreeInode, Numbers DEF TableFits
<1>4. ASSUME NEW d \in FolderIds, NEW c \in Entry, Claimed(d, c) PROVE d \in DOMAIN Vault /\ c \in Vault[d]
  <2>1. ~HeldAt(d, c)
    BY <1>2 DEF HeldAt, Shows
  <2> QED
    BY <1>1, <1>4, <2>1 DEF Claimed, Told, Unpublished
<1>5. ClaimsFit
  <2>1. ASSUME NEW d \in FolderIds, NEW e \in FolderIds, NEW b \in Entry, NEW c \in Entry,
               Claimed(d, b), Claimed(e, c), b.of = c.of
        PROVE  d = e /\ b = c
    BY <1>4, <2>1, VaultAssumption
  <2>2. ASSUME NEW d \in FolderIds, NEW c \in Entry, Claimed(d, c) PROVE c.of \notin removed /\ c.of # Root
    BY <1>1, <1>4, <2>2, VaultAssumption
  <2> QED
    BY <2>1, <2>2 DEF ClaimsFit
<1>6. ListingsFit
  <2>1. ASSUME NEW d \in FolderIds PROVE NamesDiffer(record[d].children)
    <3>1. CASE d \in DOMAIN Vault
      BY <1>1, <3>1, VaultAssumption DEF NamesDiffer
    <3>2. CASE d \notin DOMAIN Vault
      BY <1>1, <3>2 DEF NamesDiffer, Unpublished
    <3> QED
      BY <3>1, <3>2
  <2> QED
    BY <1>1, <2>1 DEF ListingsFit
<1>7. OrphansFit /\ RefreshesFit /\ ThreadsFit /\ PhaseFits
  BY <1>1, <1>2 DEF OrphansFit, Orphan, RefreshesFit, ThreadsFit, PhaseFits, Changed
<1>8. LoadedFits
  BY <1>1, <1>2, FreeInode DEF LoadedFits
<1>9. SavedFits /\ ChildrenFit
  BY <1>1, <1>2 DEF SavedFits, ChildrenFit, VaultIds
<1> QED
  BY <1>3, <1>5, <1>6, <1>7, <1>8, <1>9 DEF TimelyFits, DeletedFits, VaultFits

-----------------------------------------------------------------------------
(* MountFolders: changes, while nothing is rushed                           *)

(* What SnapshotShows says, of the table a change leaves                    *)
LEMMA NewSnapshotShows ==
    ASSUME MountInv', TableFits', NEW p \in Inos, (IsFolder(p))'
    PROVE  /\ Snapshot(inode', p) \subseteq Entry /\ NamesDiffer(Snapshot(inode', p))
           /\ \A c \in Snapshot(inode', p) : (Shows(p, c))'
           /\ \A i \in Inos : (Places(i, p))' => Entered(i)' \in Snapshot(inode', p)
<1>1. inode'[p].children = {i \in Inos : (Places(i, p))'}
  BY DEF TableFits
<1>2. \A i \in Inos : Entered(i)' = [name |-> inode'[i].name, of |-> inode'[i].of]
  BY DEF Entered
<1>3. \A c \in Snapshot(inode', p) : \E i \in Inos : (Places(i, p))' /\ c = Entered(i)'
  BY <1>1, <1>2 DEF Snapshot
<1>4. \A i \in Inos : (Places(i, p))' => Entered(i)' \in Snapshot(inode', p)
  BY <1>1, <1>2 DEF Snapshot
<1>5. \A i \in Inos : Entered(i)' \in Entry
  <2>1. inode' \in [Inos -> Inode]
    BY DEF MountInv, FitTree, FitTable
  <2> QED
    BY <1>2, <2>1 DEF Inode, Entry
<1>6. \A c \in Snapshot(inode', p) : c \in Entry /\ (Shows(p, c))'
  <2> SUFFICES ASSUME NEW c \in Snapshot(inode', p) PROVE c \in Entry /\ (Shows(p, c))'
    OBVIOUS
  <2>1. PICK i \in Inos : (Places(i, p))' /\ c = Entered(i)'
    BY <1>3
  <2>2. inode'[i].name = c.name /\ inode'[i].of = c.of
    BY <1>2, <2>1
  <2> QED
    BY <1>5, <2>1, <2>2 DEF Shows
<1>7. NamesDiffer(Snapshot(inode', p))
  <2> SUFFICES ASSUME NEW b \in Snapshot(inode', p), NEW c \in Snapshot(inode', p), b.name = c.name
               PROVE  b = c
    BY DEF NamesDiffer
  <2>1. PICK i \in Inos : (Places(i, p))' /\ b = Entered(i)'
    BY <1>3
  <2>2. PICK j \in Inos : (Places(j, p))' /\ c = Entered(j)'
    BY <1>3
  <2>3. inode'[i].name = inode'[j].name
    BY <1>2, <2>1, <2>2
  <2>4. index'[<<p, inode'[i].name>>] = i /\ index'[<<p, inode'[j].name>>] = j
    BY <2>1, <2>2 DEF TableFits, Places
  <2> QED
    BY <2>1, <2>2, <2>3, <2>4
<1> QED
  BY <1>4, <1>6, <1>7

(* Inode i is moved to a folder of S, inode x is taken out of one, and the  *)
(* folders of S are published as the table then has them                    *)
Moves(S, i, x) ==
    /\ \A p \in S : IsFolder(p) /\ inode[p].loaded /\ p # x /\ \A t \in threads : t.of # inode[p].of
    /\ x \in Inos => Live(x) /\ x # RootIno /\ inode[x].parent \in S /\ (IsFolder(x) => \A j \in Inos : ~Places(j, x))
    /\ i \in Inos => Live(i) /\ i # RootIno /\ i # x /\ inode[i].parent \in S /\ inode'[i].parent \in S
    /\ \A j \in Inos : ((Live(j))' <=> Live(j) /\ j # x) /\ ((IsFolder(j))' <=> IsFolder(j) /\ j # x)
    /\ \A j \in Inos : (Live(j))' =>
         /\ inode'[j].of = inode[j].of /\ inode'[j].loaded = inode[j].loaded
         /\ j # i => inode'[j].name = inode[j].name /\ inode'[j].parent = inode[j].parent
    /\ TableFits'
    /\ removed' = removed \cup {inode[j].of : j \in {x} \cap Inos}
    /\ threads' = threads \cup {Publishing(inode', p, None) : p \in S}
    /\ mutated' = mutated \cup S

LEMMA MovesTimely ==
    ASSUME MountInv, MountInv', TimelyFits, NEW S \in SUBSET Inos, NEW i, NEW x, Moves(S, i, x), Serving,
           UNCHANGED <<record, mount, queue, open, seqCache, asked, fetched, used, made, gone>>
    PROVE  TimelyFits'
<1>0. /\ TableFits /\ RefreshesFit /\ ThreadsFit /\ ListingsFit /\ VaultFits
      /\ ClaimsFit /\ OrphansFit
  BY DEF TimelyFits, DeletedFits
<1>1. /\ \A p \in S : IsFolder(p) /\ inode[p].loaded /\ p # x /\ \A t \in threads : t.of # inode[p].of
      /\ x \in Inos => Live(x) /\ x # RootIno /\ inode[x].parent \in S /\ (IsFolder(x) => \A j \in Inos : ~Places(j, x))
      /\ i \in Inos => Live(i) /\ i # RootIno /\ i # x /\ inode[i].parent \in S /\ inode'[i].parent \in S
      /\ \A j \in Inos : ((Live(j))' <=> Live(j) /\ j # x) /\ ((IsFolder(j))' <=> IsFolder(j) /\ j # x)
      /\ \A j \in Inos : (Live(j))' =>
           /\ inode'[j].of = inode[j].of /\ inode'[j].loaded = inode[j].loaded
           /\ j # i => inode'[j].name = inode[j].name /\ inode'[j].parent = inode[j].parent
      /\ TableFits' /\ mutated' = mutated \cup S
  BY DEF Moves
<1>2. removed' = removed \cup {inode[j].of : j \in {x} \cap Inos} /\ removed \subseteq removed'
  BY DEF Moves
<1>3. \A j \in Inos : (IsFolder(j) => Live(j)) /\ ((IsFolder(j))' => (Live(j))')
  BY DEF IsFolder, Live
<1>4. \A j \in Inos : Entered(j) = [name |-> inode[j].name, of |-> inode[j].of]
                      /\ Entered(j)' = [name |-> inode'[j].name, of |-> inode'[j].of]
  BY DEF Entered
<1>5. \A c \in Entry : c = [name |-> c.name, of |-> c.of]
  BY DEF Entry
<1>6. \A p \in S : (IsFolder(p))' /\ inode'[p].of = inode[p].of /\ inode[p].of \in FolderIds
  BY <1>1, <1>3, InodeTypes
(* Who was anywhere else is there still, and nobody else is                 *)
<1>7. ASSUME NEW j \in Inos, NEW r \in Inos, r \notin S
      PROVE  (Places(j, r))' <=> Places(j, r)
  BY <1>1, <1>7 DEF Places
<1>8. ASSUME NEW r \in Inos, r \notin S, NEW c PROVE (Shows(r, c))' <=> Shows(r, c)
  <2>1. ASSUME NEW j \in Inos, Places(j, r) PROVE inode'[j].name = inode[j].name /\ inode'[j].of = inode[j].of
    BY <1>1, <1>8, <2>1 DEF Places
  <2> QED
    BY <1>7, <1>8, <2>1 DEF Shows
(* The publishes                                                            *)
<1>9. /\ \A t \in threads' : t \in threads \/ \E p \in S :
                /\ t.of = inode[p].of /\ t.child = None /\ t.stage = "wait" /\ t.children = Snapshot(inode', p)
      /\ \A p \in S : \E t \in threads' : t.of = inode[p].of /\ t.child = None /\ t.children = Snapshot(inode', p)
      /\ threads \subseteq threads'
  <2>1. \A p \in S : LET t == Publishing(inode', p, None) IN
          t.of = inode[p].of /\ t.child = None /\ t.stage = "wait" /\ t.children = Snapshot(inode', p)
    BY <1>6 DEF Publishing
  <2>2. \A t \in threads' : t \in threads \/ \E p \in S : t = Publishing(inode', p, None)
    BY DEF Moves
  <2>3. \A p \in S : Publishing(inode', p, None) \in threads'
    BY DEF Moves
  <2>4. threads \subseteq threads'
    BY DEF Moves
  <2>5. ASSUME NEW t \in threads', t \notin threads
        PROVE  \E p \in S : t.of = inode[p].of /\ t.child = None /\ t.stage = "wait" /\ t.children = Snapshot(inode', p)
    <3>1. PICK p \in S : t = Publishing(inode', p, None)
      BY <2>2, <2>5
    <3> QED
      BY <2>1, <3>1
  <2> QED
    BY <2>1, <2>3, <2>4, <2>5
<1>10. ASSUME NEW p \in S, NEW t \in threads', t.of = inode[p].of PROVE t.children = Snapshot(inode', p)
  <2>1. t \notin threads
    BY <1>1, <1>10
  <2>2. PICK q \in S : t.of = inode[q].of /\ t.children = Snapshot(inode', q)
    BY <1>9, <2>1
  <2>3. q = p
    BY <1>0, <1>1, <1>10, <2>2, OneFolder
  <2> QED
    BY <2>2, <2>3
<1>11. ASSUME NEW d PROVE /\ Changed(d) => (Changed(d))'
                          /\ (Changed(d))' => Changed(d) \/ \E p \in S : inode[p].of = d
  BY <1>9 DEF Changed
<1>12. ASSUME NEW p \in S, NEW d, d = inode[p].of, NEW c PROVE ~(Told(d, c))'
  <2>1. (Changed(d))'
    BY <1>9, <1>12 DEF Changed
  <2>2. \A m \in fetched : m.of = d => m.ino = p
    BY <1>0, <1>1, <1>12, RefreshIno
  <2> QED
    BY <1>1, <2>1, <2>2 DEF Told
<1>13. ASSUME NEW d, NEW c, (Told(d, c))' PROVE Told(d, c)
  BY <1>1, <1>11, <1>13 DEF Told
(* What the table held of the two                                           *)
<1>14. ASSUME NEW j \in Inos, Live(j), j # RootIno, inode[j].parent \in S
       PROVE  /\ Claimed(inode[inode[j].parent].of, Entered(j)) /\ Entered(j) \in Entry
              /\ \A d \in FolderIds, c \in Entry : (Told(d, c))' => c.of # inode[j].of
  <2>1. HeldAt(inode[inode[j].parent].of, Entered(j)) /\ Entered(j) \in Entry
    BY <1>1, <1>4, <1>14, InodeTypes DEF HeldAt, Shows, Places
  <2>2. \A d \in FolderIds, c \in Entry : Told(d, c) /\ c.of = inode[j].of => d = inode[inode[j].parent].of
    BY <1>0, <1>4, <1>6, <1>14, <2>1 DEF Claimed, ClaimsFit
  <2>3. ASSUME NEW d \in FolderIds, NEW c \in Entry, (Told(d, c))', c.of = inode[j].of PROVE FALSE
    <3>1. d = inode[inode[j].parent].of
      BY <1>13, <2>2, <2>3
    <3> QED
      BY <1>12, <1>14, <2>3, <3>1
  <2> QED
    BY <2>1, <2>3 DEF Claimed
<1>15. ASSUME NEW d \in FolderIds, NEW c \in Entry, (HeldAt(d, c))'
       PROVE  \E j \in Inos : /\ (Live(j))' /\ j # RootIno /\ inode'[j].of = c.of /\ inode'[j].name = c.name
                              /\ (IsFolder(inode[j].parent))' /\ inode'[inode'[j].parent].of = d
                              /\ inode'[j].parent \in Inos
  BY <1>15 DEF HeldAt, Shows, Places
<1>16. ASSUME NEW d \in FolderIds, NEW c \in Entry, (HeldAt(d, c))', NEW e \in FolderIds, NEW b \in Entry,
              (Told(e, b))', b.of = c.of
       PROVE  d = e /\ b = c
  <2>1. PICK j \in Inos : /\ (Live(j))' /\ j # RootIno /\ inode'[j].of = c.of /\ inode'[j].name = c.name
                          /\ (IsFolder(inode[j].parent))' /\ inode'[inode'[j].parent].of = d
                          /\ inode'[j].parent \in Inos
    BY <1>15, <1>16
  <2>2. Live(j) /\ inode[j].of = c.of
    BY <1>1, <2>1
  <2>3. inode[j].parent \notin S
    BY <1>14, <1>16, <2>1, <2>2
  <2>4. j # i /\ inode'[j].parent = inode[j].parent /\ inode'[j].name = inode[j].name /\ inode[j].parent \in Inos
    BY <1>1, <2>1, <2>3
  <2>5. IsFolder(inode[j].parent) /\ inode[inode[j].parent].of = d
    BY <1>1, <1>3, <2>1, <2>4
  <2>6. Places(j, inode[j].parent)
    BY <2>1, <2>2 DEF Places
  <2>7. HeldAt(d, c)
    BY <2>1, <2>2, <2>4, <2>5, <2>6 DEF HeldAt, Shows
  <2>8. Told(e, b)
    BY <1>13, <1>16
  <2> QED
    BY <1>0, <1>16, <2>7, <2>8 DEF ClaimsFit, Claimed
<1>17. ClaimsFit'
  <2>1. ASSUME NEW d \in FolderIds, NEW e \in FolderIds, NEW b \in Entry, NEW c \in Entry,
               (Claimed(d, b))', (Claimed(e, c))', b.of = c.of
        PROVE  d = e /\ b = c
    <3>1. CASE (HeldAt(d, b))' /\ (HeldAt(e, c))'
      <4>1. PICK j \in Inos : /\ (Live(j))' /\ j # RootIno /\ inode'[j].of = b.of /\ inode'[j].name = b.name
                              /\ (IsFolder(inode[j].parent))' /\ inode'[inode'[j].parent].of = d
                              /\ inode'[j].parent \in Inos
        BY <1>15, <3>1
      <4>2. PICK k \in Inos : /\ (Live(k))' /\ k # RootIno /\ inode'[k].of = c.of /\ inode'[k].name = c.name
                              /\ (IsFolder(inode[k].parent))' /\ inode'[inode'[k].parent].of = e
                              /\ inode'[k].parent \in Inos
        BY <1>15, <3>1
      <4>3. j = k
        BY <1>1, <2>1, <4>1, <4>2 DEF TableFits
      <4> QED
        BY <1>5, <4>1, <4>2, <4>3
    <3>2. CASE (HeldAt(d, b))' /\ (Told(e, c))'
      BY <1>16, <2>1, <3>2
    <3>3. CASE (Told(d, b))' /\ (HeldAt(e, c))'
      BY <1>16, <2>1, <3>3
    <3>4. CASE (Told(d, b))' /\ (Told(e, c))'
      BY <1>0, <1>13, <2>1, <3>4 DEF ClaimsFit, Claimed
    <3> QED
      BY <2>1, <3>1, <3>2, <3>3, <3>4 DEF Claimed
  <2>2. ASSUME NEW d \in FolderIds, NEW c \in Entry, (Claimed(d, c))' PROVE c.of \notin removed' /\ c.of # Root
    <3>1. CASE (HeldAt(d, c))'
      <4>1. PICK j \in Inos : /\ (Live(j))' /\ j # RootIno /\ inode'[j].of = c.of
        BY <1>15, <3>1
      <4>2. (Live(RootIno))' /\ inode'[RootIno].of = Root /\ RootIno \in Inos
        BY <1>1, <1>3, Numbers DEF TableFits
      <4> QED
        BY <1>1, <4>1, <4>2 DEF TableFits
    <3>2. CASE (Told(d, c))'
      <4>1. c.of \notin removed /\ c.of # Root
        BY <1>0, <1>13, <3>2 DEF ClaimsFit, Claimed
      <4>2. x \in Inos => c.of # inode[x].of
        BY <1>1, <1>14, <3>2
      <4> QED
        BY <1>2, <4>1, <4>2
    <3> QED
      BY <2>2, <3>1, <3>2 DEF Claimed
  <2> QED
    BY <2>1, <2>2 DEF ClaimsFit
<1>18. ListingsFit'
  <2>1. \A t \in threads' : NamesDiffer(t.children)
    BY <1>0, <1>1, <1>6, <1>9, NewSnapshotShows DEF ListingsFit
  <2> QED
    BY <1>0, <2>1 DEF ListingsFit, NamesDiffer
<1>19. OrphansFit'
  <2> SUFFICES ASSUME NEW j \in Inos, (Orphan(j))', NEW d \in FolderIds, NEW c \in Entry,
                      (Told(d, c))', c.of = inode'[j].of
               PROVE  /\ c.name = inode'[j].name /\ d \in removed'
                      /\ \A r \in (asked \cup fetched)' : r.of = d => r.ino = inode'[j].parent
    BY DEF OrphansFit
  <2>1. (Live(j))' /\ j # RootIno /\ ~(IsFolder(inode[j].parent))' /\ inode[j].parent \in Inos
    BY InodeTypes DEF Orphan
  <2>2. j # i
    BY <1>6, <2>1, <1>1 DEF IsFolder
  <2>3. Live(j) /\ inode'[j].of = inode[j].of /\ inode'[j].name = inode[j].name /\ inode'[j].parent = inode[j].parent
    BY <1>1, <2>1, <2>2
  <2>4. IsFolder(inode[j].parent) => inode[j].parent # x
    BY <1>1, <2>1, <2>3 DEF Places
  <2>5. ~IsFolder(inode[j].parent)
    BY <1>1, <2>1, <2>3, <2>4 DEF IsFolder
  <2>6. Orphan(j)
    BY <2>1, <2>3, <2>5 DEF Orphan
  <2>7. /\ c.name = inode[j].name /\ d \in removed
        /\ \A r \in asked \cup fetched : r.of = d => r.ino = inode[j].parent
    BY <1>0, <1>13, <2>3, <2>6 DEF OrphansFit
  <2> QED
    BY <1>2, <2>3, <2>7
<1>20. RefreshesFit'
  <2>1. ASSUME NEW r \in asked \cup fetched
        PROVE  IF (Live(r.ino))' THEN (IsFolder(r.ino))' /\ r.of = inode'[r.ino].of ELSE r.of \in removed'
    <3>1. r.ino \in Inos
      BY OtherTypes
    <3>2. CASE r.ino = x
      BY <1>0, <1>1, <1>2, <3>1, <3>2 DEF RefreshesFit
    <3>3. CASE r.ino # x
      BY <1>0, <1>1, <1>2, <3>1, <3>3 DEF RefreshesFit
    <3> QED
      BY <3>2, <3>3
  <2>2. ASSUME NEW r \in asked, (Changed(r.of))' PROVE r.ino \in mutated'
    <3>1. CASE Changed(r.of)
      BY <1>0, <1>1, <3>1 DEF RefreshesFit
    <3>2. CASE ~Changed(r.of)
      <4>1. PICK p \in S : inode[p].of = r.of
        BY <1>11, <2>2, <3>2
      <4>2. r.ino = p
        BY <1>0, <1>1, <4>1, RefreshIno
      <4> QED
        BY <1>1, <4>2
    <3> QED
      BY <3>1, <3>2
  <2> QED
    BY <1>0, <2>1, <2>2 DEF RefreshesFit
<1>21. ThreadsFit'
  <2>1. ASSUME NEW p \in Inos, (IsFolder(p))', (Changed(inode[p].of))' PROVE p \in mutated'
    <3>1. IsFolder(p) /\ inode'[p].of = inode[p].of
      BY <1>1, <1>3, <2>1
    <3>2. CASE Changed(inode[p].of)
      BY <1>0, <1>1, <3>1, <3>2 DEF ThreadsFit
    <3>3. CASE ~Changed(inode[p].of)
      <4>1. PICK q \in S : inode[q].of = inode[p].of
        BY <1>11, <2>1, <3>1, <3>3
      <4>2. q = p
        BY <1>0, <1>1, <3>1, <4>1, OneFolder
      <4> QED
        BY <1>1, <4>2
    <3> QED
      BY <3>2, <3>3
  <2>2. ASSUME NEW t \in threads'
        PROVE  /\ \A c \in t.children : (HeldAt(t.of, c))'
               /\ t.of \in removed' \/ \E p \in Inos : (IsFolder(p))' /\ inode'[p].of = t.of
    <3>1. CASE t \notin threads
      <4>1. PICK p \in S : t.of = inode[p].of /\ t.children = Snapshot(inode', p)
        BY <1>9, <3>1
      <4>2. (IsFolder(p))' /\ inode'[p].of = t.of /\ \A c \in t.children : (Shows(p, c))'
        BY <1>1, <1>6, <4>1, NewSnapshotShows
      <4> QED
        BY <4>2 DEF HeldAt
    <3>2. CASE t \in threads
      <4>1. ASSUME NEW c \in t.children PROVE (HeldAt(t.of, c))'
        <5>1. PICK p \in Inos : IsFolder(p) /\ inode[p].of = t.of /\ Shows(p, c)
          BY <1>0, <3>2, <4>1 DEF ThreadsFit, HeldAt
        <5>2. p \notin S
          BY <1>1, <3>2, <5>1
        <5>3. p # x
          BY <1>1, <5>1 DEF Shows
        <5>4. (IsFolder(p))' /\ inode'[p].of = t.of
          BY <1>1, <1>3, <5>1, <5>3
        <5> QED
          BY <1>8, <5>1, <5>2, <5>4 DEF HeldAt
      <4>2. t.of \in removed \/ \E p \in Inos : IsFolder(p) /\ inode[p].of = t.of
        BY <1>0, <3>2 DEF ThreadsFit
      <4>3. t.of \in removed' \/ \E p \in Inos : (IsFolder(p))' /\ inode'[p].of = t.of
        <5>1. CASE t.of \in removed
          BY <1>2, <5>1
        <5>2. CASE \E p \in Inos : IsFolder(p) /\ inode[p].of = t.of
          <6>1. PICK p \in Inos : IsFolder(p) /\ inode[p].of = t.of
            BY <5>2
          <6>2. CASE p = x
            BY <1>2, <6>1, <6>2
          <6>3. CASE p # x
            BY <1>1, <1>3, <6>1, <6>3
          <6> QED
            BY <6>2, <6>3
        <5> QED
          BY <4>2, <5>1, <5>2
      <4> QED
        BY <4>1, <4>3
    <3> QED
      BY <3>1, <3>2
  <2>3. queue' \subseteq mutated'
    BY <1>0, <1>1 DEF ThreadsFit
  <2> QED
    BY <2>1, <2>2, <2>3 DEF ThreadsFit
<1>22. DeletedFits'
  <2>1. PhaseFits'
    BY DEF PhaseFits, Serving
  <2> QED
    BY <1>1, <1>17, <1>18, <1>19, <1>20, <1>21, <2>1 DEF DeletedFits
<1>23. Ours' = Ours
  BY DEF Ours
<1>24. LoadedFits'
  <2> SUFFICES ASSUME NEW q \in Inos, (IsFolder(q))'
               PROVE  IF inode'[q].loaded
                      THEN \A c \in Entry : (Told(inode[q].of, c))' /\ c.of \in Ours' => (Shows(q, c))'
                      ELSE /\ \A t \in threads' : t.of # inode'[q].of
                           /\ \A m \in fetched' : m.ino = q => \A c \in Entry : c.of \in Ours' =>
                                 (c \in m.children <=> c \in record'[inode'[q].of].children)
    BY DEF LoadedFits
  <2>1. IsFolder(q) /\ inode'[q].of = inode[q].of /\ inode'[q].loaded = inode[q].loaded /\ inode[q].of \in FolderIds
    BY <1>1, <1>3, InodeTypes
  <2>2. ASSUME inode[q].loaded, NEW c \in Entry, (Told(inode[q].of, c))', c.of \in Ours' PROVE (Shows(q, c))'
    <3>1. q \notin S
      BY <1>6, <1>12, <2>2
    <3>2. Told(inode[q].of, c)
      BY <1>13, <2>1, <2>2
    <3> QED
      BY <1>0, <1>8, <1>23, <2>1, <2>2, <3>1, <3>2 DEF VaultFits, LoadedFits
  <2>3. ASSUME ~inode[q].loaded PROVE \A t \in threads' : t.of # inode[q].of
    <3>1. \A t \in threads : t.of # inode[q].of
      BY <1>0, <2>1, <2>3 DEF VaultFits, LoadedFits
    <3>2. \A p \in S : inode[p].of # inode[q].of
      BY <1>0, <1>1, <2>1, <2>3, OneFolder
    <3> QED
      BY <1>9, <3>1, <3>2
  <2> QED
    BY <1>0, <1>23, <2>1, <2>2, <2>3 DEF VaultFits, LoadedFits
<1>25. SavedFits'
  <2> SUFFICES ASSUME NEW q \in Inos, NEW j \in Inos, (IsFolder(q))', (Places(j, q))', ~(Unsaved(j))'
               PROVE  /\ \/ Entered(j)' \in record'[inode'[q].of].children
                         \/ \E t \in threads' : t.of = inode'[q].of /\ Entered(j)' \in t.children
                      /\ \A t \in threads' : t.of = inode'[q].of => Entered(j)' \in t.children
    BY DEF SavedFits
  <2>1. CASE q \in S
    <3>1. Entered(j)' \in Snapshot(inode', q)
      BY <1>1, NewSnapshotShows
    <3> QED
      BY <1>6, <1>9, <1>10, <2>1, <3>1
  <2>2. CASE q \notin S
    <3>1. Places(j, q) /\ IsFolder(q) /\ inode'[q].of = inode[q].of
      BY <1>1, <1>3, <1>7, <2>2
    <3>2. Live(j) /\ (Live(j))' /\ j # RootIno /\ inode[j].parent = q
      BY <3>1 DEF Places
    <3>3. inode'[j].of = inode[j].of /\ inode'[j].name = inode[j].name /\ inode'[j].parent = inode[j].parent
      BY <1>1, <2>2, <3>2
    <3>4. ~Unsaved(j) /\ Entered(j)' = Entered(j)
      BY <1>4, <1>23, <3>3 DEF Unsaved
    <3>5. /\ \/ Entered(j) \in record[inode[q].of].children
             \/ \E t \in threads : t.of = inode[q].of /\ Entered(j) \in t.children
          /\ \A t \in threads : t.of = inode[q].of => Entered(j) \in t.children
      BY <1>0, <3>1, <3>4 DEF VaultFits, SavedFits
    <3>6. \A p \in S : inode[p].of # inode[q].of
      BY <1>0, <1>1, <2>2, <3>1, OneFolder
    <3>7. \A t \in threads' : t.of = inode[q].of => t \in threads
      BY <1>9, <3>6
    <3> QED
      BY <1>9, <3>1, <3>4, <3>5, <3>7
  <2> QED
    BY <2>1, <2>2
<1>26. ChildrenFit'
  <2>0. ChildrenFit
    BY <1>0 DEF VaultFits
  <2>u. VaultIds \subseteq used /\ \A d \in FolderIds \ used : record[d] = Unpublished /\ seqCache[d] = -1
    BY <2>0 DEF ChildrenFit
  <2> SUFFICES ASSUME NEW t \in threads', t.stage = "child"
               PROVE  /\ t.child \in used \cap FolderIds /\ record[t.child] = Unpublished /\ seqCache[t.child] = -1
                      /\ \A u \in threads' : u.of = t.child => u.stage # "locked"
                      /\ \A u \in threads' : u.stage = "child" /\ u.child = t.child => u = t
    BY <2>u DEF ChildrenFit
  <2>1. t \in threads /\ \A u \in threads' : u \in threads \/ u.stage = "wait"
    BY <1>9
  <2> QED
    BY <2>0, <2>1 DEF ChildrenFit
<1> QED
  BY <1>22, <1>24, <1>25, <1>26 DEF TimelyFits, VaultFits

LEMMA PublishesMade ==
    ASSUME NEW table, NEW S \in SUBSET Inos, UpdateFolders(table, S), inode' = table, ~rushed'
    PROVE  /\ mutated' = mutated \cup S /\ threads' = threads \cup {Publishing(inode', p, None) : p \in S}
           /\ \A p \in S : inode[p].loaded /\ \A t \in threads : t.of # inode[p].of
<1>1. ~Crowded(S) /\ StartPublishes(table, S) /\ mutated' = mutated \cup S
  BY DEF UpdateFolders
<1> QED
  BY <1>1 DEF Crowded, StartPublishes

(* Who is in the index is a child of the folder                             *)
LEMMA IndexPlaces ==
    ASSUME MountInv, TableFits, NEW p \in Inos, NEW n \in Names, NEW i, i = index[<<p, n>>], i # NoIno
    PROVE  i \in Inos /\ Places(i, p) /\ Live(i) /\ i # RootIno /\ i # p /\ inode[i].parent = p /\ inode[i].name = n
<1>1. i \in Inos /\ Places(i, p) /\ inode[i].name = n
  BY InodeTypes DEF TableFits
<1>2. i # p
  BY DEF MountInv, FitTree, FitNumbers
<1> QED
  BY <1>1, <1>2 DEF Places

LEMMA ChildPlaces ==
    ASSUME MountInv, TableFits, NEW p \in Inos, IsFolder(p), NEW i \in inode[p].children
    PROVE  /\ i \in Inos /\ Places(i, p) /\ Live(i) /\ i # RootIno /\ i # p /\ inode[i].parent = p
           /\ inode[i].name \in Names /\ index[<<p, inode[i].name>>] = i
<1>1. i \in Inos /\ Places(i, p)
  BY DEF TableFits
<1>2. Live(i) /\ i # RootIno /\ inode[i].parent = p /\ index[<<p, inode[i].name>>] = i
  BY <1>1 DEF TableFits, Places
<1>3. inode[i].name \in Names
  BY <1>1, InodeTypes
<1> QED
  BY <1>1, <1>2, <1>3 DEF MountInv, FitTree, FitNumbers

LEMMA RemoveTimely ==
    ASSUME MountInv, MountInv', TimelyFits, NEW p \in Inos, NEW n \in Names, Remove(p, n), ~rushed'
    PROVE  TimelyFits'
<1>0. TableFits
  BY DEF TimelyFits, DeletedFits
<1>1. PICK x : x = index[<<p, n>>]
  OBVIOUS
<1>2. /\ Serving /\ IsFolder(p) /\ x # NoIno /\ Live(x) /\ Emptied(x)
      /\ inode' = RemoveInode(inode, x) /\ index' = RemoveName(index, x) /\ removed' = removed \cup {inode[x].of}
      /\ UpdateFolders(inode', {p})
      /\ UNCHANGED <<record, nextIno, mount, queue, open, seqCache, asked, fetched, used, acked, made, gone, mishaps>>
  BY <1>1 DEF Remove
<1>3. x \in Inos /\ Places(x, p) /\ x # RootIno /\ x # p /\ inode[x].parent = p /\ inode[x].name = n
  BY <1>0, <1>1, <1>2, IndexPlaces
<1>4. /\ mutated' = mutated \cup {p} /\ threads' = threads \cup {Publishing(inode', r, None) : r \in {p}}
      /\ inode[p].loaded /\ \A t \in threads : t.of # inode[p].of
  BY <1>2, PublishesMade
<1>5. inode \in [Inos -> Inode]
  BY DEF MountInv, FitTree, FitTable
<1>6. PICK cut : cut = [inode[p] EXCEPT !.children = @ \ {x}]
  OBVIOUS
<1>7. /\ cut.kind = inode[p].kind /\ cut.of = inode[p].of /\ cut.name = inode[p].name /\ cut.parent = inode[p].parent
      /\ cut.listed = inode[p].listed /\ cut.loaded = inode[p].loaded /\ cut.children = inode[p].children \ {x}
  BY <1>5, <1>6 DEF Inode
<1>8. \A j \in Inos : inode'[j] = IF j = x THEN Free ELSE IF j = p THEN cut ELSE inode[j]
  BY <1>2, <1>3, <1>6 DEF RemoveInode
<1>9. \A j \in Inos : /\ ((Live(j))' <=> Live(j) /\ j # x) /\ ((IsFolder(j))' <=> IsFolder(j) /\ j # x)
                      /\ j # x => /\ inode'[j].of = inode[j].of /\ inode'[j].loaded = inode[j].loaded
                                  /\ inode'[j].name = inode[j].name /\ inode'[j].parent = inode[j].parent
                                  /\ inode'[j].listed = inode[j].listed
                                  /\ j # p => inode'[j].children = inode[j].children
                                  /\ j = p => inode'[j].children = inode[j].children \ {x}
  BY <1>7, <1>8, FreeInode DEF Live, IsFolder
<1>10. \A j, r \in Inos : (Places(j, r))' <=> Places(j, r) /\ j # x
  BY <1>9 DEF Places
<1>11. index' = [index EXCEPT ![<<p, n>>] = NoIno] /\ index \in [Inos \X Names -> Inos \cup {NoIno}]
  BY <1>2, <1>3 DEF RemoveName, MountInv, FitTree, FitNumbers
<1>12. \A r \in Inos, m \in Names : index'[<<r, m>>] = IF r = p /\ m = n THEN NoIno ELSE index[<<r, m>>]
  BY <1>11
<1>13. IsFolder(x) => \A j \in Inos : ~Places(j, x)
  BY <1>0, <1>2, <1>3 DEF TableFits, Emptied
<1>14. TableFits'
  <2>1. (IsFolder(RootIno))' /\ inode'[RootIno].of = Root
    BY <1>0, <1>3, <1>9, Numbers DEF TableFits
  <2>2. \A j, k \in Inos : (Live(j))' /\ (Live(k))' /\ inode'[j].of = inode'[k].of => j = k
    BY <1>0, <1>9 DEF TableFits
  <2>3. \A j \in Inos : (Live(j))' => inode'[j].of \notin removed'
    BY <1>0, <1>2, <1>3, <1>9 DEF TableFits
  <2>4. ASSUME NEW j \in Inos, (Live(j))', j # RootIno
        PROVE  index'[<<inode'[j].parent, inode'[j].name>>] = j /\ inode'[j].parent < nextIno'
    <3>1. Live(j) /\ j # x /\ inode'[j].name = inode[j].name /\ inode'[j].parent = inode[j].parent
          /\ inode[j].name \in Names /\ inode[j].parent \in Inos
      BY <1>9, <2>4, InodeTypes
    <3>2. index[<<inode[j].parent, inode[j].name>>] = j /\ inode[j].parent < nextIno
      BY <1>0, <2>4, <3>1 DEF TableFits
    <3>3. ~(inode[j].parent = p /\ inode[j].name = n)
      BY <1>1, <3>1, <3>2
    <3> QED
      BY <1>2, <1>12, <3>1, <3>2, <3>3
  <2>5. ASSUME NEW r \in Inos, NEW m \in Names, index'[<<r, m>>] # NoIno
        PROVE  (Places(index[<<r, m>>], r))' /\ inode'[index'[<<r, m>>]].name = m
    <3>1. index'[<<r, m>>] = index[<<r, m>>] /\ ~(r = p /\ m = n)
      BY <1>12, <2>5
    <3>2. PICK j : j = index[<<r, m>>]
      OBVIOUS
    <3>3. j \in Inos /\ Places(j, r) /\ Live(j) /\ j # RootIno /\ inode[j].parent = r /\ inode[j].name = m
      BY <1>0, <2>5, <3>1, <3>2, IndexPlaces
    <3>4. j # x
      BY <1>3, <3>1, <3>3
    <3>5. (Live(j))' /\ inode'[j].parent = r /\ inode'[j].name = m
      BY <1>9, <3>3, <3>4
    <3> QED
      BY <3>1, <3>2, <3>3, <3>5 DEF Places, Live
  <2>6. ASSUME NEW r \in Inos, (IsFolder(r))'
        PROVE  inode'[r].listed /\ inode'[r].children = {j \in Inos : (Places(j, r))'}
    <3>1. IsFolder(r) /\ r # x
      BY <1>9, <2>6
    <3>2. inode[r].listed /\ inode[r].children = {j \in Inos : Places(j, r)}
      BY <1>0, <3>1 DEF TableFits
    <3>3. r # p => ~Places(x, r)
      BY <1>3 DEF Places
    <3> QED
      BY <1>9, <1>10, <3>1, <3>2, <3>3
  <2> QED
    BY <2>1, <2>2, <2>3, <2>4, <2>5, <2>6 DEF TableFits
<1>15. Moves({p}, NoIno, x)
  <2>1. removed' = removed \cup {inode[j].of : j \in {x} \cap Inos}
    BY <1>2, <1>3
  <2> QED
    BY <1>2, <1>3, <1>4, <1>9, <1>13, <1>14, <2>1, Numbers DEF Moves
<1> QED
  BY <1>2, <1>15, MovesTimely

(* The entry that is renamed                                                *)
LEMMA NamedPlaces ==
    ASSUME MountInv, TableFits, NEW p \in Inos, IsFolder(p), NEW n \in Names, NEW i, i = Named(p, n), i # NoIno
    PROVE  /\ i \in Inos /\ Places(i, p) /\ Live(i) /\ i # RootIno /\ i # p /\ inode[i].parent = p
           /\ inode[i].name \in Names /\ index[<<p, inode[i].name>>] = i
<1>1. CASE index[<<p, n>>] # NoIno
  <2>1. i = index[<<p, n>>]
    BY <1>1 DEF Named
  <2> QED
    BY <2>1, IndexPlaces
<1>2. CASE index[<<p, n>>] = NoIno
  <2>1. PICK ends : ends = {j \in inode[p].children : <<inode[j].name, n>> \in SuffixOf}
    OBVIOUS
  <2>2. Cardinality(ends) = 1 /\ i = CHOOSE j \in ends : TRUE
    BY <1>2, <2>1 DEF Named
  <2>3. ends # {}
    BY <2>2, FS_EmptySet
  <2>4. i \in inode[p].children
    BY <2>1, <2>2, <2>3
  <2> QED
    BY <2>4, ChildPlaces
<1> QED
  BY <1>1, <1>2

LEMMA RenameTimely ==
    ASSUME MountInv, MountInv', TimelyFits, NEW p \in Inos, NEW n \in Names, NEW q \in Inos, NEW m \in Names,
           Rename(p, n, q, m), ~rushed'
    PROVE  TimelyFits'
<1>0. TableFits
  BY DEF TimelyFits, DeletedFits
<1>1. PICK i : i = Named(p, n)
  OBVIOUS
<1>2. PICK dest : dest = index[<<q, m>>]
  OBVIOUS
<1>3. PICK cleared : cleared = IF dest = NoIno THEN inode ELSE RemoveInode(inode, dest)
  OBVIOUS
<1>4. PICK names : names = IF dest = NoIno THEN index ELSE RemoveName(index, dest)
  OBVIOUS
<1>5. PICK moved : moved = [cleared[i] EXCEPT !.name = m, !.parent = q]
  OBVIOUS
<1>6. PICK left : left = [cleared[p] EXCEPT !.children = @ \ {i}]
  OBVIOUS
<1>7. PICK joined : joined = [cleared[q] EXCEPT !.children = @ \cup {i}]
  OBVIOUS
<1>8. PICK table : table = [j \in Inos |->
                    IF j = i THEN moved
                    ELSE IF p = q THEN cleared[j]
                    ELSE IF j = p THEN left
                    ELSE IF j = q /\ cleared[q].listed THEN joined
                    ELSE cleared[j]]
  OBVIOUS
<1>9. /\ Serving /\ IsFolder(p) /\ IsFolder(q)
      /\ i # NoIno /\ Live(i) /\ q \notin Under(i)
      /\ dest # i
      /\ dest # NoIno => ~IsFolder(dest) \/ inode[dest].children = {}
      /\ inode' = table
      /\ index' = [names EXCEPT ![<<p, inode[i].name>>] = NoIno, ![<<q, m>>] = i]
      /\ removed' = removed \cup (IF dest # NoIno /\ Live(dest) THEN {inode[dest].of} ELSE {})
      /\ UpdateFolders(table, {p, q})
      /\ UNCHANGED <<record, nextIno, mount, queue, open, seqCache, asked,
                     fetched, used, acked, made, gone, mishaps>>
  BY <1>1, <1>2, <1>3, <1>4, <1>5, <1>6, <1>7, <1>8 DEF Rename
<1>10. /\ mutated' = mutated \cup {p, q} /\ threads' = threads \cup {Publishing(inode', r, None) : r \in {p, q}}
       /\ \A r \in {p, q} : inode[r].loaded /\ \A t \in threads : t.of # inode[r].of
  BY <1>9, PublishesMade
<1>11. /\ i \in Inos /\ Places(i, p) /\ i # RootIno /\ i # p /\ inode[i].parent = p
       /\ inode[i].name \in Names /\ index[<<p, inode[i].name>>] = i
  BY <1>0, <1>1, <1>9, NamedPlaces
<1>12. q # i /\ ~(p = q /\ inode[i].name = m)
  BY <1>2, <1>9, <1>11 DEF Under
<1>13. dest # NoIno => /\ dest \in Inos /\ Places(dest, q) /\ Live(dest) /\ dest # RootIno /\ dest # q
                       /\ inode[dest].parent = q /\ inode[dest].name = m
  BY <1>0, <1>2, IndexPlaces
<1>14. /\ inode \in [Inos -> Inode] /\ index \in [Inos \X Names -> Inos \cup {NoIno}] /\ NoIno \notin Inos
       /\ i < nextIno /\ q < nextIno /\ nextIno \in Nat
  BY <1>9, <1>11, InodeTypes DEF MountInv, FitTree, FitTable, FitNumbers
<1>15. dest \in Inos /\ IsFolder(dest) => \A j \in Inos : ~Places(j, dest)
  BY <1>0, <1>9, <1>14 DEF TableFits
<1>16. p # dest /\ q # dest
  <2>1. dest \in Inos /\ IsFolder(dest) => dest # p
    BY <1>11, <1>15
  <2> QED
    BY <1>9, <1>13, <1>14, <2>1
(* The table without the entry replaced                                     *)
<1>17. PICK cut : cut = [inode[q] EXCEPT !.children = @ \ {dest}]
  OBVIOUS
<1>18. /\ cut \in Inode /\ cut.kind = inode[q].kind /\ cut.of = inode[q].of /\ cut.name = inode[q].name
       /\ cut.parent = inode[q].parent /\ cut.listed = inode[q].listed /\ cut.loaded = inode[q].loaded
       /\ cut.children = inode[q].children \ {dest}
  BY <1>14, <1>17 DEF Inode
<1>19. \A j \in Inos : cleared[j] = IF j = dest THEN Free ELSE IF j = q /\ dest # NoIno THEN cut ELSE inode[j]
  BY <1>3, <1>13, <1>14, <1>17 DEF RemoveInode
<1>20. \A j \in Inos : cleared[j] \in Inode
  BY <1>14, <1>18, <1>19, FreeInode
<1>21. \A j \in Inos \ {dest} :
         /\ cleared[j].kind = inode[j].kind /\ cleared[j].of = inode[j].of /\ cleared[j].name = inode[j].name
         /\ cleared[j].parent = inode[j].parent /\ cleared[j].listed = inode[j].listed
         /\ cleared[j].loaded = inode[j].loaded
         /\ cleared[j].children = IF j = q THEN inode[q].children \ {dest} ELSE inode[j].children
  <2>1. inode[q].children \subseteq Inos
    BY <1>14 DEF Inode
  <2>2. dest = NoIno => inode[q].children \ {dest} = inode[q].children
    BY <1>14, <2>1
  <2>3. \A j \in Inos \ {dest} : cleared[j] = IF j = q /\ dest # NoIno THEN cut ELSE inode[j]
    BY <1>19
  <2> QED
    BY <1>18, <2>2, <2>3
<1>22. dest \in Inos => cleared[dest].kind = "free"
  BY <1>19, FreeInode
<1>23. /\ moved.kind = cleared[i].kind /\ moved.of = cleared[i].of /\ moved.name = m /\ moved.parent = q
       /\ moved.listed = cleared[i].listed /\ moved.loaded = cleared[i].loaded
       /\ moved.children = cleared[i].children
  BY <1>5, <1>11, <1>20 DEF Inode
<1>24. /\ left.kind = cleared[p].kind /\ left.of = cleared[p].of /\ left.name = cleared[p].name
       /\ left.parent = cleared[p].parent /\ left.listed = cleared[p].listed /\ left.loaded = cleared[p].loaded
       /\ left.children = cleared[p].children \ {i}
  BY <1>6, <1>20 DEF Inode
<1>25. /\ joined.kind = cleared[q].kind /\ joined.of = cleared[q].of /\ joined.name = cleared[q].name
       /\ joined.parent = cleared[q].parent /\ joined.listed = cleared[q].listed
       /\ joined.loaded = cleared[q].loaded /\ joined.children = cleared[q].children \cup {i}
  BY <1>7, <1>20 DEF Inode
<1>26. \A j \in Inos : inode'[j] = IF j = i THEN moved
                                   ELSE IF p = q THEN cleared[j]
                                   ELSE IF j = p THEN left
                                   ELSE IF j = q /\ cleared[q].listed THEN joined
                                   ELSE cleared[j]
  BY <1>8, <1>9
<1>27. ASSUME NEW j \in Inos
       PROVE  /\ inode'[j].kind = cleared[j].kind /\ inode'[j].of = cleared[j].of
              /\ inode'[j].listed = cleared[j].listed /\ inode'[j].loaded = cleared[j].loaded
              /\ j # i => inode'[j].name = cleared[j].name /\ inode'[j].parent = cleared[j].parent
  BY <1>23, <1>24, <1>25, <1>26
<1>28. \A j \in Inos :
         /\ ((Live(j))' <=> Live(j) /\ j # dest) /\ ((IsFolder(j))' <=> IsFolder(j) /\ j # dest)
         /\ j # dest => /\ inode'[j].of = inode[j].of /\ inode'[j].loaded = inode[j].loaded
                        /\ inode'[j].listed = inode[j].listed
                        /\ j # i => inode'[j].name = inode[j].name /\ inode'[j].parent = inode[j].parent
  BY <1>21, <1>22, <1>27 DEF Live, IsFolder
<1>29. inode'[i].name = m /\ inode'[i].parent = q /\ (Live(i))'
  BY <1>9, <1>11, <1>23, <1>26, <1>28
<1>30. \A j, r \in Inos : (Places(j, r))' <=> \/ j = i /\ r = q
                                              \/ j # i /\ j # dest /\ Places(j, r)
  BY <1>11, <1>28, <1>29 DEF Places
<1>31. \A r \in Inos, k \in Names :
         index'[<<r, k>>] = IF r = q /\ k = m THEN i
                            ELSE IF r = p /\ k = inode[i].name THEN NoIno ELSE index[<<r, k>>]
  <2>1. names \in [Inos \X Names -> Inos \cup {NoIno}]
    BY <1>4, <1>14 DEF RemoveName
  <2>2. \A r \in Inos, k \in Names : ~(r = q /\ k = m) => names[<<r, k>>] = index[<<r, k>>]
    BY <1>4, <1>13, <1>14 DEF RemoveName
  <2>3. \A r \in Inos, k \in Names :
          index'[<<r, k>>] = IF r = q /\ k = m THEN i
                             ELSE IF r = p /\ k = inode[i].name THEN NoIno ELSE names[<<r, k>>]
    <3>1. PICK once : once = [names EXCEPT ![<<p, inode[i].name>>] = NoIno]
      OBVIOUS
    <3>2. \A r \in Inos, k \in Names :
            once[<<r, k>>] = IF r = p /\ k = inode[i].name THEN NoIno ELSE names[<<r, k>>]
      BY <1>11, <2>1, <3>1
    <3>3. once \in [Inos \X Names -> Inos \cup {NoIno}] /\ index' = [once EXCEPT ![<<q, m>>] = i]
      BY <1>9, <1>11, <2>1, <3>1
    <3> QED
      BY <1>11, <3>2, <3>3
  <2> SUFFICES ASSUME NEW r \in Inos, NEW k \in Names
               PROVE  index'[<<r, k>>] = IF r = q /\ k = m THEN i
                            ELSE IF r = p /\ k = inode[i].name THEN NoIno ELSE index[<<r, k>>]
    OBVIOUS
  <2>4. CASE r = q /\ k = m
    BY <2>3, <2>4
  <2>5. CASE ~(r = q /\ k = m)
    BY <2>2, <2>3, <2>5
  <2> QED
    BY <2>4, <2>5
<1>32. ASSUME NEW r \in Inos, IsFolder(r), r # dest, NEW j \in Inos
       PROVE  j \in inode'[r].children <=> (Places(j, r))'
  <2>1. j \in cleared[r].children <=> Places(j, r) /\ j # dest
    <3>1. j \in inode[r].children <=> Places(j, r)
      BY <1>0, <1>32 DEF TableFits
    <3>2. r # q /\ j = dest => ~Places(j, r)
      BY <1>13, <1>14 DEF Places
    <3> QED
      BY <1>21, <1>32, <3>1, <3>2
  <2>2. Places(i, r) <=> r = p
    BY <1>11 DEF Places
  <2>3. CASE r = i
    BY <1>11, <1>12, <1>23, <1>26, <1>30, <2>1, <2>2, <2>3
  <2>4. CASE r # i /\ p = q
    BY <1>9, <1>26, <1>30, <2>1, <2>2, <2>4
  <2>5. CASE r # i /\ p # q /\ r = p
    BY <1>24, <1>26, <1>30, <2>1, <2>5
  <2>6. CASE r # i /\ p # q /\ r = q
    <3>1. cleared[q].listed
      BY <1>0, <1>9, <1>16, <1>21 DEF TableFits
    <3> QED
      BY <1>25, <1>26, <1>30, <2>1, <2>2, <2>6, <3>1
  <2>7. CASE r # i /\ p # q /\ r # p /\ r # q
    BY <1>26, <1>30, <2>1, <2>2, <2>7
  <2> QED
    BY <2>3, <2>4, <2>5, <2>6, <2>7
<1>33. TableFits'
  <2>1. (IsFolder(RootIno))' /\ inode'[RootIno].of = Root
    BY <1>0, <1>13, <1>14, <1>28, Numbers DEF TableFits
  <2>2. \A j, k \in Inos : (Live(j))' /\ (Live(k))' /\ inode'[j].of = inode'[k].of => j = k
    BY <1>0, <1>28 DEF TableFits
  <2>3. ASSUME NEW j \in Inos, (Live(j))' PROVE inode'[j].of \notin removed'
    <3>1. Live(j) /\ j # dest /\ inode'[j].of = inode[j].of
      BY <1>28, <2>3
    <3> QED
      BY <1>0, <1>9, <1>13, <3>1 DEF TableFits
  <2>4. ASSUME NEW j \in Inos, (Live(j))', j # RootIno
        PROVE  index'[<<inode'[j].parent, inode'[j].name>>] = j /\ inode'[j].parent < nextIno'
    <3>1. CASE j = i
      BY <1>9, <1>14, <1>29, <1>31, <3>1
    <3>2. CASE j # i
      <4>1. Live(j) /\ j # dest /\ inode'[j].name = inode[j].name /\ inode'[j].parent = inode[j].parent
            /\ inode[j].name \in Names /\ inode[j].parent \in Inos
        BY <1>28, <2>4, <3>2, InodeTypes
      <4>2. index[<<inode[j].parent, inode[j].name>>] = j /\ inode[j].parent < nextIno
        BY <1>0, <2>4, <4>1 DEF TableFits
      <4>3. ~(inode[j].parent = q /\ inode[j].name = m) /\ ~(inode[j].parent = p /\ inode[j].name = inode[i].name)
        BY <1>2, <1>11, <3>2, <4>1, <4>2
      <4> QED
        BY <1>9, <1>31, <4>1, <4>2, <4>3
    <3> QED
      BY <3>1, <3>2
  <2>5. ASSUME NEW r \in Inos, NEW k \in Names, index'[<<r, k>>] # NoIno
        PROVE  (Places(index[<<r, k>>], r))' /\ inode'[index'[<<r, k>>]].name = k
    <3>1. CASE r = q /\ k = m
      <4>1. index'[<<r, k>>] = i
        BY <1>31, <3>1
      <4> QED
        BY <1>11, <1>29, <3>1, <4>1 DEF Places, Live
    <3>2. CASE ~(r = q /\ k = m)
      <4>1. index'[<<r, k>>] = index[<<r, k>>] /\ ~(r = p /\ k = inode[i].name)
        BY <1>31, <2>5, <3>2
      <4>2. PICK j : j = index[<<r, k>>]
        OBVIOUS
      <4>3. j \in Inos /\ Places(j, r) /\ Live(j) /\ j # RootIno /\ inode[j].parent = r /\ inode[j].name = k
        BY <1>0, <2>5, <4>1, <4>2, IndexPlaces
      <4>4. j # i /\ j # dest
        BY <1>11, <1>13, <1>14, <3>2, <4>1, <4>3
      <4>5. (Live(j))' /\ inode'[j].parent = r /\ inode'[j].name = k
        BY <1>28, <4>3, <4>4
      <4> QED
        BY <4>1, <4>2, <4>3, <4>5 DEF Places, Live
    <3> QED
      BY <3>1, <3>2
  <2>6. ASSUME NEW r \in Inos, (IsFolder(r))'
        PROVE  inode'[r].listed /\ inode'[r].children = {j \in Inos : (Places(j, r))'}
    <3>1. IsFolder(r) /\ r # dest
      BY <1>28, <2>6
    <3>2. inode'[r].listed
      BY <1>0, <1>28, <3>1 DEF TableFits
    <3>3. inode'[r].children \subseteq Inos
      <4>1. inode' \in [Inos -> Inode]
        BY DEF MountInv, FitTree, FitTable
      <4> QED
        BY <4>1 DEF Inode
    <3> QED
      BY <1>32, <3>1, <3>2, <3>3
  <2> QED
    BY <2>1, <2>2, <2>3, <2>4, <2>5, <2>6 DEF TableFits
<1>34. Moves({p, q}, i, dest)
  <2>1. removed' = removed \cup {inode[j].of : j \in {dest} \cap Inos}
    BY <1>9, <1>13, <1>14
  <2>2. dest \in Inos => Live(dest) /\ dest # RootIno /\ inode[dest].parent \in {p, q}
    BY <1>13, <1>14
  <2>3. \A r \in {p, q} : IsFolder(r) /\ inode[r].loaded /\ r # dest /\ \A t \in threads : t.of # inode[r].of
    BY <1>9, <1>10, <1>16
  <2>4. \A j \in Inos : (Live(j))' =>
         /\ inode'[j].of = inode[j].of /\ inode'[j].loaded = inode[j].loaded
         /\ j # i => inode'[j].name = inode[j].name /\ inode'[j].parent = inode[j].parent
    BY <1>28
  <2> QED
    BY <1>9, <1>10, <1>11, <1>15, <1>28, <1>29, <1>33, <2>1, <2>2, <2>3, <2>4 DEF Moves
<1>35. UNCHANGED <<record, mount, queue, open, seqCache, asked, fetched, used, made, gone>>
  BY <1>9
<1> QED
  BY <1>9, <1>34, <1>35, MovesTimely

(* A new entry at the next number x                                         *)
Inserted(p, x, node) ==
    /\ x \in Inos /\ x = nextIno /\ ~Live(x) /\ x # p /\ x # RootIno
    /\ \A j \in Inos : /\ ((Live(j))' <=> Live(j) \/ j = x)
                       /\ ((IsFolder(j))' <=> IsFolder(j) \/ (j = x /\ node.kind = "folder"))
                       /\ j # x => /\ inode'[j].of = inode[j].of /\ inode'[j].loaded = inode[j].loaded
                                   /\ inode'[j].name = inode[j].name /\ inode'[j].parent = inode[j].parent
    /\ inode'[x].of = node.of /\ inode'[x].loaded = node.loaded
    /\ inode'[x].name = node.name /\ inode'[x].parent = p
    /\ \A j, r \in Inos : (Places(j, r))' <=> Places(j, r) \/ (j = x /\ r = p)
    /\ TableFits'

LEMMA InsertGrows ==
    ASSUME MountInv, MountInv', TableFits, NEW p \in Inos, IsFolder(p), NEW node \in Inode,
           node.parent = p, node.kind \in {"folder", "file"}, node.of \notin used, node.children = {},
           node.kind = "folder" => node.listed, InsertInode(p, node), index[<<p, node.name>>] = NoIno,
           UNCHANGED removed
    PROVE  Inserted(p, nextIno, node)
<1>1. PICK x : x = nextIno
  OBVIOUS
<1>2. PICK grown : grown = [inode[p] EXCEPT !.children = IF inode[p].listed THEN @ \cup {x} ELSE @]
  OBVIOUS
<1>3. /\ inode \in [Inos -> Inode] /\ index \in [Inos \X Names -> Inos \cup {NoIno}] /\ node.name \in Names
      /\ x \in Inos /\ x \in Nat /\ nextIno' = x + 1
  BY <1>1, Numbers DEF MountInv, FitTree, FitTable, FitNumbers, InsertInode, Inode
<1>4. ~Live(x) /\ x # p /\ x # RootIno /\ p < x /\ RootIno # NoIno
  <2>1. ~Live(x)
    BY <1>1, <1>3, Numbers DEF Live, MountInv, FitTree, FitNumbers
  <2>2. IsFolder(RootIno) /\ RootIno \in Inos
    BY Numbers DEF TableFits
  <2> QED
    BY <1>1, <2>1, <2>2, InodeTypes
<1>5. /\ grown.kind = inode[p].kind /\ grown.of = inode[p].of /\ grown.name = inode[p].name
      /\ grown.parent = inode[p].parent /\ grown.listed = inode[p].listed /\ grown.loaded = inode[p].loaded
      /\ grown.children = inode[p].children \cup {x}
  <2>1. inode[p].listed
    BY DEF TableFits
  <2> QED
    BY <1>2, <1>3, <2>1 DEF Inode
<1>6. \A j \in Inos : inode'[j] = IF j = x THEN node ELSE IF j = p THEN grown ELSE inode[j]
  BY <1>1, <1>2, <1>3, <1>4 DEF InsertInode
<1>7. \A j \in Inos : /\ ((Live(j))' <=> Live(j) \/ j = x)
                      /\ ((IsFolder(j))' <=> IsFolder(j) \/ (j = x /\ node.kind = "folder"))
                      /\ j # x => /\ inode'[j].of = inode[j].of /\ inode'[j].loaded = inode[j].loaded
                                  /\ inode'[j].name = inode[j].name /\ inode'[j].parent = inode[j].parent
                                  /\ inode'[j].listed = inode[j].listed
                                  /\ inode'[j].children = IF j = p THEN inode[j].children \cup {x}
                                                          ELSE inode[j].children
  BY <1>4, <1>5, <1>6 DEF Live, IsFolder
<1>8. inode'[x] = node
  BY <1>3, <1>6
<1>9. \A j, r \in Inos : (Places(j, r))' <=> Places(j, r) \/ (j = x /\ r = p)
  BY <1>4, <1>7, <1>8 DEF Places
<1>10. \A r \in Inos, k \in Names :
         index'[<<r, k>>] = IF r = p /\ k = node.name THEN x ELSE index[<<r, k>>]
  BY <1>1, <1>3 DEF InsertInode
<1>11. ASSUME NEW j \in Inos, Live(j) PROVE j # x /\ inode[j].of # node.of /\ inode[j].of \in used
  BY <1>4, <1>11, InodeTypes
<1>12. TableFits'
  <2>1. (IsFolder(RootIno))' /\ inode'[RootIno].of = Root
    BY <1>4, <1>7, Numbers DEF TableFits
  <2>2. \A j, k \in Inos : (Live(j))' /\ (Live(k))' /\ inode'[j].of = inode'[k].of => j = k
    <3>1. \A j, k \in Inos : Live(j) /\ Live(k) /\ inode[j].of = inode[k].of => j = k
      BY DEF TableFits
    <3>2. \A j \in Inos : Live(j) => j # x /\ inode[j].of # node.of
      BY <1>11
    <3>3. \A j \in Inos : (Live(j))' => inode'[j].of = IF j = x THEN node.of ELSE inode[j].of
      BY <1>7, <1>8
    <3>4. \A j \in Inos : (Live(j))' => Live(j) \/ j = x
      BY <1>7
    <3> QED
      BY <3>1, <3>2, <3>3, <3>4
  <2>3. ASSUME NEW j \in Inos, (Live(j))' PROVE inode'[j].of \notin removed'
    <3>1. node.of \notin removed
      BY DEF MountInv, FitSets
    <3> QED
      BY <1>7, <1>8, <2>3, <3>1 DEF TableFits
  <2>4. ASSUME NEW j \in Inos, (Live(j))', j # RootIno
        PROVE  index'[<<inode'[j].parent, inode'[j].name>>] = j /\ inode'[j].parent < nextIno'
    <3>1. CASE j = x
      BY <1>3, <1>4, <1>8, <1>10, <3>1, Numbers
    <3>2. CASE j # x
      <4>1. Live(j) /\ inode'[j].name = inode[j].name /\ inode'[j].parent = inode[j].parent
            /\ inode[j].name \in Names /\ inode[j].parent \in Inos
        BY <1>7, <2>4, <3>2, InodeTypes
      <4>2. index[<<inode[j].parent, inode[j].name>>] = j /\ inode[j].parent < x /\ j # NoIno
        BY <1>1, <2>4, <4>1, Numbers DEF TableFits
      <4>3. ~(inode[j].parent = p /\ inode[j].name = node.name)
        BY <4>2
      <4> QED
        BY <1>3, <1>10, <4>1, <4>2, <4>3, Numbers
    <3> QED
      BY <3>1, <3>2
  <2>5. ASSUME NEW r \in Inos, NEW k \in Names, index'[<<r, k>>] # NoIno
        PROVE  (Places(index[<<r, k>>], r))' /\ inode'[index'[<<r, k>>]].name = k
    <3>1. CASE r = p /\ k = node.name
      <4>1. index'[<<r, k>>] = x
        BY <1>10, <3>1
      <4>2. (Live(x))' /\ inode'[x].parent = p /\ inode'[x].name = k
        BY <1>3, <1>7, <1>8, <3>1
      <4> QED
        BY <1>4, <3>1, <4>1, <4>2 DEF Places, Live
    <3>2. CASE ~(r = p /\ k = node.name)
      <4>1. index'[<<r, k>>] = index[<<r, k>>]
        BY <1>10, <3>2
      <4>2. PICK j : j = index[<<r, k>>]
        OBVIOUS
      <4>3. j \in Inos /\ Places(j, r) /\ Live(j) /\ j # RootIno /\ inode[j].parent = r /\ inode[j].name = k
        BY <2>5, <4>1, <4>2, IndexPlaces
      <4>4. (Live(j))' /\ inode'[j].parent = r /\ inode'[j].name = k
        BY <1>7, <1>11, <4>3
      <4> QED
        BY <4>1, <4>2, <4>3, <4>4 DEF Places, Live
    <3> QED
      BY <3>1, <3>2
  <2>6. ASSUME NEW r \in Inos, (IsFolder(r))'
        PROVE  inode'[r].listed /\ inode'[r].children = {j \in Inos : (Places(j, r))'}
    <3>1. CASE r = x
      <4>1. node.listed
        BY <1>4, <1>7, <2>6, <3>1 DEF Live, IsFolder
      <4>2. \A j \in Inos : ~(Places(j, r))'
        <5>1. \A j \in Inos : Live(j) /\ j # RootIno => inode[j].parent < x
          BY <1>1 DEF TableFits
        <5>2. \A j \in Inos : ~Places(j, x)
          BY <1>3, <5>1 DEF Places
        <5> QED
          BY <1>4, <1>9, <3>1, <5>2
      <4> QED
        BY <1>8, <3>1, <4>1, <4>2
    <3>2. CASE r # x
      <4>1. IsFolder(r)
        BY <1>7, <2>6, <3>2
      <4>2. inode[r].listed /\ inode[r].children = {j \in Inos : Places(j, r)}
        BY <4>1 DEF TableFits
      <4> QED
        <5>1. inode'[r].listed = inode[r].listed
          BY <1>7, <3>2
        <5>2. inode'[r].children = IF r = p THEN inode[r].children \cup {x} ELSE inode[r].children
          BY <1>7, <3>2
        <5>3. CASE r = p
          BY <1>3, <1>9, <4>2, <5>1, <5>2, <5>3
        <5>4. CASE r # p
          BY <1>9, <4>2, <5>1, <5>2, <5>4
        <5> QED
          BY <5>3, <5>4
    <3> QED
      BY <3>1, <3>2
  <2> QED
    BY <2>1, <2>2, <2>3, <2>4, <2>5, <2>6 DEF TableFits
<1> QED
  BY <1>1, <1>3, <1>4, <1>7, <1>8, <1>9, <1>12 DEF Inserted

(* An entry is created: with a publish of its folder, started with the      *)
(* folder made (mkdir), or while its file is open (create)                  *)
LEMMA InsertTimely ==
    ASSUME MountInv, MountInv', TimelyFits, NEW p \in Inos, IsFolder(p), inode[p].loaded, NEW node \in Inode,
           node.of \notin used, node.kind = "folder" => node.of \in FolderIds /\ node.loaded,
           NEW x, Inserted(p, x, node), NEW more,
           threads' = threads \cup more,
           more = {} => x \in open',
           more # {} => more = {Publishing(inode', p, node.of)} /\ node.of \in FolderIds
                        /\ \A t \in threads : t.of # inode[p].of,
           Serving, mutated \subseteq mutated', queue \subseteq mutated, open \subseteq open',
           used' = used \cup {node.of}, made' = made \cup {node.of},
           UNCHANGED <<record, mount, queue, seqCache, asked, fetched, removed, gone>>
    PROVE  TimelyFits'
<1>0. /\ TableFits /\ RefreshesFit /\ ThreadsFit /\ ListingsFit /\ VaultFits
      /\ ClaimsFit /\ OrphansFit
  BY DEF TimelyFits, DeletedFits
<1>1. /\ x \in Inos /\ x = nextIno /\ ~Live(x) /\ x # p /\ x # RootIno
      /\ \A j \in Inos : /\ ((Live(j))' <=> Live(j) \/ j = x)
                         /\ ((IsFolder(j))' <=> IsFolder(j) \/ (j = x /\ node.kind = "folder"))
                         /\ j # x => /\ inode'[j].of = inode[j].of /\ inode'[j].loaded = inode[j].loaded
                                     /\ inode'[j].name = inode[j].name /\ inode'[j].parent = inode[j].parent
      /\ inode'[x].of = node.of /\ inode'[x].loaded = node.loaded
      /\ inode'[x].name = node.name /\ inode'[x].parent = p
      /\ \A j, r \in Inos : (Places(j, r))' <=> Places(j, r) \/ (j = x /\ r = p)
      /\ TableFits'
  BY DEF Inserted
<1>2. \A j \in Inos : IsFolder(j) => Live(j) /\ j # x /\ inode[j].of \in FolderIds /\ inode[j].of \in used
                                     /\ inode[j].of # node.of
  BY <1>1, InodeTypes
<1>3. \A j \in Inos : Entered(j) = [name |-> inode[j].name, of |-> inode[j].of]
                      /\ Entered(j)' = [name |-> inode'[j].name, of |-> inode'[j].of]
  BY <1>1 DEF Entered
<1>4. removed \subseteq used /\ gone \subseteq used /\ made \subseteq used /\ VaultIds \subseteq used /\ Root \in used
  BY <1>0 DEF MountInv, FitSets, VaultFits, ChildrenFit
<1>5. \A j \in Inos : ~Places(j, x)
  <2>1. \A j \in Inos : Live(j) /\ j # RootIno => inode[j].parent < x
    BY <1>0, <1>1 DEF TableFits
  <2> QED
    BY <1>1, <2>1, Numbers DEF Places
<1>6. (IsFolder(p))' /\ inode'[p].of = inode[p].of
  BY <1>1
(* The publish that is started                                              *)
<1>7. \A t \in more : /\ t.of = inode[p].of /\ t.child = node.of /\ t.child # None /\ t.stage = "child"
                      /\ t.children = Snapshot(inode', p) /\ node.of \in FolderIds
                      /\ \A u \in threads : u.of # inode[p].of
  BY <1>6, MountAssumption DEF Publishing
<1>8. ASSUME NEW d PROVE (Changed(d))' <=> Changed(d)
  BY <1>7 DEF Changed
<1>9. ASSUME NEW d, NEW c, (Told(d, c))' PROVE Told(d, c)
  BY <1>8, <1>9 DEF Told
<1>10. ASSUME NEW d \in FolderIds, NEW c \in Entry, Claimed(d, c) PROVE c.of # node.of /\ c.of \in used
  BY <1>10, ClaimsUsed
(* What the table shows                                                     *)
<1>11. ASSUME NEW r \in Inos, NEW c
       PROVE  (Shows(r, c))' <=> Shows(r, c) \/ (r = p /\ c.name = node.name /\ c.of = node.of)
  <2>1. \A j \in Inos : Places(j, r) => inode'[j].name = inode[j].name /\ inode'[j].of = inode[j].of
    BY <1>1 DEF Places
  <2> QED
    BY <1>1, <2>1 DEF Shows
<1>12. ASSUME NEW d, NEW c
       PROVE  /\ HeldAt(d, c) => (HeldAt(d, c))'
              /\ (HeldAt(d, c))' => \/ HeldAt(d, c)
                                    \/ d = inode[p].of /\ c.name = node.name /\ c.of = node.of
  <2>1. \A r \in Inos : IsFolder(r) => (IsFolder(r))' /\ inode'[r].of = inode[r].of
    BY <1>1, <1>2
  <2>2. \A r \in Inos : (IsFolder(r))' /\ r # x => IsFolder(r) /\ inode'[r].of = inode[r].of
    BY <1>1
  <2>3. ~Shows(x, c)
    BY <1>5 DEF Shows
  <2>4. HeldAt(d, c) => (HeldAt(d, c))'
    BY <1>11, <2>1 DEF HeldAt
  <2>5. ASSUME (HeldAt(d, c))' PROVE HeldAt(d, c) \/ (d = inode[p].of /\ c.name = node.name /\ c.of = node.of)
    <3>1. PICK r \in Inos : (IsFolder(r))' /\ inode'[r].of = d /\ (Shows(r, c))'
      BY <2>5 DEF HeldAt
    <3>2. r # x
      BY <1>1, <1>11, <2>3, <3>1
    <3> QED
      BY <1>11, <2>2, <3>1, <3>2 DEF HeldAt
  <2> QED
    BY <2>4, <2>5
<1>13. ClaimsFit'
  <2>1. ASSUME NEW d, NEW c, (Claimed(d, c))'
        PROVE  Claimed(d, c) \/ (d = inode[p].of /\ c.name = node.name /\ c.of = node.of)
    BY <1>9, <1>12, <2>1 DEF Claimed
  <2>2. ASSUME NEW d \in FolderIds, NEW e \in FolderIds, NEW b \in Entry, NEW c \in Entry,
               (Claimed(d, b))', (Claimed(e, c))', b.of = c.of
        PROVE  d = e /\ b = c
    <3>1. CASE Claimed(d, b) /\ Claimed(e, c)
      BY <1>0, <2>2, <3>1 DEF ClaimsFit
    <3>2. CASE ~(Claimed(d, b) /\ Claimed(e, c))
      <4>1. b.of = node.of
        BY <2>1, <2>2, <3>2
      <4>2. ~Claimed(d, b) /\ ~Claimed(e, c)
        BY <1>10, <2>2, <4>1
      <4> QED
        BY <2>1, <2>2, <4>2, EntryIs
    <3> QED
      BY <3>1, <3>2
  <2>3. ASSUME NEW d \in FolderIds, NEW c \in Entry, (Claimed(d, c))' PROVE c.of \notin removed' /\ c.of # Root
    BY <1>0, <1>4, <2>1, <2>3 DEF ClaimsFit
  <2> QED
    BY <2>2, <2>3 DEF ClaimsFit
<1>14. ListingsFit'
  <2>1. \A t \in threads' : NamesDiffer(t.children)
    BY <1>0, <1>1, <1>6, <1>7, NewSnapshotShows DEF ListingsFit
  <2> QED
    BY <1>0, <2>1 DEF ListingsFit, NamesDiffer
<1>15. OrphansFit'
  <2> SUFFICES ASSUME NEW j \in Inos, (Orphan(j))', NEW d \in FolderIds, NEW c \in Entry,
                      (Told(d, c))', c.of = inode'[j].of
               PROVE  /\ c.name = inode'[j].name /\ d \in removed'
                      /\ \A r \in (asked \cup fetched)' : r.of = d => r.ino = inode'[j].parent
    BY DEF OrphansFit
  <2>1. (Live(j))' /\ j # RootIno /\ ~(IsFolder(inode[j].parent))'
    BY DEF Orphan
  <2>2. j # x
    BY <1>1, <1>6, <2>1 DEF IsFolder
  <2>3. Live(j) /\ inode'[j].of = inode[j].of /\ inode'[j].name = inode[j].name /\ inode'[j].parent = inode[j].parent
        /\ inode[j].parent \in Inos
    BY <1>1, <2>1, <2>2, InodeTypes
  <2>4. ~IsFolder(inode[j].parent)
    BY <1>1, <2>1, <2>3 DEF IsFolder
  <2>5. Orphan(j) /\ Told(d, c) /\ c.of = inode[j].of
    BY <1>9, <2>1, <2>3, <2>4 DEF Orphan
  <2> QED
    BY <1>0, <2>3, <2>5 DEF OrphansFit
<1>16. RefreshesFit'
  <2>1. ASSUME NEW r \in asked \cup fetched
        PROVE  IF (Live(r.ino))' THEN (IsFolder(r.ino))' /\ r.of = inode'[r.ino].of ELSE r.of \in removed'
    <3>1. r.ino \in Inos /\ r.ino # x
      BY <1>1, OtherTypes, InodeTypes
    <3> QED
      BY <1>0, <1>1, <3>1 DEF RefreshesFit
  <2> QED
    BY <1>0, <1>8, <2>1 DEF RefreshesFit
<1>17. \A t \in threads : t.of # node.of
  BY ThreadsUsed
<1>18. ThreadsFit'
  <2>1. ASSUME NEW r \in Inos, (IsFolder(r))', (Changed(inode[r].of))' PROVE r \in mutated'
    <3>1. CASE r = x
      <4>1. PICK d : d = inode'[r].of
        OBVIOUS
      <4>2. Changed(d) /\ d = node.of
        BY <1>1, <1>8, <2>1, <3>1, <4>1
      <4> QED
        BY <1>17, <4>2 DEF Changed
    <3>2. CASE r # x
      <4>1. IsFolder(r) /\ inode'[r].of = inode[r].of
        BY <1>1, <2>1, <3>2
      <4> QED
        BY <1>0, <1>8, <2>1, <4>1 DEF ThreadsFit
    <3> QED
      BY <3>1, <3>2
  <2>2. ASSUME NEW t \in threads'
        PROVE  /\ \A c \in t.children : (HeldAt(t.of, c))'
               /\ t.of \in removed' \/ \E r \in Inos : (IsFolder(r))' /\ inode'[r].of = t.of
    <3>1. CASE t \in more
      <4>1. t.of = inode'[p].of /\ \A c \in t.children : (Shows(p, c))'
        BY <1>1, <1>6, <1>7, <3>1, NewSnapshotShows
      <4> QED
        BY <1>6, <4>1 DEF HeldAt
    <3>2. CASE t \in threads
      <4>1. \A r \in Inos : IsFolder(r) => (IsFolder(r))' /\ inode'[r].of = inode[r].of
        BY <1>1, <1>2
      <4>2. t.of \in removed \/ \E r \in Inos : IsFolder(r) /\ inode[r].of = t.of
        BY <1>0, <3>2 DEF ThreadsFit
      <4>3. \A c \in t.children : (HeldAt(t.of, c))'
        BY <1>0, <1>12, <3>2 DEF ThreadsFit
      <4> QED
        BY <4>1, <4>2, <4>3
    <3> QED
      BY <2>2, <3>1, <3>2
  <2> QED
    BY <2>1, <2>2 DEF ThreadsFit
<1>19. DeletedFits'
  <2>1. PhaseFits'
    BY DEF PhaseFits, Serving
  <2> QED
    BY <1>1, <1>13, <1>14, <1>15, <1>16, <1>18, <2>1 DEF DeletedFits
<1>20. Ours' = Ours \cup {node.of}
  BY <1>4 DEF Ours
<1>21. LoadedFits'
  <2> SUFFICES ASSUME NEW r \in Inos, (IsFolder(r))'
               PROVE  IF inode'[r].loaded
                      THEN \A c \in Entry : (Told(inode[r].of, c))' /\ c.of \in Ours' => (Shows(r, c))'
                      ELSE /\ \A t \in threads' : t.of # inode'[r].of
                           /\ \A m \in fetched' : m.ino = r => \A c \in Entry : c.of \in Ours' =>
                                 (c \in m.children <=> c \in record'[inode'[r].of].children)
    BY DEF LoadedFits
  <2>1. CASE r = x
    <3>1. node.kind = "folder" /\ node.of \in FolderIds \ used /\ inode'[r].loaded /\ inode'[r].of = node.of
      BY <1>1, <2>1 DEF IsFolder, Live
    <3>2. record[node.of].children = {}
      BY <1>0, <3>1 DEF VaultFits, ChildrenFit, Unpublished
    <3>3. \A m \in fetched : m.of # node.of
      <4>1. \A m \in fetched : m.ino \in Inos
        BY OtherTypes
      <4> QED
        BY <1>0, <1>2, <1>4, <4>1 DEF RefreshesFit
    <3>4. \A c : ~Told(node.of, c)
      BY <3>2, <3>3 DEF Told
    <3>5. ASSUME NEW c, NEW d, d = inode'[r].of PROVE ~(Told(d, c))'
      BY <1>9, <3>1, <3>4, <3>5
    <3> QED
      BY <3>1, <3>5
  <2>2. CASE r # x
    <3>1. IsFolder(r) /\ inode'[r].of = inode[r].of /\ inode'[r].loaded = inode[r].loaded
          /\ inode[r].of \in FolderIds
      BY <1>1, <1>2, <2>2
    <3>2. ASSUME inode[r].loaded, NEW d, d = inode'[r].of, NEW c \in Entry, (Told(d, c))', c.of \in Ours'
          PROVE  (Shows(r, c))'
      <4>1. Told(inode[r].of, c)
        BY <1>9, <3>1, <3>2
      <4>2. c.of # node.of
        BY <1>10, <3>1, <4>1 DEF Claimed
      <4>3. Shows(r, c)
        BY <1>0, <1>20, <3>1, <3>2, <4>1, <4>2 DEF VaultFits, LoadedFits
      <4> QED
        BY <1>11, <4>3
    <3>3. ASSUME ~inode[r].loaded
          PROVE  /\ \A t \in threads' : t.of # inode[r].of
                 /\ \A m \in fetched : m.ino = r => \A c \in Entry : c.of \in Ours' =>
                       (c \in m.children <=> c \in record[inode[r].of].children)
      <4>1. \A t \in threads : t.of # inode[r].of
        BY <1>0, <3>1, <3>3 DEF VaultFits, LoadedFits
      <4>2. inode[p].of # inode[r].of
        BY <1>0, <3>1, <3>3, OneFolder
      <4>3. \A m \in fetched : m.ino = r => \A c \in Entry : c.of \in Ours =>
                       (c \in m.children <=> c \in record[inode[r].of].children)
        BY <1>0, <3>1, <3>3 DEF VaultFits, LoadedFits
      <4>4. ASSUME NEW c \in Entry, c.of = node.of
            PROVE  c \notin record[inode[r].of].children /\ \A m \in fetched : c \notin m.children
        <5>1. /\ \A b \in record[inode[r].of].children : b.of \in used
              /\ \A m \in fetched : \A b \in m.children : b.of \in used
          BY <3>1, OtherTypes
        <5> QED
          BY <4>4, <5>1
      <4> QED
        BY <1>7, <1>20, <4>1, <4>2, <4>3, <4>4
    <3> QED
      BY <3>1, <3>2, <3>3
  <2> QED
    BY <2>1, <2>2
<1>22. SavedFits'
  <2> SUFFICES ASSUME NEW r \in Inos, NEW j \in Inos, (IsFolder(r))', (Places(j, r))', ~(Unsaved(j))'
               PROVE  /\ \/ Entered(j)' \in record'[inode'[r].of].children
                         \/ \E t \in threads' : t.of = inode'[r].of /\ Entered(j)' \in t.children
                      /\ \A t \in threads' : t.of = inode'[r].of => Entered(j)' \in t.children
    BY DEF SavedFits
  <2>0. \A t \in more : r = p => Entered(j)' \in t.children
    BY <1>1, <1>6, <1>7, NewSnapshotShows
  <2>1. CASE j = x
    <3>1. r = p /\ more # {}
      BY <1>1, <2>1 DEF Unsaved, Places
    <3>2. \A t \in threads' : t.of = inode'[r].of => t \in more
      BY <1>6, <3>1
    <3> QED
      BY <1>6, <1>7, <2>0, <3>1, <3>2
  <2>2. CASE j # x
    <3>1. Places(j, r) /\ r # x
      BY <1>1, <1>5, <2>2
    <3>2. IsFolder(r) /\ inode'[r].of = inode[r].of /\ inode'[j].name = inode[j].name /\ inode'[j].of = inode[j].of
          /\ inode'[j].parent = inode[j].parent /\ inode[j].of \in used
      BY <1>1, <2>2, <3>1, InodeTypes
    <3>3. ~Unsaved(j) /\ Entered(j)' = Entered(j)
      BY <1>3, <1>20, <3>2 DEF Unsaved
    <3>4. /\ \/ Entered(j) \in record[inode[r].of].children
             \/ \E t \in threads : t.of = inode[r].of /\ Entered(j) \in t.children
          /\ \A t \in threads : t.of = inode[r].of => Entered(j) \in t.children
      BY <1>0, <3>1, <3>2, <3>3 DEF VaultFits, SavedFits
    <3>5. \A t \in more : t.of = inode[r].of => r = p
      BY <1>0, <1>7, <3>2, OneFolder
    <3> QED
      BY <2>0, <3>2, <3>3, <3>4, <3>5
  <2> QED
    BY <2>1, <2>2
<1>23. ChildrenFit'
  <2>0. ChildrenFit
    BY <1>0 DEF VaultFits
  <2>1. /\ VaultIds \subseteq used'
        /\ \A d \in FolderIds \ used' : record[d] = Unpublished /\ seqCache[d] = -1
    BY <2>0 DEF ChildrenFit
  <2>2. \A t \in threads : t.stage = "child" => t.child \in used /\ t.child # node.of
    BY <2>0 DEF ChildrenFit
  <2>3. \A t, u \in more : t = u
    OBVIOUS
  <2> SUFFICES ASSUME NEW t \in threads', t.stage = "child"
               PROVE  /\ t.child \in used' \cap FolderIds /\ record[t.child] = Unpublished /\ seqCache[t.child] = -1
                      /\ \A u \in threads' : u.of = t.child => u.stage # "locked"
                      /\ \A u \in threads' : u.stage = "child" /\ u.child = t.child => u = t
    BY <2>1 DEF ChildrenFit
  <2>4. CASE t \in more
    <3>1. t.child = node.of /\ node.of \in FolderIds \ used /\ record[node.of] = Unpublished /\ seqCache[node.of] = -1
      BY <1>7, <2>0, <2>4 DEF ChildrenFit
    <3>2. \A u \in threads' : u.of # node.of
      BY <1>2, <1>7, <1>17
    <3>3. \A u \in threads' : u.stage = "child" /\ u.child = node.of => u = t
      BY <2>2, <2>3, <2>4
    <3> QED
      BY <3>1, <3>2, <3>3
  <2>5. CASE t \in threads
    <3>1. /\ t.child \in used \cap FolderIds /\ record[t.child] = Unpublished /\ seqCache[t.child] = -1
          /\ \A u \in threads : u.of = t.child => u.stage # "locked"
          /\ \A u \in threads : u.stage = "child" /\ u.child = t.child => u = t
      BY <2>0, <2>5 DEF ChildrenFit
    <3>2. \A u \in more : u.stage = "child" /\ u.child # t.child
      BY <1>7, <3>1
    <3> QED
      BY <3>1, <3>2
  <2> QED
    BY <2>4, <2>5
<1> QED
  BY <1>19, <1>21, <1>22, <1>23 DEF TimelyFits, VaultFits

(* The place of what is created is free                                     *)
LEMMA FreePlace ==
    ASSUME NEW p \in Inos, NEW n \in Names, NotFound(p, n), inode[p].loaded
    PROVE  IsFolder(p) /\ index[<<p, n>>] = NoIno
BY DEF NotFound, Unloaded

LEMMA CreateTimely ==
    ASSUME MountInv, MountInv', TimelyFits, NEW p \in Inos, NEW n \in Names, NEW f \in FileIds,
           Create(p, n, f), ~rushed'
    PROVE  TimelyFits'
<1> DEFINE node == [Free EXCEPT !.kind = "file", !.name = n, !.parent = p, !.of = f, !.resolved = TRUE]
<1>1. /\ UNCHANGED <<record, threads, seqCache, mount, queue, asked, fetched, removed, gone>>
      /\ Serving /\ NotFound(p, n) /\ f \notin used /\ used' = used \cup {f} /\ made' = made \cup {f}
      /\ InsertInode(p, node) /\ open' = open \cup {nextIno} /\ mutated' = mutated \cup {p}
      /\ inode[p].loaded
  BY DEF Create, network
<1>2. /\ node \in Inode /\ node.of = f /\ node.kind = "file" /\ ~node.loaded /\ node.parent = p /\ node.name = n
      /\ node.children = {}
  BY FreeInode DEF Inode, Ids
<1> HIDE DEF node
<1>3. IsFolder(p) /\ index[<<p, n>>] = NoIno
  BY <1>1, FreePlace
<1>4. Inserted(p, nextIno, node)
  BY <1>1, <1>2, <1>3, InsertGrows DEF TimelyFits, DeletedFits
<1>5. threads' = threads \cup {} /\ mutated \subseteq mutated' /\ open \subseteq open' /\ nextIno \in open'
      /\ queue \subseteq mutated
  BY <1>1 DEF TimelyFits, DeletedFits, ThreadsFit
<1> QED
  BY <1>1, <1>2, <1>3, <1>4, <1>5, InsertTimely

LEMMA MkdirTimely ==
    ASSUME MountInv, MountInv', TimelyFits, NEW p \in Inos, NEW n \in Names, NEW d \in FolderIds,
           Mkdir(p, n, d), ~rushed'
    PROVE  TimelyFits'
<1> DEFINE node == [Free EXCEPT !.kind = "folder", !.name = n, !.parent = p, !.of = d,
                                !.listed = TRUE, !.loaded = TRUE]
<1>1. /\ UNCHANGED <<record, mount, mutated, queue, open, seqCache, asked, fetched, removed, gone>>
      /\ Serving /\ NotFound(p, n) /\ d \notin used /\ used' = used \cup {d} /\ made' = made \cup {d}
      /\ InsertInode(p, node) /\ threads' = threads \cup {Publishing(inode', p, d)}
      /\ ~Crowded({p})
  BY DEF Mkdir
<1>2. /\ node \in Inode /\ node.of = d /\ node.kind = "folder" /\ node.listed /\ node.loaded /\ node.parent = p
      /\ node.name = n /\ node.children = {}
  BY FreeInode DEF Inode, Ids
<1> HIDE DEF node
<1>3. inode[p].loaded /\ \A t \in threads : t.of # inode[p].of
  BY <1>1 DEF Crowded
<1>4. IsFolder(p) /\ index[<<p, n>>] = NoIno
  BY <1>1, <1>3, FreePlace
<1>5. Inserted(p, nextIno, node)
  BY <1>1, <1>2, <1>4, InsertGrows DEF TimelyFits, DeletedFits
<1>6. PICK more : more = {Publishing(inode', p, node.of)}
  OBVIOUS
<1>7. threads' = threads \cup more /\ more # {} /\ queue \subseteq mutated
  BY <1>1, <1>2, <1>6 DEF TimelyFits, DeletedFits, ThreadsFit
<1> QED
  BY <1>1, <1>2, <1>3, <1>4, <1>5, <1>6, <1>7, InsertTimely

(* What was rushed stays so                                                 *)
LEMMA RushedStays == ASSUME [Next]_vars, rushed \in BOOLEAN PROVE rushed => rushed'
<1>1. Session => (rushed => rushed')
  BY DEF Session, Mount, PrePopulate, Quit
<1>2. Reading => (rushed => rushed')
  BY DEF Reading, Lookup, ReadDir, GetAttr, DrainRefresh, RefreshAnswered, RefreshFails, FlushQueue
<1>3. Changing => (rushed => rushed')
  <2>1. \A p, n : Remove(p, n) => (rushed => rushed')
    BY DEF Remove, UpdateFolders
  <2>2. \A p, n, q, m : Rename(p, n, q, m) => rushed' = (rushed \/ Crowded({p, q}))
    BY DEF Rename, UpdateFolders
  <2>3. \A p, n, f : Create(p, n, f) \/ Mkdir(p, n, f) => (rushed => rushed')
    BY DEF Create, Mkdir
  <2>4. \A i : OpenWrite(i) \/ Release(i) => (rushed => rushed')
    BY DEF OpenWrite, Release, FlushQueue
  <2> QED
    BY <2>1, <2>2, <2>3, <2>4 DEF Changing
<1>4. PublishingSteps => (rushed => rushed')
  BY DEF PublishingSteps, Resolve, Publish, PublishChild, PublishFails, ResolveNotFound, AnswerLost
<1>5. Passing \/ Elsewhere => (rushed => rushed')
  BY DEF Passing, CooldownEnds, Elsewhere, RemoteAdd, RemoteRemove
<1>6. UNCHANGED vars => (rushed => rushed')
  BY DEF vars
<1> QED
  BY <1>1, <1>2, <1>3, <1>4, <1>5, <1>6 DEF Next

LEMMA ReadingTimely == ASSUME MountInv, MountInv', TimelyFits, Reading, ~rushed' PROVE TimelyFits'
<1>1. ASSUME NEW p \in Inos, Lookup(p) PROVE TimelyFits'
  <2>1. /\ Serving /\ IsFolder(p) /\ asked' = asked \cup {[ino |-> p, of |-> inode[p].of]} /\ FlushQueue({})
        /\ UNCHANGED <<record, tree, mount, mutated, open, seqCache, fetched, used, made, removed, gone>>
    BY <1>1 DEF Lookup, StartRefresh
  <2>2. mutated' = mutated \cup {} /\ {} \in SUBSET Inos /\ open \ open' = {}
    BY <2>1
  <2> QED
    BY <2>1, <2>2, FlushTimely
<1>2. ASSUME GetAttr PROVE TimelyFits'
  <2>1. /\ Serving /\ FlushQueue({})
        /\ UNCHANGED <<record, tree, mount, mutated, open, seqCache, asked, fetched, used, made, removed, gone>>
    BY <1>2 DEF GetAttr
  <2>2. mutated' = mutated \cup {} /\ {} \in SUBSET Inos /\ open \ open' = {}
    BY <2>1
  <2> QED
    BY <2>1, <2>2, FlushTimely
<1>3. ASSUME NEW p \in Inos, ReadDir(p) PROVE TimelyFits'
  <2>1. /\ mount = Up /\ IsFolder(p) /\ asked' = asked \cup {[ino |-> p, of |-> inode[p].of]}
        /\ UNCHANGED <<tree, mount, record, threads, seqCache, queue, mutated, open, fetched, used, made,
                       removed, gone>>
    BY <1>3 DEF ReadDir, StartRefresh, Serving, network
  <2>2. \A r \in asked' : r \in asked \/ (IsFolder(p) /\ r.ino = p /\ r.of = inode[p].of)
    BY <2>1
  <2>3. (\A m \in fetched' : m \in fetched) /\ open \subseteq open'
    BY <2>1
  <2> QED
    BY <2>1, <2>2, <2>3, RefreshTimely
<1>4. ASSUME NEW r \in asked, RefreshAnswered(r) \/ RefreshFails(r) PROVE TimelyFits'
  <2>1. mount = Up
    BY DEF TimelyFits, DeletedFits, PhaseFits
  <2>2. /\ asked' \subseteq asked /\ open \subseteq open'
        /\ UNCHANGED <<tree, mount, record, threads, seqCache, queue, mutated, used, made, removed, gone>>
    BY <1>4 DEF RefreshAnswered, RefreshFails, network
  <2>3. \A m \in fetched' : m \in fetched \/
              (m.ino = r.ino /\ m.of = r.of /\ m.children = record[r.of].children)
    BY <1>4 DEF RefreshAnswered, RefreshFails
  <2>4. \A s \in asked' : s \in asked
    BY <2>2
  <2> QED
    BY <2>1, <2>2, <2>3, <2>4, RefreshTimely
<1> QED
  BY <1>1, <1>2, <1>3, <1>4, DrainTimely DEF Reading

LEMMA OpenTimely ==
    ASSUME MountInv, TimelyFits, NEW i \in Inos, OpenWrite(i) \/ Release(i), ~rushed'
    PROVE  TimelyFits'
<1>1. CASE OpenWrite(i)
  <2>1. /\ mount = Up /\ open \subseteq open' /\ asked' = asked /\ fetched' = fetched
        /\ UNCHANGED <<tree, mount, record, threads, seqCache, queue, mutated, used, made, removed, gone>>
    BY <1>1 DEF OpenWrite, Serving, network
  <2>2. (\A r \in asked' : r \in asked) /\ (\A m \in fetched' : m \in fetched)
    BY <2>1
  <2> QED
    BY <2>1, <2>2, RefreshTimely
<1>2. CASE Release(i)
  <2>1. PICK p : p = IF Live(i) THEN inode[i].parent ELSE RootIno
    OBVIOUS
  <2>2. /\ Serving /\ open' = open \ {i} /\ FlushQueue({p}) /\ mutated' = mutated \cup {p} /\ asked' = asked
        /\ UNCHANGED <<record, tree, mount, seqCache, fetched, used, made, removed, gone>>
    BY <1>2, <2>1 DEF Release
  <2>3. {p} \in SUBSET Inos /\ \A j \in Inos : j \in open \ open' /\ Live(j) => inode[j].parent \in {p}
    BY <2>1, <2>2, InodeTypes
  <2> QED
    BY <2>2, <2>3, FlushTimely
<1> QED
  BY <1>1, <1>2

LEMMA ChangingTimely == ASSUME MountInv, MountInv', TimelyFits, Changing, ~rushed' PROVE TimelyFits'
BY CreateTimely, MkdirTimely, RemoveTimely, RenameTimely, OpenTimely DEF Changing

LEMMA TimelyStep == ASSUME MountInv, ~rushed => TimelyFits, [Next]_vars PROVE ~rushed' => TimelyFits'
<1> SUFFICES ASSUME ~rushed' PROVE TimelyFits'
  OBVIOUS
<1>1. TimelyFits
  BY RushedStays DEF MountInv, FitSets
<1>2. MountInv'
  BY MountStep
<1>3. CASE Session
  BY <1>1, <1>3, MountTimely, PrePopulateTimely, QuitTimely DEF Session
<1>4. CASE Reading
  BY <1>1, <1>2, <1>4, ReadingTimely
<1>5. CASE Changing
  BY <1>1, <1>2, <1>5, ChangingTimely
<1>6. CASE PublishingSteps
  BY <1>1, <1>6, PublishingTimely
<1>7. CASE Passing
  BY <1>1, <1>7, CooldownTimely DEF Passing
<1>8. CASE Elsewhere
  BY <1>1, <1>8, RemoteAddTimely, RemoteRemoveTimely DEF Elsewhere
<1>9. CASE UNCHANGED vars
  <2>1. /\ UNCHANGED <<tree, record, threads, seqCache, queue, mutated, open, asked, used, made, removed, gone>>
        /\ fetched' \subseteq fetched /\ mount' = mount
    BY <1>9 DEF vars, tree
  <2> QED
    BY <1>1, <2>1, StillTimely
<1> QED
  BY <1>3, <1>4, <1>5, <1>6, <1>7, <1>8, <1>9 DEF Next

LEMMA TimelyAlways == Spec => [](MountInv /\ (~rushed => TimelyFits))
<1>1. Init => MountInv /\ (~rushed => TimelyFits)
  BY MountStart, StartTimely
<1>2. MountInv /\ (~rushed => TimelyFits) /\ [Next]_vars => (MountInv /\ (~rushed => TimelyFits))'
  BY MountStep, TimelyStep
<1> QED
  BY <1>1, <1>2, PTL DEF Spec

-----------------------------------------------------------------------------
(* MountFolders: the theorems about changes                                 *)

(* What unlink, rmdir and rename took out of the tree does not come back,   *)
(* although refreshes asked for before it was published are answered and    *)
(* merged after, populate_folder adding whatever they list: a folder that   *)
(* was changed is left out of them until its publish is done                *)
THEOREM DeletedDoesNotReturn == Spec => []DeletedStays
<1>1. MountInv /\ (~rushed => TimelyFits) => DeletedStays
  <2> SUFFICES ASSUME MountInv, TimelyFits, NEW p \in Inos, IsFolder(p), NEW i \in inode[p].children
               PROVE  inode[i].of \notin removed
    BY DEF DeletedStays, InTree
  <2>1. TableFits
    BY DEF TimelyFits, DeletedFits
  <2>2. i \in Inos /\ Live(i)
    BY <2>1, ChildPlaces
  <2> QED
    BY <2>1, <2>2 DEF TableFits
<1> QED
  BY <1>1, TimelyAlways, PTL

(* Once a folder's publishes are done its record lists what the table shows *)
(* of it, and nothing that was deleted here, in whatever order snapshots    *)
(* were taken, locks were got, refreshes merged and other devices wrote     *)
THEOREM TableReachesVault == Spec => []LocalReachesVault
<1>1. MountInv /\ (~rushed => TimelyFits) => LocalReachesVault
  <2> SUFFICES ASSUME MountInv, TimelyFits, NEW p \in Inos, IsFolder(p), Quiet(p)
               PROVE  /\ \A i \in inode[p].children : inode[i].of \in (made \cup VaultIds) \ gone =>
                           [name |-> inode[i].name, of |-> inode[i].of] \in record[inode[p].of].children
                      /\ \A c \in record[inode[p].of].children : c.of \notin removed
    BY DEF LocalReachesVault
  <2>1. TableFits /\ SavedFits /\ ClaimsFit
    BY DEF TimelyFits, DeletedFits, VaultFits
  <2>2. inode[p].of \in FolderIds /\ \A t \in threads : t.of # inode[p].of
    BY InodeTypes DEF Quiet
  <2>3. ASSUME NEW i \in inode[p].children, inode[i].of \in (made \cup VaultIds) \ gone
        PROVE  [name |-> inode[i].name, of |-> inode[i].of] \in record[inode[p].of].children
    <3>1. i \in Inos /\ Places(i, p) /\ inode[i].parent = p
      BY <2>1, ChildPlaces
    <3>2. ~Unsaved(i)
      BY <2>3, <3>1 DEF Unsaved, Ours, Quiet
    <3> QED
      BY <2>1, <2>2, <3>1, <3>2 DEF SavedFits, Entered
  <2>4. ASSUME NEW c \in record[inode[p].of].children PROVE c.of \notin removed
    <3>1. Claimed(inode[p].of, c) /\ c \in Entry
      BY <2>2, OtherTypes DEF Claimed, Told, Changed
    <3> QED
      BY <2>1, <2>2, <3>1 DEF ClaimsFit
  <2> QED
    BY <2>3, <2>4
<1> QED
  BY <1>1, TimelyAlways, PTL

-----------------------------------------------------------------------------
(* MountFiles: the parts of the invariant                                   *)

(* Contents that open, each kept once, all older than the newest            *)
GoodVersions(vs) ==
    /\ \A i \in 1..Len(vs) : vs[i].key = vs[i].cid /\ vs[i].cid \in pins /\ vs[i].cid < newest
    /\ \A i, j \in 1..Len(vs) : vs[i].cid = vs[j].cid => i = j

(* What unpins ps leaves the file and its record readable                   *)
Spared(ps) ==
    /\ newest \notin ps /\ fileRecord.cid \notin ps
    /\ \A i \in 1..Len(file.versions) : file.versions[i].cid \notin ps

Sending == \E u \in uploads : u.stage = "upload"
Waiting == Sending \/ done # <<>>

BoundsFit ==
    /\ pins \subseteq 1..newest
    /\ \A e \in cache : e.cid <= newest /\ e.text = text[e.cid]
    /\ IF fileRecord.seq = -1 THEN fileRecord.cid = NoCid ELSE fileRecord.seq \in Nat
    /\ text[0] = Empty

(* A file that was not created has left no trace                            *)
NoneFits ==
    file.st = "none" =>
        /\ newest = 0 /\ latest = Empty /\ pending = {} /\ uploads = {} /\ done = <<>>
        /\ file = NoInode /\ fileRecord.seq = -1 /\ fileSeqCache = -1
        /\ \A h \in Handles : handle[h].mode = "closed"

(* One upload at a time, of the newest content                              *)
UploadFits ==
    /\ \A u, v \in uploads : u = v
    /\ \A u \in uploads :
        /\ u.nth = newest /\ newest # 0 /\ u.named /\ file.st = "live" /\ u.versions = file.versions
        /\ u.stage = "upload" => done = <<>> /\ Spared(u.pruned)
        /\ u.stage = "publish" => u.seq = fileRecord.seq /\ u.seq >= 0
    /\ Len(done) <= 1 /\ (done # <<>> => done[1].cid = newest /\ Spared(done[1].pruned))

(* Until it is drained the inode has no CID, and its text is pending        *)
TextFits ==
    /\ latest = text[newest]
    /\ newest # 0 /\ ~Sending => newest \in pins
    /\ IF Waiting
       THEN /\ newest # 0 /\ pending = {latest} /\ file.st = "live"
            /\ file.cid = NoCid /\ file.key = newest
       ELSE /\ pending = {}
            /\ file.st = "live" =>
                IF file.cid = NoCid
                THEN newest = 0 /\ uploads = {} /\ file.versions = <<>> /\ fileRecord.seq = -1
                ELSE file.cid = newest /\ file.key = newest
    /\ GoodVersions(file.versions)

(* The record is one release behind while an upload is under way            *)
RecordFits ==
    /\ fileSeqCache \in {-1, fileRecord.seq}
    /\ fileRecord.seq >= 0 => fileRecord.cid \in pins /\ fileRecord.key = fileRecord.cid
    /\ file.st = "unresolved" => fileRecord.seq >= 0 /\ uploads = {} /\ done = <<>> /\ file = Unresolved
    /\ fileRecord.seq >= 0 /\ uploads = {} =>
        /\ fileRecord.cid = newest
        /\ IF file.st = "live" THEN fileRecord.versions = file.versions
           ELSE GoodVersions(fileRecord.versions)

OpenFits == IsThere => UploadFits /\ TextFits /\ RecordFits

(* The empty CID stands for no content                                      *)
UploadsNumbered == \A u \in uploads : u.nth # NoCid

FilesInv == FilesTypeOK /\ UploadsNumbered /\ (hurried \/ file.st = "deleted" \/ (BoundsFit /\ NoneFits /\ OpenFits))

Completion == [cid : Cids, pruned : SUBSET Cids]

LEMMA CidParts ==
    /\ MaxUploads \in Nat /\ MaxVersions \in Nat /\ MaxVersions >= 1 /\ MaxEdits \in Nat
    /\ NoCid \in Cids /\ Stored \in Cids /\ NoCid # Stored
    /\ Empty \in Text /\ {0} \in Text
    /\ \A c \in Cids : c \in Nat
BY FileAssumption DEF Cids, NoCid, Stored, Text, Empty, Edits

LEMMA VersionsParts ==
    ASSUME NEW vs \in Versions
    PROVE  /\ vs \in Seq(Version) /\ Len(vs) \in Nat /\ Len(vs) <= MaxVersions
           /\ \A i \in 1..Len(vs) : vs[i] \in Version
<1>1. PICK n \in 0..MaxVersions : vs \in [1..n -> Version]
  BY DEF Versions
<1>2. n \in Nat /\ n <= MaxVersions
  BY <1>1, CidParts
<1>3. vs \in Seq(Version) /\ Len(vs) = n
  BY <1>1, <1>2, LenProperties
<1> QED
  BY <1>1, <1>2, <1>3

LEMMA VersionsAre ==
    ASSUME NEW vs \in Seq(Version), Len(vs) <= MaxVersions
    PROVE  vs \in Versions
<1>1. Len(vs) \in Nat /\ vs \in [1..Len(vs) -> Version]
  BY LenProperties
<1>2. Len(vs) \in 0..MaxVersions
  BY <1>1, CidParts
<1> QED
  BY <1>1, <1>2 DEF Versions

LEMMA NoVersions == <<>> \in Versions /\ Len(<<>>) = 0
<1>1. <<>> \in Seq(Version) /\ Len(<<>>) = 0
  BY EmptySeq
<1> DEFINE none == <<>>
<1>2. none \in Seq(Version) /\ Len(none) = 0
  BY <1>1
<1> HIDE DEF none
<1>3. Len(none) <= MaxVersions
  BY <1>2, CidParts
<1>4. none \in Versions
  BY <1>2, <1>3, VersionsAre
<1> QED
  BY <1>1, <1>4 DEF none

(* What is kept of the versions, and what is pruned                         *)
LEMMA KeptParts ==
    ASSUME NEW all \in Seq(Version)
    PROVE  /\ Kept(all) \in Versions /\ Len(Kept(all)) <= Len(all)
           /\ Len(Kept(all)) <= MaxVersions
           /\ \A i \in 1..Len(Kept(all)) : i \in 1..Len(all) /\ Kept(all)[i] = all[i]
           /\ \A c \in Pruned(all) : c \in Cids /\ \E i \in 1..Len(all) : i > Len(Kept(all)) /\ all[i].cid = c
<1> DEFINE m == IF Len(all) > MaxVersions THEN MaxVersions ELSE Len(all)
<1>1. Len(all) \in Nat /\ m \in Nat /\ m <= Len(all) /\ m <= MaxVersions
  BY LenProperties, CidParts
<1>2. Kept(all) = SubSeq(all, 1, m)
  BY DEF Kept
<1> HIDE DEF m
<1>3. \A i \in 1..m : i \in 1..Len(all)
  BY <1>1
<1>4. /\ SubSeq(all, 1, m) \in Seq(Version) /\ Len(SubSeq(all, 1, m)) = m
      /\ \A i \in 1..m : SubSeq(all, 1, m)[i] = all[i]
  <2>1. SubSeq(all, 1, m) \in Seq(Version)
    BY <1>1, <1>3, SubSeqProperties
  <2>2. Len(SubSeq(all, 1, m)) = m
    BY <1>1, <1>3, SubSeqProperties
  <2>3. \A i \in 1..m : SubSeq(all, 1, m)[i] = all[i]
    BY <1>1, <1>3, SubSeqProperties
  <2> QED
    BY <2>1, <2>2, <2>3
<1>5. Kept(all) \in Versions
  BY <1>1, <1>2, <1>4, VersionsAre
<1>6. ASSUME NEW c \in Pruned(all) PROVE c \in Cids /\ \E i \in 1..Len(all) : i > m /\ all[i].cid = c
  <2>1. PICK i \in (MaxVersions + 1)..Len(all) : c = all[i].cid
    BY DEF Pruned
  <2>2. i \in 1..Len(all) /\ i > m
    BY <1>1, <2>1, CidParts
  <2>3. all[i] \in Version
    BY <2>2, ElementOfSeq
  <2> QED
    BY <2>1, <2>2, <2>3 DEF Version
<1> QED
  BY <1>1, <1>2, <1>3, <1>4, <1>5, <1>6

LEMMA KeptLength ==
    ASSUME NEW all \in Seq(Version)
    PROVE  Len(Kept(all)) = IF Len(all) > MaxVersions THEN MaxVersions ELSE Len(all)
<1> DEFINE m == IF Len(all) > MaxVersions THEN MaxVersions ELSE Len(all)
<1>1. Len(all) \in Nat /\ m \in Nat /\ m <= Len(all)
  BY LenProperties, CidParts
<1>2. Kept(all) = SubSeq(all, 1, m)
  BY DEF Kept
<1> HIDE DEF m
<1>3. \A i \in 1..m : i \in 1..Len(all)
  BY <1>1
<1>4. Len(SubSeq(all, 1, m)) = m
  BY <1>1, <1>3, SubSeqProperties
<1> QED
  BY <1>2, <1>4 DEF m

LEMMA AllVersionsParts ==
    ASSUME file \in FileInode, NEW aged \in BOOLEAN
    PROVE  LET all == AllVersions(aged) IN
           /\ all \in Seq(Version)
           /\ \/ all = file.versions
              \/ /\ file.cid # NoCid /\ Len(all) = Len(file.versions) + 1
                 /\ all[1].cid = file.cid /\ all[1].key = file.key
                 /\ \A i \in 2..Len(all) : i - 1 \in 1..Len(file.versions) /\ all[i] = file.versions[i - 1]
<1> DEFINE e == [cid |-> file.cid, key |-> file.key]
           s == <<e>>
           t == s \o file.versions
<1>1. file.versions \in Seq(Version) /\ Len(file.versions) \in Nat
  BY VersionsParts DEF FileInode
<1>2. e \in Version /\ e.cid = file.cid /\ e.key = file.key
  BY DEF FileInode, Version
<1> HIDE DEF e
<1>3. s \in Seq(Version) /\ Len(s) = 1 /\ s[1] = e
  BY <1>2
<1> HIDE DEF s
<1>4. t \in Seq(Version) /\ Len(t) = 1 + Len(file.versions)
  BY <1>1, <1>3, ConcatProperties
<1>5. \A i \in 1..Len(t) : t[i] = IF i <= 1 THEN s[i] ELSE file.versions[i - 1]
  <2>1. \A i \in 1..Len(s) + Len(file.versions) :
           t[i] = IF i <= Len(s) THEN s[i] ELSE file.versions[i - Len(s)]
    BY <1>1, <1>3, ConcatProperties
  <2> QED
    BY <1>3, <1>4, <2>1
<1>6. t[1] = e /\ \A i \in 2..Len(t) : i - 1 \in 1..Len(file.versions) /\ t[i] = file.versions[i - 1]
  BY <1>1, <1>3, <1>4, <1>5
<1>7. AllVersions(aged) = file.versions \/ (file.cid # NoCid /\ AllVersions(aged) = t)
  BY DEF AllVersions, t, s, e
<1> HIDE DEF t
<1> QED
  BY <1>1, <1>2, <1>4, <1>6, <1>7

LEMMA UploadParts ==
    ASSUME NEW u \in Upload
    PROVE  /\ u.nth \in Cids /\ u.pruned \subseteq Cids /\ u.versions \in Versions /\ u.seq \in Int
           /\ LET v == [u EXCEPT !.stage = "resolve"] IN
              v \in Upload /\ v.nth = u.nth /\ v.named = u.named /\ v.versions = u.versions /\ v.stage = "resolve"
           /\ \A n \in Int : LET v == [u EXCEPT !.stage = "publish", !.seq = n] IN
              /\ v \in Upload /\ v.nth = u.nth /\ v.named = u.named /\ v.versions = u.versions
              /\ v.stage = "publish" /\ v.seq = n
<1>1. /\ u.nth \in Cids /\ u.pruned \subseteq Cids /\ u.versions \in Versions /\ u.seq \in Int
      /\ LET v == [u EXCEPT !.stage = "resolve"] IN
              v \in Upload /\ v.nth = u.nth /\ v.named = u.named /\ v.versions = u.versions /\ v.stage = "resolve"
  BY DEF Upload
<1>2. ASSUME NEW n \in Int
      PROVE LET v == [u EXCEPT !.stage = "publish", !.seq = n] IN
              /\ v \in Upload /\ v.nth = u.nth /\ v.named = u.named /\ v.versions = u.versions
              /\ v.stage = "publish" /\ v.seq = n
  <2> DEFINE w == [u EXCEPT !.stage = "publish"]
             x == [w EXCEPT !.seq = n]
  <2>1. /\ w \in Upload /\ w.nth = u.nth /\ w.named = u.named /\ w.versions = u.versions /\ w.stage = "publish"
        /\ [u EXCEPT !.stage = "publish", !.seq = n] = x
    BY DEF Upload
  <2> HIDE DEF w
  <2>2. /\ x \in Upload /\ x.nth = w.nth /\ x.named = w.named /\ x.versions = w.versions /\ x.stage = w.stage
        /\ x.seq = n
    BY <2>1 DEF Upload
  <2> QED
    BY <2>1, <2>2
<1> QED
  BY <1>1, <1>2

LEMMA ClosedHandle == Closed \in Handle /\ Closed.mode = "closed"
BY CidParts DEF Closed, Handle

(* What a step gives one handle                                             *)
LEMMA HandleParts ==
    ASSUME NEW hd \in Handle
    PROVE  /\ [hd EXCEPT !.mode = "read"] \in Handle
           /\ \A ts \in SUBSET Text : [hd EXCEPT !.cached = ts] \in Handle
           /\ \A t \in Text : WriteHandle(t) \in Handle
           /\ \A n \in Edits : Written(hd, n) \in Handle
           /\ Truncated(hd) \in Handle
           /\ hd.text \in Text
<1>1. /\ [hd EXCEPT !.mode = "read"] \in Handle
      /\ \A ts \in SUBSET Text : [hd EXCEPT !.cached = ts] \in Handle
      /\ hd.text \in Text
  BY DEF Handle
<1>2. ASSUME NEW t \in Text PROVE WriteHandle(t) \in Handle
  BY CidParts DEF WriteHandle, Closed, Handle
<1>3. ASSUME NEW n \in Edits PROVE Written(hd, n) \in Handle
  <2> DEFINE x == hd.text \cup {n}
             y == [hd EXCEPT !.text = x]
  <2>1. x \in Text
    BY <1>1 DEF Text
  <2>2. Written(hd, n) = [y EXCEPT !.dirty = TRUE]
    BY DEF Written, Handle
  <2> HIDE DEF x
  <2>3. y \in Handle
    BY <2>1 DEF Handle
  <2> HIDE DEF y
  <2> QED
    BY <2>2, <2>3 DEF Handle
<1>4. Truncated(hd) \in Handle
  <2> DEFINE y == [hd EXCEPT !.text = Empty]
  <2>1. y \in Handle /\ Truncated(hd) = [y EXCEPT !.dirty = TRUE]
    BY CidParts DEF Handle, Truncated
  <2> HIDE DEF y
  <2> QED
    BY <2>1 DEF Handle
<1> QED
  BY <1>1, <1>2, <1>3, <1>4

LEMMA FilesTypesNext ==
    ASSUME file' \in FileInode, text' \in [Cids -> Text], pins' \subseteq Cids \ {NoCid},
           pending' \subseteq Text, cache' \subseteq [cid : Cids, text : Text], fetching' \subseteq Version,
           handle' \in [Handles -> Handle], uploads' \subseteq Upload, done' \in Seq(Completion),
           fileRecord' \in FileRecord, fileSeqCache' \in Int, newest' \in Cids, edits' \in Edits,
           latest' \in Text, hurried' \in BOOLEAN, fileMishaps' \in Nat
    PROVE  FilesTypeOK'
BY DEF FilesTypeOK, Completion

LEMMA FilesTypes ==
    ASSUME FilesTypeOK
    PROVE  /\ file \in FileInode /\ text \in [Cids -> Text] /\ pins \subseteq Cids \ {NoCid}
           /\ pending \subseteq Text /\ cache \subseteq [cid : Cids, text : Text] /\ fetching \subseteq Version
           /\ handle \in [Handles -> Handle] /\ uploads \subseteq Upload /\ done \in Seq(Completion)
           /\ fileRecord \in FileRecord /\ fileSeqCache \in Int /\ newest \in Cids /\ edits \in Edits
           /\ latest \in Text /\ hurried \in BOOLEAN /\ fileMishaps \in Nat
BY DEF FilesTypeOK, Completion

LEMMA FileParts ==
    ASSUME FilesTypeOK
    PROVE  /\ file.cid \in Cids /\ file.key \in Cids /\ file.versions \in Versions /\ file.st \in State
           /\ fileRecord.cid \in Cids /\ fileRecord.key \in Cids /\ fileRecord.versions \in Versions
           /\ fileRecord.seq \in Int
           /\ Resolved(fileRecord) \in FileInode /\ Resolved(fileRecord).st = "live"
           /\ Resolved(fileRecord).cid = fileRecord.cid /\ Resolved(fileRecord).key = fileRecord.key
           /\ Resolved(fileRecord).versions = fileRecord.versions
           /\ NoInode \in FileInode /\ Unresolved \in FileInode /\ Unresolved.st = "unresolved"
           /\ Unresolved.versions = <<>> /\ Unresolved.cid = NoCid
<1>1. file \in FileInode /\ fileRecord \in FileRecord
  BY FilesTypes
<1>2. /\ file.cid \in Cids /\ file.key \in Cids /\ file.versions \in Versions /\ file.st \in State
      /\ fileRecord.cid \in Cids /\ fileRecord.key \in Cids /\ fileRecord.versions \in Versions
      /\ fileRecord.seq \in Int
  BY <1>1 DEF FileInode, FileRecord
<1>3. /\ NoInode \in FileInode /\ Unresolved \in FileInode /\ Unresolved.st = "unresolved"
      /\ Unresolved.versions = <<>> /\ Unresolved.cid = NoCid
  BY CidParts, NoVersions DEF NoInode, Unresolved, FileInode, State
<1>4. /\ Resolved(fileRecord) \in FileInode /\ Resolved(fileRecord).st = "live"
      /\ Resolved(fileRecord).cid = fileRecord.cid /\ Resolved(fileRecord).key = fileRecord.key
      /\ Resolved(fileRecord).versions = fileRecord.versions
  BY <1>2 DEF Resolved, FileInode, State
<1> QED
  BY <1>2, <1>3, <1>4

GoodFile == BoundsFit /\ NoneFits /\ OpenFits
Exempt == hurried \/ file.st = "deleted"

LEMMA GoodSince ==
    ASSUME FilesInv, ~hurried, file.st # "deleted"
    PROVE  GoodFile
BY DEF FilesInv, GoodFile

LEMMA FilesStart == FilesInit => FilesInv
<1> SUFFICES ASSUME FilesInit PROVE FilesInv
  OBVIOUS
<1>1. /\ pins = {newest} \ {NoCid} /\ text = [c \in Cids |-> IF c = Stored THEN latest ELSE Empty]
      /\ pending = {} /\ cache = {} /\ fetching = {} /\ uploads = {} /\ done = <<>>
      /\ handle = [h \in Handles |-> Closed]
      /\ fileSeqCache = -1 /\ edits = 0 /\ hurried = FALSE /\ fileMishaps = 0
  BY DEF FilesInit
<1>2. /\ fileRecord \in FileRecord /\ newest \in Cids /\ latest \in Text
      /\ file \in FileInode
      /\ \/ file = NoInode /\ fileRecord.seq = -1 /\ fileRecord.cid = NoCid /\ newest = 0 /\ latest = Empty
         \/ /\ file.st = "live" /\ file.cid = Stored /\ file.key = Stored /\ file.versions = <<>>
            /\ fileRecord.cid = Stored /\ fileRecord.key = Stored /\ fileRecord.versions = <<>>
            /\ fileRecord.seq = 0 /\ newest = Stored
  <2>1. CASE file = NoInode /\ fileRecord = NeverPublished /\ newest = 0 /\ latest = Empty
    BY <2>1, CidParts, NoVersions DEF NeverPublished, NoInode, FileInode, FileRecord, NoCid, State
  <2>2. CASE /\ fileRecord = [seq |-> 0, cid |-> Stored, key |-> Stored, versions |-> <<>>]
             /\ file = Resolved(fileRecord) /\ newest = Stored /\ latest = {0}
    <3>1. /\ fileRecord \in FileRecord /\ fileRecord.cid = Stored /\ fileRecord.key = Stored
          /\ fileRecord.versions = <<>> /\ fileRecord.seq = 0
      BY <2>2, CidParts, NoVersions DEF FileRecord
    <3>2. /\ file \in FileInode /\ file.st = "live" /\ file.cid = Stored /\ file.key = Stored
          /\ file.versions = <<>>
      BY <2>2, <3>1, CidParts, NoVersions DEF Resolved, FileInode, State
    <3> QED
      BY <2>2, <3>1, <3>2, CidParts
  <2> QED
    BY <2>1, <2>2 DEF FilesInit
<1>3. FilesTypeOK
  <2>1. text \in [Cids -> Text]
    BY <1>1, <1>2, CidParts
  <2>2. pins \subseteq Cids \ {NoCid} /\ handle \in [Handles -> Handle]
    BY <1>1, <1>2, ClosedHandle
  <2>3. done \in Seq([cid : Cids, pruned : SUBSET Cids])
    BY <1>1
  <2>4. edits \in Edits /\ fileSeqCache \in Int /\ fileMishaps \in Nat
    BY <1>1, CidParts DEF Edits
  <2> QED
    BY <1>1, <1>2, <2>1, <2>2, <2>3, <2>4 DEF FilesTypeOK
<1>4. BoundsFit
  BY <1>1, <1>2, CidParts DEF BoundsFit, NoCid, Stored
<1>5. NoneFits
  BY <1>1, <1>2, CidParts, ClosedHandle DEF NoneFits, NoCid, Stored
<1>6. OpenFits
  <2> SUFFICES ASSUME IsThere PROVE UploadFits /\ TextFits /\ RecordFits
    BY DEF OpenFits
  <2>1. /\ file.st = "live" /\ file.cid = Stored /\ file.key = Stored /\ file.versions = <<>>
        /\ fileRecord.cid = Stored /\ fileRecord.key = Stored /\ fileRecord.versions = <<>>
        /\ fileRecord.seq = 0 /\ newest = Stored
    BY <1>2 DEF IsThere, NoInode
  <2>2. Len(<<>>) = 0
    BY NoVersions
  <2>3. UploadFits
    BY <1>1, <2>2 DEF UploadFits
  <2>4. TextFits
    BY <1>1, <2>1, <2>2, CidParts DEF TextFits, Waiting, Sending, GoodVersions, Stored, NoCid
  <2>5. RecordFits
    BY <1>1, <2>1, CidParts DEF RecordFits, Stored, NoCid
  <2> QED
    BY <2>3, <2>4, <2>5
<1> QED
  BY <1>1, <1>3, <1>4, <1>5, <1>6 DEF FilesInv, UploadsNumbered

-----------------------------------------------------------------------------
(* MountFiles: calls that leave the file as it is                           *)

LEMMA QuietKeeps ==
    ASSUME FilesInv, FilesTypeOK', hurried => hurried',
           UNCHANGED <<file, text, pins, pending, uploads, done, fileRecord, fileSeqCache, newest, latest>>,
           cache' = cache \/ (~hurried /\ file.st # "deleted" => \A e \in cache' : e.cid <= newest /\ e.text = text[e.cid]),
           file.st = "none" => \A h \in Handles : handle[h].mode = "closed" => handle'[h].mode = "closed"
    PROVE  FilesInv'
<1> SUFFICES ASSUME ~hurried, file.st # "deleted" PROVE GoodFile'
  BY DEF FilesInv, GoodFile, UploadsNumbered
<1>1. BoundsFit /\ NoneFits /\ OpenFits
  BY GoodSince DEF GoodFile
<1>2. BoundsFit'
  BY <1>1 DEF BoundsFit
<1>3. NoneFits'
  BY <1>1 DEF NoneFits
<1>4. OpenFits'
  BY <1>1 DEF OpenFits, IsThere, UploadFits, TextFits, RecordFits, Spared, Sending, Waiting, GoodVersions
<1> QED
  BY <1>2, <1>3, <1>4 DEF GoodFile

(* An entry the cache is given has the text of its content                  *)
LEMMA RememberParts ==
    ASSUME FilesTypeOK, NEW c \in Cids, NEW t \in Text, Remember(c, t)
    PROVE  /\ cache' \subseteq [cid : Cids, text : Text]
           /\ \A e \in cache' : e \in cache \/ (e.cid = c /\ e.text = t)
<1>1. PICK left \in SUBSET (cache \ Cached(c)) : cache' = left \cup {[cid |-> c, text |-> t]}
  BY DEF Remember
<1>2. cache \subseteq [cid : Cids, text : Text]
  BY FilesTypes
<1> QED
  BY <1>1, <1>2

LEMMA PrefetchParts ==
    ASSUME FilesTypeOK, Prefetch
    PROVE  fetching' \subseteq Version
BY FilesTypes, FileParts DEF Prefetch, Version

LEMMA OpenReadKeeps == ASSUME FilesInv, NEW h \in Handles, OpenRead(h) PROVE FilesInv'
<1>0. FilesTypeOK
  BY DEF FilesInv
<1>1. handle' = [handle EXCEPT ![h] = [handle[h] EXCEPT !.mode = "read"]]
  BY <1>0, FilesTypes DEF OpenRead
<1>2. handle' \in [Handles -> Handle]
  BY <1>0, <1>1, FilesTypes, HandleParts
<1>3. fetching' \subseteq Version
  BY <1>0, PrefetchParts DEF OpenRead
<1>4. FilesTypeOK'
  BY <1>0, <1>2, <1>3, FilesTypes, FilesTypesNext DEF OpenRead
<1> QED
  BY <1>4, QuietKeeps DEF OpenRead, IsThere

LEMMA FetchedKeeps == ASSUME FilesInv, NEW f \in fetching, ContentFetched(f) \/ FetchFails(f) PROVE FilesInv'
<1>0. FilesTypeOK
  BY DEF FilesInv
<1>1. f.cid \in Cids /\ text[f.cid] \in Text
  BY <1>0, FilesTypes DEF Version
<1>2. cache' \subseteq [cid : Cids, text : Text]
      /\ \A e \in cache' : e \in cache \/ (f.cid \in pins /\ e.cid = f.cid /\ e.text = text[f.cid])
  BY <1>0, <1>1, RememberParts, FilesTypes DEF ContentFetched, FetchFails, Opens
<1>3. fetching' \subseteq Version
  BY <1>0, FilesTypes DEF ContentFetched, FetchFails
<1>4. FilesTypeOK'
  BY <1>0, <1>2, <1>3, FilesTypes, FilesTypesNext DEF ContentFetched, FetchFails
<1>5. ASSUME ~hurried, file.st # "deleted" PROVE \A e \in cache' : e.cid <= newest /\ e.text = text[e.cid]
  <2>1. BoundsFit
    BY <1>5, GoodSince DEF GoodFile
  <2>2. newest \in Nat /\ (f.cid \in pins => f.cid <= newest)
    BY <1>0, <1>1, <2>1, FilesTypes, CidParts DEF BoundsFit
  <2> QED
    BY <1>2, <2>1, <2>2 DEF BoundsFit
<1> QED
  BY <1>4, <1>5, QuietKeeps DEF ContentFetched, FetchFails

LEMMA ReadKeeps == ASSUME FilesInv, NEW h \in Handles, Read(h) PROVE FilesInv'
<1>0. FilesTypeOK
  BY DEF FilesInv
<1> DEFINE ts == {e.text : e \in Cached(file.cid)}
<1>1. ts \in SUBSET Text
  BY <1>0, FilesTypes DEF Cached
<1>2. handle' = handle \/ handle' = [handle EXCEPT ![h] = [handle[h] EXCEPT !.cached = ts]]
  BY <1>0, FilesTypes DEF Read
<1> HIDE DEF ts
<1>3. handle' \in [Handles -> Handle]
  <2>1. handle[h] \in Handle /\ handle \in [Handles -> Handle]
    BY <1>0, FilesTypes
  <2>2. [handle[h] EXCEPT !.cached = ts] \in Handle
    BY <1>1, <2>1, HandleParts
  <2> QED
    BY <1>2, <2>1, <2>2
<1>4. fetching' \subseteq Version
  BY <1>0, FilesTypes, PrefetchParts DEF Read
<1>5. FilesTypeOK'
  BY <1>0, <1>3, <1>4, FilesTypes, FilesTypesNext DEF Read
<1> QED
  BY <1>5, QuietKeeps DEF Read, IsThere

LEMMA OpenToWriteKeeps == ASSUME FilesInv, NEW h \in Handles, OpenToWrite(h) PROVE FilesInv'
<1>0. FilesTypeOK
  BY DEF FilesInv
<1>1. PICK t \in IF file.cid = NoCid THEN {Empty}
                ELSE IF Cached(file.cid) # {} THEN {e.text : e \in Cached(file.cid)}
                ELSE {text[file.cid]} :
         /\ handle' = [handle EXCEPT ![h] = WriteHandle(t)]
         /\ hurried' = (hurried \/ (file.cid = NoCid /\ latest # Empty))
  BY DEF OpenToWrite
<1>2. t \in Text
  BY <1>0, FilesTypes, FileParts, CidParts DEF Cached
<1>3. handle' \in [Handles -> Handle] /\ hurried' \in BOOLEAN
  BY <1>0, <1>1, <1>2, FilesTypes, HandleParts
<1>4. FilesTypeOK'
  BY <1>0, <1>3, FilesTypes, FilesTypesNext DEF OpenToWrite
<1> QED
  BY <1>1, <1>4, QuietKeeps DEF OpenToWrite, IsThere

LEMMA WriteKeeps == ASSUME FilesInv, NEW h \in Handles, Write(h) \/ Truncate(h) \/ Close(h) PROVE FilesInv'
<1>0. FilesTypeOK
  BY DEF FilesInv
<1>1. handle[h] \in Handle /\ handle \in [Handles -> Handle] /\ edits \in Edits
  BY <1>0, FilesTypes
<1>2. /\ handle' \in [Handles -> Handle] /\ edits' \in Edits
      /\ handle[h].mode # "closed"
      /\ \A g \in Handles \ {h} : handle'[g] = handle[g]
  <2>1. CASE Write(h)
    <3>1. edits + 1 \in Edits
      BY <1>1, <2>1, CidParts DEF Write, Edits
    <3>2. Written(handle[h], edits + 1) \in Handle
      BY <1>1, <3>1, HandleParts
    <3> QED
      BY <1>1, <2>1, <3>1, <3>2 DEF Write
  <2>2. CASE Truncate(h)
    BY <1>1, <2>2, HandleParts DEF Truncate
  <2>3. CASE Close(h)
    BY <1>1, <2>3, ClosedHandle DEF Close
  <2> QED
    BY <2>1, <2>2, <2>3
<1>3. /\ UNCHANGED <<file, text, pins, pending, cache, fetching, uploads, done, fileRecord,
                   fileSeqCache, newest, latest, hurried, fileMishaps>>
  BY DEF Write, Truncate, Close
<1>4. FilesTypeOK'
  BY <1>0, <1>2, <1>3, FilesTypes, FilesTypesNext
<1>5. file.st = "none" => \A g \in Handles : handle[g].mode = "closed" => handle'[g].mode = "closed"
  BY <1>2
<1> QED
  BY <1>3, <1>4, <1>5, QuietKeeps

LEMMA CleanTempKeeps == ASSUME FilesInv, CleanTemp PROVE FilesInv'
<1>0. FilesTypeOK
  BY DEF FilesInv
<1>1. [Closed EXCEPT !.mode = "lost"] \in Handle
  BY CidParts DEF Closed, Handle
<1>2. handle' \in [Handles -> Handle] /\ fileMishaps' \in Nat
  BY <1>0, <1>1, FilesTypes DEF CleanTemp
<1>3. FilesTypeOK'
  BY <1>0, <1>2, FilesTypes, FilesTypesNext DEF CleanTemp
<1> QED
  BY <1>3, QuietKeeps DEF CleanTemp

-----------------------------------------------------------------------------
(* MountFiles: a file is created, released and deleted                      *)

LEMMA GoodTypes ==
    ASSUME FilesInv
    PROVE  /\ FilesTypeOK /\ newest \in Nat /\ newest \in Cids /\ done \in Seq(Completion)
           /\ \A u \in uploads : u \in Upload
           /\ ~hurried /\ file.st # "deleted" => BoundsFit /\ NoneFits /\ OpenFits
BY FilesTypes, CidParts DEF FilesInv

LEMMA CreateFileKeeps == ASSUME FilesInv, NEW h \in Handles, CreateFile(h) PROVE FilesInv'
<1>0. FilesTypeOK
  BY DEF FilesInv
<1>1. /\ file.st = "none" /\ file' = [NoInode EXCEPT !.st = "live"]
      /\ handle' = [handle EXCEPT ![h] = WriteHandle(Empty)]
      /\ UNCHANGED <<text, pins, pending, cache, fetching, uploads, done, fileRecord,
                     fileSeqCache, newest, edits, latest, hurried, fileMishaps>>
  BY DEF CreateFile
<1>2. /\ file' \in FileInode /\ file'.st = "live" /\ file'.cid = NoCid /\ file'.versions = <<>>
  BY <1>1, CidParts, NoVersions DEF NoInode, FileInode, State
<1>3. handle' \in [Handles -> Handle]
  <2>1. WriteHandle(Empty) \in Handle
    BY CidParts DEF WriteHandle, Closed, Handle
  <2> QED
    BY <1>0, <1>1, <2>1, FilesTypes
<1>4. FilesTypeOK'
  BY <1>0, <1>1, <1>2, <1>3, FilesTypes, FilesTypesNext
<1>5. ASSUME ~hurried PROVE GoodFile'
  <2>1. BoundsFit /\ NoneFits
    BY <1>1, <1>5, GoodSince DEF GoodFile
  <2>2. BoundsFit' /\ NoneFits'
    BY <1>1, <1>2, <2>1 DEF BoundsFit, NoneFits
  <2>3. /\ newest = 0 /\ latest = Empty /\ pending = {} /\ uploads = {} /\ done = <<>>
        /\ fileRecord.seq = -1 /\ fileSeqCache = -1 /\ Len(<<>>) = 0
    BY <1>1, <2>1, NoVersions DEF NoneFits
  <2>4. UploadFits'
    BY <1>1, <1>2, <2>3 DEF UploadFits
  <2>5. TextFits'
    BY <1>1, <1>2, <2>1, <2>3 DEF TextFits, BoundsFit, Waiting, Sending, GoodVersions
  <2>6. RecordFits'
    BY <1>1, <1>2, <2>3 DEF RecordFits
  <2> QED
    BY <2>2, <2>4, <2>5, <2>6 DEF GoodFile, OpenFits
<1> QED
  BY <1>1, <1>4, <1>5 DEF FilesInv, GoodFile, UploadsNumbered

LEMMA UnlinkKeeps == ASSUME FilesInv, Unlink PROVE FilesInv'
<1>0. FilesTypeOK /\ file \in FileInode
  BY FilesTypes DEF FilesInv
<1>1. file' \in FileInode /\ file'.st = "deleted"
  BY <1>0 DEF Unlink, FileInode, State
<1>2. FilesTypeOK'
  BY <1>0, <1>1, FilesTypes, FilesTypesNext DEF Unlink
<1> QED
  BY <1>1, <1>2 DEF FilesInv, UploadsNumbered, Unlink

(* A release that does not overlap another takes the file to its next text, *)
(* with the old one as a version or not                                     *)
LEMMA ReleaseKeeps == ASSUME FilesInv, NEW h \in Handles, ReleaseFile(h) PROVE FilesInv'
<1>0. FilesTypeOK /\ newest \in Nat
  BY GoodTypes
<1> DEFINE r == newest + 1
           t == handle[h].text
<1>1. /\ handle[h].mode = "write" /\ r \in Cids /\ newest' = r /\ text' = [text EXCEPT ![r] = t]
      /\ pending' = {t} /\ latest' = t /\ handle' = [handle EXCEPT ![h] = Closed]
      /\ hurried' = (hurried \/ Outstanding)
      /\ UNCHANGED <<pins, cache, fetching, done, fileRecord, fileSeqCache, edits, fileMishaps>>
  BY DEF ReleaseFile
<1>2. PICK aged \in BOOLEAN :
        LET all == IF IsThere THEN AllVersions(aged) ELSE <<>> IN
         /\ file' = IF IsThere THEN Awaiting(r, all) ELSE file
         /\ uploads' = uploads \cup {Started(r, all)}
  BY DEF ReleaseFile
<1> DEFINE every == IF IsThere THEN AllVersions(aged) ELSE <<>>
<1>3. file' = (IF IsThere THEN Awaiting(r, every) ELSE file) /\ uploads' = uploads \cup {Started(r, every)}
  BY <1>2
<1>4. every \in Seq(Version)
  BY <1>0, FilesTypes, AllVersionsParts
<1> HIDE DEF every
<1>5. r \in Nat /\ r # 0 /\ r > newest /\ t \in Text
  <2>1. handle[h] \in Handle
    BY <1>0, FilesTypes
  <2>2. t \in Text
    BY <2>1 DEF Handle
  <2>3. r \in Nat /\ r # 0 /\ r > newest
    BY <1>0
  <2> QED
    BY <2>2, <2>3
<1> HIDE DEF r, t
<1>6. /\ Kept(every) \in Versions /\ Len(Kept(every)) <= Len(every) /\ Pruned(every) \subseteq Cids
      /\ \A i \in 1..Len(Kept(every)) : i \in 1..Len(every) /\ Kept(every)[i] = every[i]
      /\ \A c \in Pruned(every) : \E i \in 1..Len(every) : i > Len(Kept(every)) /\ every[i].cid = c
  BY <1>4, KeptParts
<1> DEFINE aw == Awaiting(r, every)
           u == Started(r, every)
<1>7. /\ aw \in FileInode /\ aw.st = "live" /\ aw.cid = NoCid /\ aw.key = r /\ aw.versions = Kept(every)
  BY <1>1, <1>6, CidParts DEF Awaiting, FileInode, State
<1>8. /\ u \in Upload /\ u.nth = r /\ u.named = IsThere /\ u.versions = Kept(every)
      /\ u.pruned = Pruned(every) /\ u.stage = "upload"
  <2>1. IsThere \in BOOLEAN
    BY DEF IsThere
  <2> QED
    BY <1>1, <1>6, <2>1 DEF Started, Upload
<1> HIDE DEF aw, u
<1>9. file' = (IF IsThere THEN aw ELSE file) /\ uploads' = uploads \cup {u}
  BY <1>3 DEF aw, u
<1>10. FilesTypeOK'
  <2>1. file' \in FileInode /\ uploads' \subseteq Upload
    BY <1>0, <1>7, <1>8, <1>9, FilesTypes
  <2>2. text' \in [Cids -> Text] /\ pending' \subseteq Text /\ latest' \in Text /\ newest' \in Cids
    BY <1>0, <1>1, <1>5, FilesTypes
  <2>3. handle' \in [Handles -> Handle] /\ hurried' \in BOOLEAN
    BY <1>0, <1>1, ClosedHandle, FilesTypes DEF Outstanding
  <2> QED
    BY <1>0, <1>1, <2>1, <2>2, <2>3, FilesTypes, FilesTypesNext
<1>11. ASSUME ~hurried', file.st # "deleted" PROVE GoodFile'
  <2>1. /\ BoundsFit /\ NoneFits /\ OpenFits /\ ~hurried /\ uploads = {} /\ done = <<>>
    BY <1>1, <1>11, GoodTypes DEF Outstanding
  <2>2. IsThere
    BY <1>0, <1>1, <1>11, <2>1, FileParts DEF NoneFits, IsThere, State
  <2>3. TextFits /\ RecordFits
    BY <2>1, <2>2 DEF OpenFits
  <2>4. file' = aw /\ uploads' = {u} /\ IsThere'
    BY <1>7, <1>9, <2>1, <2>2 DEF IsThere
  <2>5. \A c \in Cids : c <= newest => text'[c] = text[c]
    BY <1>0, <1>1, <1>5, FilesTypes
  <2>6. text'[r] = t
    BY <1>0, <1>1, FilesTypes
  <2>7. BoundsFit'
    <3>1. \A e \in cache : e.cid \in Cids /\ e.cid <= newest /\ e.text = text[e.cid] /\ e.cid <= r
      BY <1>0, <1>5, <2>1, FilesTypes, CidParts DEF BoundsFit
    <3>2. pins \subseteq 1..r
      BY <1>0, <1>5, <2>1 DEF BoundsFit
    <3>3. text'[0] = text[0]
      BY <1>0, <2>5, CidParts DEF NoCid
    <3> QED
      BY <1>1, <2>1, <2>5, <3>1, <3>2, <3>3 DEF BoundsFit
  <2>8. NoneFits'
    BY <1>7, <2>4 DEF NoneFits
  <2>9. /\ pending = {}
        /\ fileRecord.seq >= 0 => fileRecord.cid = newest
        /\ file.cid # NoCid => file.cid = newest /\ file.key = newest /\ newest \in pins
        /\ GoodVersions(file.versions)
    <3>1. ~Waiting /\ ~Sending
      BY <2>1 DEF Waiting, Sending
    <3>2. file.st = "unresolved" => file.cid = NoCid
      BY <2>3 DEF RecordFits, Unresolved, NoInode
    <3>3. NoCid = 0
      BY DEF NoCid
    <3> QED
      BY <2>1, <2>2, <2>3, <3>1, <3>2, <3>3 DEF TextFits, RecordFits, IsThere
  <2>10. /\ \A i \in 1..Len(every) : every[i].key = every[i].cid /\ every[i].cid \in pins /\ every[i].cid <= newest
         /\ \A i, j \in 1..Len(every) : every[i].cid = every[j].cid => i = j
    <3> DEFINE vs == file.versions
    <3>1. /\ vs \in Seq(Version) /\ Len(vs) \in Nat
          /\ \A i \in 1..Len(vs) : vs[i].key = vs[i].cid /\ vs[i].cid \in pins /\ vs[i].cid < newest /\ vs[i].cid \in Nat
          /\ \A i, j \in 1..Len(vs) : vs[i].cid = vs[j].cid => i = j
      BY <1>0, <2>9, FileParts, VersionsParts, CidParts DEF GoodVersions, Version
    <3>2. \/ every = vs
          \/ /\ file.cid # NoCid /\ Len(every) = Len(vs) + 1
             /\ every[1].cid = file.cid /\ every[1].key = file.key
             /\ \A i \in 2..Len(every) : i - 1 \in 1..Len(vs) /\ every[i] = vs[i - 1]
      BY <1>0, <2>2, FilesTypes, AllVersionsParts DEF every
    <3> HIDE DEF vs
    <3>3. CASE every = vs
      BY <1>0, <3>1, <3>3
    <3>4. CASE /\ file.cid # NoCid /\ Len(every) = Len(vs) + 1
               /\ every[1].cid = file.cid /\ every[1].key = file.key
               /\ \A i \in 2..Len(every) : i - 1 \in 1..Len(vs) /\ every[i] = vs[i - 1]
      <4>1. every[1].cid = newest /\ every[1].key = newest /\ newest \in pins
        BY <2>9, <3>4
      <4>2. \A i \in 1..Len(every) : i = 1 \/ i \in 2..Len(every)
        BY <3>1, <3>4
      <4>3. \A i \in 2..Len(every) : every[i].key = every[i].cid /\ every[i].cid \in pins /\ every[i].cid < newest
        BY <3>1, <3>4
      <4>4. \A i, j \in 2..Len(every) : every[i].cid = every[j].cid => i = j
        <5>1. ASSUME NEW i \in 2..Len(every), NEW j \in 2..Len(every), every[i].cid = every[j].cid PROVE i = j
          <6>1. i - 1 \in 1..Len(vs) /\ j - 1 \in 1..Len(vs) /\ vs[i - 1].cid = vs[j - 1].cid
            BY <3>4, <5>1
          <6>2. i - 1 = j - 1
            BY <3>1, <6>1
          <6> QED
            BY <6>2
        <5> QED
          BY <5>1
      <4>5. \A i \in 2..Len(every) : every[i].cid # newest
        BY <1>0, <3>1, <3>4
      <4>6. \A i \in 1..Len(every) : every[i].key = every[i].cid /\ every[i].cid \in pins /\ every[i].cid <= newest
        <5>1. \A i \in 2..Len(every) : every[i].cid <= newest
          BY <1>0, <3>1, <3>4
        <5> QED
          BY <1>0, <4>1, <4>2, <4>3, <5>1
      <4> QED
        BY <4>1, <4>2, <4>4, <4>5, <4>6
    <3> QED
      BY <3>2, <3>3, <3>4
  <2>11. /\ \A i \in 1..Len(file'.versions) : /\ file'.versions[i].key = file'.versions[i].cid
                /\ file'.versions[i].cid \in pins' /\ file'.versions[i].cid < newest'
         /\ \A i, j \in 1..Len(file'.versions) : file'.versions[i].cid = file'.versions[j].cid => i = j
    <3>1. \A i \in 1..Len(every) : every[i].cid < r
      <4>1. \A i \in 1..Len(every) : every[i].cid \in Nat
        <5>1. \A i \in 1..Len(every) : every[i] \in Version
          BY <1>4, ElementOfSeq
        <5> QED
          BY <5>1, CidParts DEF Version
      <4> QED
        BY <1>0, <1>5, <2>10, <4>1
    <3> QED
      BY <1>1, <1>6, <1>7, <2>4, <2>10, <3>1
  <2>12. /\ newest' \notin u.pruned /\ fileRecord'.cid \notin u.pruned
         /\ \A i \in 1..Len(file'.versions) : file'.versions[i].cid \notin u.pruned
    <3>1. ASSUME NEW c \in Pruned(every)
          PROVE  c # r /\ c # fileRecord.cid /\ \A i \in 1..Len(Kept(every)) : Kept(every)[i].cid # c
      <4>1. PICK i \in 1..Len(every) : i > Len(Kept(every)) /\ every[i].cid = c
        BY <1>6
      <4>2. Len(Kept(every)) \in Nat /\ MaxVersions >= 1 /\ c \in Nat /\ c <= newest /\ c \in pins
        BY <1>4, <1>6, <2>10, <4>1, ElementOfSeq, VersionsParts, CidParts DEF Version
      <4>3. \A j \in 1..Len(Kept(every)) : Kept(every)[j].cid # c
        BY <1>6, <2>10, <4>1, <4>2
      <4>4. c # r
        BY <1>0, <1>5, <4>2
      <4>5. c # fileRecord.cid
        <5>1. CASE fileRecord.seq = -1
          BY <1>0, <2>1, <4>2, <5>1 DEF BoundsFit, NoCid
        <5>2. CASE fileRecord.seq # -1
          <6>1. fileRecord.cid = newest
            BY <2>1, <2>9, <5>2 DEF BoundsFit
          <6>2. every[i].cid = newest => i = 1 /\ Len(every) >= 1
            <7> DEFINE vs == file.versions
            <7>1. \A j \in 1..Len(vs) : vs[j].cid < newest /\ vs[j].cid \in Nat
              BY <1>0, <2>9, FileParts, VersionsParts, CidParts DEF GoodVersions, Version
            <7>2. \/ every = vs
                  \/ \A j \in 2..Len(every) : j - 1 \in 1..Len(vs) /\ every[j] = vs[j - 1]
              BY <1>0, <2>2, FilesTypes, AllVersionsParts DEF every
            <7> HIDE DEF vs
            <7>3. Len(every) \in Nat
              BY <1>4, LenProperties
            <7> QED
              BY <1>0, <7>1, <7>2, <7>3
          <6>3. Len(every) >= 1 => Len(Kept(every)) >= 1
            <7>1. Len(every) \in Nat
              BY <1>4, LenProperties
            <7>2. Len(Kept(every)) = IF Len(every) > MaxVersions THEN MaxVersions ELSE Len(every)
              BY <1>4, <7>1, KeptLength
            <7> QED
              BY <4>2, <7>1, <7>2
          <6> QED
            BY <4>1, <4>2, <6>1, <6>2, <6>3
        <5> QED
          BY <5>1, <5>2
      <4> QED
        BY <4>3, <4>4, <4>5
    <3> QED
      BY <1>1, <1>7, <1>8, <2>4, <3>1
  <2>13. UploadFits'
    <3>2. /\ done' = <<>> /\ Len(done') = 0
      BY <1>1, <2>1, NoVersions
    <3>3. /\ u.nth = newest' /\ newest' # 0 /\ u.named /\ file'.st = "live" /\ u.versions = file'.versions
      BY <1>1, <1>5, <1>7, <1>8, <2>2, <2>4
    <3>4. ASSUME NEW v \in uploads' PROVE v = u
      BY <2>4
    <3>5. \A v \in uploads' :
        /\ v.nth = newest' /\ newest' # 0 /\ v.named /\ file'.st = "live" /\ v.versions = file'.versions
        /\ v.stage = "upload" => done' = <<>> /\ Spared(v.pruned)'
        /\ v.stage = "publish" => v.seq = fileRecord'.seq /\ v.seq >= 0
      BY <1>8, <2>12, <3>2, <3>3, <3>4 DEF Spared
    <3> QED
      BY <3>2, <3>4, <3>5 DEF UploadFits
  <2>14. TextFits'
    <3>1. Sending' /\ Waiting'
      BY <1>8, <2>4 DEF Sending, Waiting
    <3>2. GoodVersions(file.versions)'
      BY <2>11 DEF GoodVersions
    <3>3. latest' = text'[newest']
      BY <1>1, <2>6
    <3>4. newest' # 0 /\ pending' = {latest'} /\ file'.st = "live" /\ file'.cid = NoCid /\ file'.key = newest'
      BY <1>1, <1>5, <1>7, <2>4
    <3> QED
      BY <3>1, <3>2, <3>3, <3>4 DEF TextFits
  <2>15. RecordFits'
    BY <1>1, <1>7, <2>3, <2>4 DEF RecordFits
  <2> QED
    BY <2>7, <2>8, <2>13, <2>14, <2>15 DEF GoodFile, OpenFits
<1>12. file.st = "deleted" => file'.st = "deleted"
  BY <1>9 DEF IsThere
<1>13. UploadsNumbered'
  BY <1>5, <1>8, <1>9 DEF FilesInv, UploadsNumbered, NoCid
<1> QED
  BY <1>10, <1>11, <1>12, <1>13 DEF FilesInv, GoodFile

-----------------------------------------------------------------------------
(* MountFiles: uploads                                                      *)

(* While the thread of an upload runs it is the only one                    *)
LEMMA OnlyUpload ==
    ASSUME FilesInv, ~hurried, file.st # "deleted", NEW u \in uploads
    PROVE  /\ BoundsFit /\ NoneFits /\ UploadFits /\ TextFits /\ RecordFits
           /\ uploads = {u} /\ file.st = "live"
           /\ u.nth = newest /\ newest # 0 /\ u.named /\ u.versions = file.versions
           /\ u.stage = "upload" => done = <<>> /\ Spared(u.pruned)
           /\ u.stage = "publish" => u.seq = fileRecord.seq /\ u.seq >= 0
<1>1. BoundsFit /\ NoneFits /\ OpenFits /\ file.st \in State
  BY GoodTypes, FileParts
<1>2. IsThere
  BY <1>1 DEF NoneFits, IsThere, State
<1>3. UploadFits /\ TextFits /\ RecordFits
  BY <1>1, <1>2 DEF OpenFits
<1>4. uploads = {u}
  BY <1>3 DEF UploadFits
<1> QED
  BY <1>1, <1>3, <1>4 DEF UploadFits

LEMMA UploadedKeeps == ASSUME FilesInv, NEW u \in uploads, Uploaded(u) PROVE FilesInv'
<1>0. FilesTypeOK /\ u \in Upload /\ done \in Seq(Completion) /\ newest \in Nat
  BY GoodTypes
<1> DEFINE e == [cid |-> u.nth, pruned |-> u.pruned]
           v == [u EXCEPT !.stage = "resolve"]
<1>1. /\ u.stage = "upload" /\ pins' = pins \cup {u.nth} /\ done' = Append(done, e)
      /\ uploads' = (uploads \ {u}) \cup (IF u.named THEN {v} ELSE {})
      /\ UNCHANGED <<file, text, pending, cache, fetching, handle, fileRecord, fileSeqCache,
                     newest, edits, latest, hurried, fileMishaps>>
  BY DEF Uploaded
<1>2. v \in Upload /\ v.nth = u.nth /\ v.named = u.named /\ v.versions = u.versions /\ v.stage = "resolve"
  BY <1>0, UploadParts
<1>3. e \in Completion /\ e.cid = u.nth /\ e.pruned = u.pruned
  BY <1>0, UploadParts DEF Completion
<1> HIDE DEF e, v
<1>4. done' \in Seq(Completion)
  BY <1>0, <1>1, <1>3, AppendProperties
<1>5. FilesTypeOK'
  <2>1. pins' \subseteq Cids \ {NoCid}
    <3>1. u.nth \in Cids \ {NoCid}
      BY <1>0, UploadParts DEF FilesInv, UploadsNumbered
    <3> QED
      BY <1>0, <1>1, <3>1, FilesTypes
  <2>2. uploads' \subseteq Upload
    BY <1>0, <1>1, <1>2, FilesTypes
  <2> QED
    BY <1>0, <1>1, <1>4, <2>1, <2>2, FilesTypes, FilesTypesNext
<1>6. ASSUME ~hurried, file.st # "deleted" PROVE GoodFile'
  <2>1. /\ BoundsFit /\ NoneFits /\ UploadFits /\ TextFits /\ RecordFits
        /\ uploads = {u} /\ file.st = "live"
        /\ u.nth = newest /\ newest # 0 /\ u.named /\ u.versions = file.versions
        /\ done = <<>> /\ Spared(u.pruned)
    BY <1>1, <1>6, OnlyUpload
  <2>2. uploads' = {v}
    BY <1>1, <2>1
  <2>3. Len(done') = 1 /\ done'[1] = e /\ done' # <<>>
    <3>1. Len(done) = 0
      BY <2>1, NoVersions
    <3> QED
      BY <1>0, <1>1, <1>3, <3>1, AppendProperties, NoVersions
  <2>4. BoundsFit' /\ NoneFits'
    <3>1. pins' \subseteq 1..newest
      BY <1>0, <1>1, <2>1 DEF BoundsFit
    <3>2. BoundsFit'
      BY <1>1, <2>1, <3>1 DEF BoundsFit
    <3>3. NoneFits'
      BY <1>1, <2>1 DEF NoneFits
    <3> QED
      BY <3>2, <3>3
  <2>5. Sending /\ ~Sending' /\ Waiting /\ Waiting'
    BY <1>1, <1>2, <2>2, <2>3 DEF Sending, Waiting
  <2>6. UploadFits'
    <3>1. \A w \in uploads' : w = v
      BY <2>2
    <3>2. /\ newest' \notin e.pruned /\ fileRecord'.cid \notin e.pruned
          /\ \A i \in 1..Len(file'.versions) : file'.versions[i].cid \notin e.pruned
      BY <1>1, <1>3, <2>1 DEF Spared
    <3>3. \A w \in uploads' :
            /\ w.nth = newest' /\ newest' # 0 /\ w.named /\ file'.st = "live" /\ w.versions = file'.versions
            /\ w.stage # "upload" /\ w.stage # "publish"
      BY <1>1, <1>2, <2>1, <3>1
    <3> QED
      BY <1>1, <1>3, <2>1, <2>3, <3>1, <3>2, <3>3 DEF UploadFits, Spared
  <2>7. GoodVersions(file.versions)'
    BY <1>1, <2>1 DEF TextFits, GoodVersions
  <2>8. TextFits'
    BY <1>1, <2>1, <2>5, <2>7 DEF TextFits
  <2>9. RecordFits'
    BY <1>1, <2>1, <2>2 DEF RecordFits
  <2> QED
    BY <2>1, <2>4, <2>6, <2>8, <2>9 DEF GoodFile, OpenFits
<1>7. UploadsNumbered'
  BY <1>1, <1>2 DEF FilesInv, UploadsNumbered
<1> QED
  BY <1>1, <1>5, <1>6, <1>7 DEF FilesInv, GoodFile

LEMMA DrainKeeps == ASSUME FilesInv, Drain PROVE FilesInv'
<1>0. FilesTypeOK /\ done \in Seq(Completion) /\ newest \in Nat
  BY GoodTypes
<1>1. /\ done # <<>> /\ done' = Tail(done) /\ pending' = {}
      /\ file' = IF IsThere /\ file.cid = NoCid THEN [file EXCEPT !.cid = Head(done).cid] ELSE file
      /\ cache' = cache \/ \E t \in pending : Remember(Head(done).cid, t)
      /\ pins' = pins \ Head(done).pruned
      /\ UNCHANGED <<text, fetching, handle, uploads, fileRecord, fileSeqCache, newest,
                     edits, latest, hurried, fileMishaps>>
  BY DEF Drain
<1>2. /\ Head(done) = done[1] /\ done[1] \in Completion
      /\ done' \in Seq(Completion) /\ Len(done') = Len(done) - 1 /\ Len(done) \in Nat /\ Len(done) >= 1
  BY <1>0, <1>1, HeadTailProperties, EmptySeq, LenProperties, ElementOfSeq
<1> DEFINE c == done[1].cid
           ps == done[1].pruned
<1>3. c \in Cids /\ ps \subseteq Cids
  BY <1>2 DEF Completion
<1> HIDE DEF c, ps
<1>4. /\ file' \in FileInode /\ file'.st = file.st /\ file'.key = file.key /\ file'.versions = file.versions
      /\ file'.cid = IF IsThere /\ file.cid = NoCid THEN c ELSE file.cid
  <2>1. file' = IF IsThere /\ file.cid = NoCid THEN [file EXCEPT !.cid = c] ELSE file
    BY <1>1, <1>2 DEF c
  <2>2. file \in FileInode
    BY <1>0, FilesTypes
  <2> QED
    BY <1>3, <2>1, <2>2 DEF FileInode
<1>5. /\ cache' \subseteq [cid : Cids, text : Text]
      /\ \A e \in cache' : e \in cache \/ (e.cid = c /\ e.text \in pending)
  <2>1. cache' = cache \/ \E t \in pending : Remember(c, t)
    BY <1>1, <1>2 DEF c
  <2>2. pending \subseteq Text /\ cache \subseteq [cid : Cids, text : Text]
    BY <1>0, FilesTypes
  <2>3. CASE cache' = cache
    BY <2>2, <2>3
  <2>4. CASE \E t \in pending : Remember(c, t)
    <3>1. PICK t \in pending : Remember(c, t)
      BY <2>4
    <3> QED
      BY <1>0, <1>3, <2>2, <3>1, RememberParts
  <2> QED
    BY <2>1, <2>3, <2>4
<1>6. pins' = pins \ ps
  BY <1>1, <1>2 DEF ps
<1>7. FilesTypeOK'
  <2>1. pins' \subseteq Cids \ {NoCid} /\ pending' \subseteq Text
    BY <1>0, <1>1, <1>6, FilesTypes
  <2> QED
    BY <1>0, <1>1, <1>2, <1>4, <1>5, <2>1, FilesTypes, FilesTypesNext
<1>8. ASSUME ~hurried, file.st # "deleted" PROVE GoodFile'
  <2>1. BoundsFit /\ NoneFits /\ OpenFits /\ file.st \in State
    BY <1>0, <1>8, GoodTypes, FileParts
  <2>2. IsThere
    BY <1>1, <1>8, <2>1 DEF NoneFits, IsThere, State
  <2>3. UploadFits /\ TextFits /\ RecordFits
    BY <2>1, <2>2 DEF OpenFits
  <2>4. /\ c = newest /\ newest # 0 /\ Spared(ps) /\ ~Sending /\ pending = {latest} /\ latest = text[newest]
        /\ file.st = "live" /\ file.cid = NoCid /\ file.key = newest
    BY <1>1, <2>3 DEF UploadFits, TextFits, Sending, Waiting, c, ps
  <2>5. Len(done') = 0 /\ done' = <<>>
    BY <1>1, <1>2, <2>3, EmptySeq DEF UploadFits
  <2>6. file'.cid = newest /\ file'.st = "live" /\ newest \in pins' /\ newest # NoCid
    BY <1>4, <1>6, <2>2, <2>3, <2>4 DEF TextFits, Spared, NoCid
  <2>7. BoundsFit'
    BY <1>0, <1>1, <1>5, <1>6, <2>1, <2>4 DEF BoundsFit
  <2>8. NoneFits'
    BY <2>6 DEF NoneFits
  <2>9. ~Sending' /\ ~Waiting'
    BY <1>1, <2>4, <2>5 DEF Sending, Waiting
  <2>10. GoodVersions(file.versions)'
    <3>1. \A i \in 1..Len(file.versions) : file.versions[i].cid \in pins'
      BY <1>6, <2>3, <2>4 DEF TextFits, GoodVersions, Spared
    <3> QED
      BY <1>1, <1>4, <2>3, <3>1 DEF TextFits, GoodVersions
  <2>11. UploadFits'
    <3>1. \A u \in uploads : u.stage # "upload"
      BY <2>4 DEF Sending
    <3> QED
      BY <1>1, <1>4, <2>3, <2>5, <3>1 DEF UploadFits
  <2>12. TextFits'
    BY <1>1, <1>4, <2>4, <2>6, <2>9, <2>10 DEF TextFits
  <2>13. RecordFits'
    BY <1>1, <1>4, <1>6, <2>3, <2>4, <2>6 DEF RecordFits, Spared
  <2> QED
    BY <2>7, <2>8, <2>11, <2>12, <2>13 DEF GoodFile, OpenFits
<1> QED
  BY <1>1, <1>4, <1>7, <1>8 DEF FilesInv, GoodFile, UploadsNumbered

LEMMA ResolveFileKeeps == ASSUME FilesInv, NEW u \in uploads, ResolveFile(u) PROVE FilesInv'
<1>0. FilesTypeOK /\ u \in Upload /\ fileRecord.seq \in Int /\ fileSeqCache \in Int
  BY GoodTypes, FileParts, FilesTypes
<1>1. PICK n \in 0..fileRecord.seq \cup ({fileSeqCache} \ {-1}) :
         LET seq == IF n > fileSeqCache THEN n ELSE fileSeqCache IN
         /\ uploads' = (uploads \ {u}) \cup {[u EXCEPT !.stage = "publish", !.seq = seq]}
         /\ fileSeqCache' = seq
         /\ hurried' = (hurried \/ (fileSeqCache = -1 /\ n < fileRecord.seq))
  BY DEF ResolveFile
<1> DEFINE seq == IF n > fileSeqCache THEN n ELSE fileSeqCache
           v == [u EXCEPT !.stage = "publish", !.seq = seq]
<1>2. /\ u.stage = "resolve" /\ uploads' = (uploads \ {u}) \cup {v} /\ fileSeqCache' = seq
      /\ UNCHANGED <<file, text, pins, pending, cache, fetching, handle, done, fileRecord,
                     newest, edits, latest, fileMishaps>>
  BY <1>1 DEF ResolveFile
<1>3. n \in Int /\ seq \in Int
  BY <1>0
<1>4. ~hurried' => seq = fileRecord.seq \/ (hurried \/ fileSeqCache \notin {-1, fileRecord.seq})
  <2>1. n \in 0..fileRecord.seq \/ n = fileSeqCache
    BY <1>1
  <2>2. CASE fileSeqCache = -1
    <3>1. ~hurried' => n \in 0..fileRecord.seq /\ ~(n < fileRecord.seq)
      BY <1>1, <2>2
    <3> QED
      BY <1>0, <1>3, <2>2, <3>1
  <2>3. CASE fileSeqCache = fileRecord.seq
    BY <1>0, <1>3, <2>1, <2>3
  <2> QED
    BY <2>2, <2>3
<1> HIDE DEF seq
<1>5. v \in Upload /\ v.nth = u.nth /\ v.named = u.named /\ v.versions = u.versions /\ v.stage = "publish" /\ v.seq = seq
  BY <1>0, <1>3, UploadParts
<1> HIDE DEF v
<1>6. FilesTypeOK'
  <2>1. uploads' \subseteq Upload /\ hurried' \in BOOLEAN /\ fileSeqCache' \in Int
    BY <1>0, <1>1, <1>2, <1>3, <1>5, FilesTypes DEF seq
  <2> QED
    BY <1>0, <1>2, <2>1, FilesTypes, FilesTypesNext
<1>7. ASSUME ~hurried', file.st # "deleted" PROVE GoodFile'
  <2>1. /\ ~hurried /\ BoundsFit /\ NoneFits /\ UploadFits /\ TextFits /\ RecordFits
        /\ uploads = {u} /\ file.st = "live"
        /\ u.nth = newest /\ newest # 0 /\ u.named /\ u.versions = file.versions
    BY <1>1, <1>7, OnlyUpload
  <2>2. uploads' = {v}
    BY <1>2, <2>1
  <2>3. seq = fileRecord.seq
    BY <1>4, <1>7, <2>1 DEF RecordFits
  <2>4. seq >= 0
    BY <1>0, <1>1, <2>1, <2>3 DEF RecordFits, BoundsFit
  <2>5. BoundsFit' /\ NoneFits'
    BY <1>2, <2>1 DEF BoundsFit, NoneFits
  <2>6. ~Sending /\ ~Sending' /\ (Waiting <=> Waiting')
    BY <1>2, <1>5, <2>1, <2>2 DEF Sending, Waiting
  <2>7. UploadFits'
    BY <1>2, <1>5, <2>1, <2>2, <2>3, <2>4 DEF UploadFits, Spared
  <2>8. TextFits'
    BY <1>2, <2>1, <2>2, <2>6 DEF TextFits, GoodVersions
  <2>9. RecordFits'
    BY <1>2, <2>1, <2>2, <2>3 DEF RecordFits
  <2> QED
    BY <2>5, <2>7, <2>8, <2>9 DEF GoodFile, OpenFits
<1>8. UploadsNumbered'
  BY <1>2, <1>5 DEF FilesInv, UploadsNumbered
<1> QED
  BY <1>2, <1>6, <1>7, <1>8 DEF FilesInv, GoodFile

LEMMA NameNotFoundKeeps == ASSUME FilesInv, NEW u \in uploads, NameNotFound(u) PROVE FilesInv'
<1>0. FilesTypeOK
  BY GoodTypes
<1>1. /\ u.stage = "resolve" /\ fileRecord.seq = -1 /\ uploads' = uploads \ {u}
      /\ UNCHANGED <<file, text, pins, pending, cache, fetching, handle, done, fileRecord,
                   fileSeqCache, newest, edits, latest, hurried, fileMishaps>>
  BY DEF NameNotFound
<1>2. FilesTypeOK'
  <2>1. uploads' \subseteq Upload
    BY <1>0, <1>1, FilesTypes
  <2> QED
    BY <1>0, <1>1, <2>1, FilesTypes, FilesTypesNext
<1>3. ASSUME ~hurried, file.st # "deleted" PROVE GoodFile'
  <2>1. /\ BoundsFit /\ NoneFits /\ UploadFits /\ TextFits /\ RecordFits
        /\ uploads = {u} /\ file.st = "live" /\ newest # 0
    BY <1>3, OnlyUpload
  <2>2. uploads' = {}
    BY <1>1, <2>1
  <2>3. BoundsFit' /\ NoneFits'
    BY <1>1, <2>1 DEF BoundsFit, NoneFits
  <2>4. ~Sending /\ ~Sending' /\ (Waiting <=> Waiting')
    BY <1>1, <2>1, <2>2 DEF Sending, Waiting
  <2>5. UploadFits'
    BY <1>1, <2>1, <2>2 DEF UploadFits, Spared
  <2>6. TextFits'
    BY <1>1, <2>1, <2>2, <2>4 DEF TextFits, GoodVersions
  <2>7. RecordFits'
    BY <1>1, <2>1, <2>2 DEF RecordFits
  <2> QED
    BY <2>3, <2>5, <2>6, <2>7 DEF GoodFile, OpenFits
<1> QED
  BY <1>1, <1>2, <1>3 DEF FilesInv, GoodFile, UploadsNumbered

LEMMA AcceptParts ==
    ASSUME FilesTypeOK, NEW u \in Upload, AcceptFile(u)
    PROVE  /\ fileRecord' \in FileRecord
           /\ u.seq + 1 >= fileRecord.seq =>
                fileRecord'.seq = u.seq + 1 /\ fileRecord'.cid = u.nth /\ fileRecord'.key = u.nth
                /\ fileRecord'.versions = u.versions
<1>1. fileRecord \in FileRecord
  BY FilesTypes
<1>2. u.nth \in Cids /\ u.versions \in Versions /\ u.seq + 1 \in Int
  BY DEF Upload
<1> QED
  BY <1>1, <1>2 DEF AcceptFile, FileRecord

LEMMA PublishFileKeeps == ASSUME FilesInv, NEW u \in uploads, PublishFile(u) PROVE FilesInv'
<1>0. FilesTypeOK /\ u \in Upload /\ fileSeqCache \in Int /\ u.seq \in Int
  BY GoodTypes, FilesTypes, UploadParts
<1>1. /\ u.stage = "publish" /\ AcceptFile(u) /\ uploads' = uploads \ {u}
      /\ fileSeqCache' = IF u.seq + 1 > fileSeqCache THEN u.seq + 1 ELSE fileSeqCache
      /\ UNCHANGED <<file, text, pins, pending, cache, fetching, handle, done,
                   newest, edits, latest, hurried, fileMishaps>>
  BY DEF PublishFile, RecordFilePublish
<1>2. /\ fileRecord' \in FileRecord
      /\ u.seq + 1 >= fileRecord.seq =>
                fileRecord'.seq = u.seq + 1 /\ fileRecord'.cid = u.nth /\ fileRecord'.key = u.nth
                /\ fileRecord'.versions = u.versions
  BY <1>0, <1>1, AcceptParts
<1>3. FilesTypeOK'
  <2>1. uploads' \subseteq Upload /\ fileSeqCache' \in Int
    BY <1>0, <1>1, FilesTypes
  <2> QED
    BY <1>0, <1>1, <1>2, <2>1, FilesTypes, FilesTypesNext
<1>4. ASSUME ~hurried, file.st # "deleted" PROVE GoodFile'
  <2>1. /\ BoundsFit /\ NoneFits /\ UploadFits /\ TextFits /\ RecordFits
        /\ uploads = {u} /\ file.st = "live" /\ u.nth = newest /\ newest # 0 /\ u.versions = file.versions
        /\ u.seq = fileRecord.seq /\ u.seq >= 0
    BY <1>1, <1>4, OnlyUpload
  <2>2. uploads' = {}
    BY <1>1, <2>1
  <2>3. /\ fileRecord'.seq = u.seq + 1 /\ fileRecord'.cid = newest /\ fileRecord'.key = newest
        /\ fileRecord'.versions = file.versions
    BY <1>0, <1>2, <2>1
  <2>4. ~Sending /\ ~Sending' /\ (Waiting <=> Waiting') /\ newest \in pins
    BY <1>1, <2>1, <2>2 DEF Sending, Waiting, TextFits
  <2>5. BoundsFit' /\ NoneFits'
    BY <1>0, <1>1, <2>1, <2>3 DEF BoundsFit, NoneFits
  <2>6. UploadFits'
    BY <1>1, <2>1, <2>2, <2>3 DEF UploadFits, Spared
  <2>7. TextFits'
    BY <1>0, <1>1, <2>1, <2>2, <2>3, <2>4 DEF TextFits, GoodVersions, Waiting
  <2>8. RecordFits'
    <3>1. fileSeqCache' = u.seq + 1
      BY <1>0, <1>1, <2>1 DEF RecordFits
    <3> QED
      BY <1>1, <2>1, <2>3, <2>4, <3>1 DEF RecordFits
  <2> QED
    BY <2>5, <2>6, <2>7, <2>8 DEF GoodFile, OpenFits
<1> QED
  BY <1>1, <1>3, <1>4 DEF FilesInv, GoodFile, UploadsNumbered

LEMMA ThreadFailsKeeps == ASSUME FilesInv, NEW u \in uploads, ThreadFails(u) PROVE FilesInv'
<1>0. FilesTypeOK /\ u \in Upload
  BY GoodTypes
<1>1. /\ uploads' = uploads \ {u} /\ hurried' = TRUE /\ fileMishaps' = fileMishaps + 1
      /\ UNCHANGED fileRecord \/ AcceptFile(u)
      /\ UNCHANGED <<file, text, pins, pending, cache, fetching, handle, done, fileSeqCache,
                   newest, edits, latest>>
  BY DEF ThreadFails
<1>2. fileRecord' \in FileRecord
  BY <1>0, <1>1, AcceptParts, FilesTypes
<1>3. FilesTypeOK'
  <2>1. uploads' \subseteq Upload /\ fileMishaps' \in Nat /\ hurried' \in BOOLEAN
    BY <1>0, <1>1, FilesTypes
  <2> QED
    BY <1>0, <1>1, <1>2, <2>1, FilesTypes, FilesTypesNext
<1> QED
  BY <1>1, <1>3 DEF FilesInv, UploadsNumbered

-----------------------------------------------------------------------------
(* MountFiles: the vault is mounted again                                   *)

(* A file whose record is the last thing published                          *)
LEMMA PublishedParts ==
    ASSUME FilesInv, ~hurried, IsThere, uploads = {}, fileRecord.seq # -1
    PROVE  /\ BoundsFit /\ NoneFits /\ UploadFits /\ TextFits /\ RecordFits
           /\ fileRecord.seq >= 0 /\ fileRecord.cid = newest /\ fileRecord.key = newest
           /\ newest # 0 /\ newest \in pins
           /\ GoodVersions(fileRecord.versions)
<1>1. BoundsFit /\ NoneFits /\ UploadFits /\ TextFits /\ RecordFits /\ newest \in Nat
  BY GoodTypes DEF IsThere, OpenFits
<1>2. fileRecord.seq >= 0
  BY <1>1 DEF BoundsFit
<1>3. fileRecord.cid = newest /\ fileRecord.key = newest /\ newest \in pins
  BY <1>1, <1>2 DEF RecordFits
<1>4. newest # 0
  BY <1>1, <1>3 DEF BoundsFit
<1>5. GoodVersions(fileRecord.versions)
  BY <1>1, <1>2 DEF RecordFits, TextFits
<1> QED
  BY <1>1, <1>2, <1>3, <1>4, <1>5

(* It is resolved again, or not yet                                         *)
LEMMA RemountKeeps == ASSUME FilesInv, Remount \/ ResolvePointer PROVE FilesInv'
<1>0. FilesTypeOK
  BY GoodTypes
<1>1. CASE ResolvePointer
  <2>1. /\ file.st = "unresolved" /\ fileRecord.seq >= 0 /\ file' = Resolved(fileRecord)
        /\ UNCHANGED <<text, pins, pending, cache, fetching, handle, uploads, done, fileSeqCache,
                       fileRecord, newest, edits, latest, hurried, fileMishaps>>
    BY <1>1 DEF ResolvePointer, session
  <2>2. /\ file' \in FileInode /\ file'.st = "live" /\ file'.cid = fileRecord.cid /\ file'.key = fileRecord.key
        /\ file'.versions = fileRecord.versions
    BY <1>0, <2>1, FileParts
  <2>3. FilesTypeOK'
    BY <1>0, <2>1, <2>2, FilesTypes, FilesTypesNext
  <2>4. ASSUME ~hurried PROVE GoodFile'
    <3>1. IsThere /\ IsThere' /\ fileRecord.seq # -1
      BY <1>0, <2>1, <2>2, FileParts DEF IsThere
    <3>2. /\ RecordFits /\ uploads = {} /\ done = <<>>
      BY <2>1, <2>4, <3>1, GoodTypes DEF OpenFits, RecordFits, IsThere
    <3>3. /\ BoundsFit /\ NoneFits /\ UploadFits /\ TextFits
          /\ fileRecord.cid = newest /\ fileRecord.key = newest
          /\ newest # 0 /\ newest \in pins /\ GoodVersions(fileRecord.versions)
      BY <2>4, <3>1, <3>2, PublishedParts
    <3>4. ~Waiting /\ ~Waiting' /\ ~Sending /\ ~Sending'
      BY <2>1, <3>2 DEF Waiting, Sending
    <3>5. BoundsFit' /\ NoneFits'
      BY <2>1, <2>2, <3>3 DEF BoundsFit, NoneFits
    <3>6. UploadFits'
      BY <2>1, <3>2, NoVersions DEF UploadFits
    <3>7. TextFits'
      <4>1. GoodVersions(file.versions)'
        BY <2>1, <2>2, <3>3 DEF GoodVersions
      <4> QED
        BY <2>1, <2>2, <3>3, <3>4, <4>1 DEF TextFits, NoCid
    <3>8. RecordFits'
      BY <2>1, <2>2, <3>2, <3>3 DEF RecordFits
    <3> QED
      BY <3>5, <3>6, <3>7, <3>8 DEF GoodFile, OpenFits
  <2> QED
    BY <2>1, <2>2, <2>3, <2>4 DEF FilesInv, GoodFile, UploadsNumbered
<1>2. CASE Remount
  <2>1. /\ IF ~IsThere THEN UNCHANGED file
            ELSE file' = Unresolved \/ file' = Resolved(fileRecord)
        /\ pending' = {} /\ cache' = {} /\ fetching' = {} /\ uploads' = {} /\ done' = <<>>
        /\ handle' = [h \in Handles |-> Closed] /\ fileSeqCache' = -1 /\ fileMishaps' = fileMishaps + 1
        /\ hurried' = (hurried \/ uploads # {} \/ fileRecord.seq = -1)
        /\ UNCHANGED <<text, pins, fileRecord, newest, edits, latest>>
    BY <1>2 DEF Remount
  <2>2. /\ file' \in FileInode
        /\ IsThere => \/ file' = Unresolved /\ file'.st = "unresolved" /\ file'.versions = <<>>
                      \/ /\ file'.st = "live" /\ file'.cid = fileRecord.cid /\ file'.key = fileRecord.key
                         /\ file'.versions = fileRecord.versions
        /\ ~IsThere => file' = file
    BY <1>0, <2>1, FileParts, FilesTypes
  <2>3. FilesTypeOK'
    <3>1. handle' \in [Handles -> Handle] /\ hurried' \in BOOLEAN /\ fileMishaps' \in Nat
      BY <1>0, <2>1, ClosedHandle, FilesTypes
    <3>2. done' \in Seq(Completion) /\ fileSeqCache' \in Int
      BY <2>1
    <3> QED
      BY <1>0, <2>1, <2>2, <3>1, <3>2, FilesTypes, FilesTypesNext
  <2>4. ASSUME ~hurried', file'.st # "deleted" PROVE GoodFile'
    <3>1. ~hurried /\ uploads = {} /\ fileRecord.seq # -1
      BY <2>1, <2>4
    <3>2. IsThere
      BY <1>0, <2>2, <2>4, <3>1, GoodTypes, FileParts DEF NoneFits, IsThere, State
    <3>3. /\ BoundsFit /\ NoneFits /\ UploadFits /\ TextFits /\ RecordFits
          /\ fileRecord.seq >= 0 /\ fileRecord.cid = newest /\ fileRecord.key = newest
          /\ newest # 0 /\ newest \in pins /\ GoodVersions(fileRecord.versions)
      BY <3>1, <3>2, PublishedParts
    <3>4. ~Waiting' /\ ~Sending'
      BY <2>1 DEF Waiting, Sending
    <3>5. BoundsFit'
      BY <2>1, <3>3 DEF BoundsFit
    <3>6. NoneFits'
      BY <2>2, <3>2 DEF NoneFits
    <3>7. UploadFits'
      BY <2>1, NoVersions DEF UploadFits
    <3>8. GoodVersions(file.versions)'
      <4>1. CASE file'.versions = <<>>
        BY <4>1, NoVersions DEF GoodVersions
      <4>2. CASE file'.versions = fileRecord.versions
        BY <2>1, <3>3, <4>2 DEF GoodVersions
      <4> QED
        BY <2>2, <3>2, <4>1, <4>2
    <3>9. TextFits'
      BY <2>1, <2>2, <3>2, <3>3, <3>4, <3>8 DEF TextFits, NoCid
    <3>10. RecordFits'
      <4>1. fileRecord' = fileRecord /\ pins' = pins /\ newest' = newest
        BY <2>1
      <4>2. GoodVersions(fileRecord.versions)'
        BY <3>3, <4>1 DEF GoodVersions
      <4>3. Unresolved' = Unresolved
        BY DEF Unresolved, NoInode
      <4> QED
        BY <2>1, <2>2, <3>2, <3>3, <4>1, <4>2, <4>3 DEF RecordFits
    <3> QED
      BY <3>5, <3>6, <3>7, <3>9, <3>10 DEF GoodFile, OpenFits
  <2> QED
    BY <2>1, <2>3, <2>4 DEF FilesInv, GoodFile, UploadsNumbered
<1> QED
  BY <1>1, <1>2

LEMMA FilesStep == FilesInv /\ [FilesNext]_filesVars => FilesInv'
<1> SUFFICES ASSUME FilesInv, [FilesNext]_filesVars PROVE FilesInv'
  OBVIOUS
<1>1. CASE Calls
  BY <1>1, OpenReadKeeps, ReadKeeps, CreateFileKeeps, OpenToWriteKeeps, WriteKeeps, ReleaseKeeps, UnlinkKeeps
     DEF Calls
<1>2. CASE Background
  BY <1>2, FetchedKeeps, UploadedKeeps, ResolveFileKeeps, NameNotFoundKeeps, PublishFileKeeps, ThreadFailsKeeps,
     DrainKeeps DEF Background
<1>3. CASE Mounting
  BY <1>3, RemountKeeps, CleanTempKeeps DEF Mounting
<1>4. CASE UNCHANGED filesVars
  BY <1>4 DEF filesVars, FilesInv, FilesTypeOK, UploadsNumbered, BoundsFit, NoneFits, OpenFits, IsThere, UploadFits,
     TextFits, RecordFits, Spared, Sending, Waiting, GoodVersions
<1> QED
  BY <1>1, <1>2, <1>3, <1>4 DEF FilesNext

LEMMA FilesInvariant == FilesSpec => []FilesInv
<1>1. FilesInit => FilesInv
  BY FilesStart
<1>2. FilesInv /\ [FilesNext]_filesVars => FilesInv'
  BY FilesStep
<1> QED
  BY <1>1, <1>2, PTL DEF FilesSpec

(* The inode, its caches, handles, uploads and record are as declared       *)
THEOREM FilesTypeCorrect == FilesSpec => []FilesTypeOK
<1>1. FilesInv => FilesTypeOK
  BY DEF FilesInv
<1> QED
  BY <1>1, FilesInvariant, PTL

(* A reader of the file gets the text last released: from the pending text, *)
(* the cache or the API, whatever was drained, published or mounted again   *)
(* in between (release, drain_upload_completions, publish_file_metadata)    *)
THEOREM LatestIsRead == FilesSpec => []ReadsLatest
<1>1. FilesInv => ReadsLatest
  <2> SUFFICES ASSUME FilesInv, file.st = "live", ~hurried
               PROVE  /\ file.cid = NoCid => pending = {latest} \/ (pending = {} /\ latest = Empty)
                      /\ file.cid # NoCid => text[file.cid] = latest /\ file.key = file.cid
                      /\ \A e \in cache : e.text = text[e.cid]
    BY DEF ReadsLatest
  <2>1. BoundsFit /\ TextFits
    BY GoodTypes DEF OpenFits, IsThere
  <2> QED
    BY <2>1 DEF BoundsFit, TextFits
<1> QED
  BY <1>1, FilesInvariant, PTL

(* The content of the file, every version its inode keeps and the content   *)
(* its record names are pinned under the keys that go with them: pruning    *)
(* unpins nothing that is still named                                       *)
THEOREM KeptStaysReadable == FilesSpec => []KeptReadable
<1>1. FilesInv => KeptReadable
  <2> SUFFICES ASSUME FilesInv, file.st = "live", ~hurried
               PROVE  /\ file.cid # NoCid => Opens(file.cid, file.key)
                      /\ \A i \in 1..Len(file.versions) : Opens(file.versions[i].cid, file.versions[i].key)
                      /\ fileRecord.seq >= 0 => Opens(fileRecord.cid, fileRecord.key)
    BY DEF KeptReadable
  <2>1. TextFits /\ RecordFits
    BY GoodTypes DEF OpenFits, IsThere
  <2>2. GoodVersions(file.versions)
    BY <2>1 DEF TextFits
  <2>3. file.cid # NoCid => file.cid = newest /\ file.key = newest /\ newest \in pins
    BY <2>1 DEF TextFits, Waiting, NoCid
  <2> QED
    BY <2>1, <2>2, <2>3 DEF GoodVersions, RecordFits, Opens
<1> QED
  BY <1>1, FilesInvariant, PTL

(* Once nothing is on its way, the record names the text last released and  *)
(* the versions of the inode                                                *)
THEOREM SettledFilesArePublished == FilesSpec => []SettledIsPublished
<1>1. FilesInv => SettledIsPublished
  <2> SUFFICES ASSUME FilesInv, file.st = "live", ~hurried, fileRecord.seq >= 0, ~Outstanding
               PROVE  /\ text[fileRecord.cid] = latest
                      /\ fileRecord.cid = file.cid /\ fileRecord.versions = file.versions
    BY DEF SettledIsPublished
  <2>1. TextFits /\ RecordFits /\ fileRecord.seq \in Int
    BY GoodTypes, FileParts DEF OpenFits, IsThere
  <2>2. uploads = {} /\ done = <<>> /\ ~Waiting
    BY DEF Outstanding, Waiting, Sending
  <2> QED
    BY <2>1, <2>2 DEF TextFits, RecordFits
<1> QED
  BY <1>1, FilesInvariant, PTL
=============================================================================
