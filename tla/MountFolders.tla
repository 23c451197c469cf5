----------------------------- MODULE MountFolders -----------------------------
(***************************************************************************)
(* The folder half of the desktop's mounted vault.  One thread serves the  *)
(* file system calls on a table of inodes; a change of a folder is         *)
(* published by a thread of its own, from a snapshot taken when it was     *)
(* started; refreshes fetch a folder's record in the background and are    *)
(* merged into the table by a later lookup or readdir.  A folder changed   *)
(* here is left out of refreshes for thirty seconds.                       *)
(*                                                                         *)
(* The contents of files are in MountFiles.  Time is what may pass: an     *)
(* entry of the metadata cache may be stale at any readdir, a cooldown, a  *)
(* debounce and the safety valve run out by steps of their own.            *)
(***************************************************************************)
EXTENDS Integers, Sequences, FiniteSets

CONSTANTS
    FolderIds, Root,  \* folders (their IPNS names), the root among them
    FileIds,          \* files (the IPNS names of their metadata)
    Names,            \* what an entry can be called
    SuffixOf,         \* pairs <<name, its truncated form>> that rename accepts
    Vault,            \* the listings of the vault before it is mounted
    None,             \* no folder
    MaxIno,           \* bound: inode numbers
    MaxBuilt,         \* bound: rounds of snapshots
    MaxOpen,          \* bound: files open for writing at once
    MaxRefreshes,     \* bound: refreshes under way together
    MaxMishaps        \* bound: changes by other devices, calls of the API that
                      \* fail or lose their answer, and ends of the process

Ids == FolderIds \cup FileIds
Inos == 1..MaxIno
RootIno == 1          \* ROOT_INO
NoIno == 0

Entry == [name : Names, of : Ids]
Listing == SUBSET Entry
Record == [seq : Int, children : Listing]
Unpublished == [seq |-> -1, children |-> {}]

ASSUME MountAssumption ==
    /\ Root \in FolderIds
    /\ FolderIds \cap FileIds = {}
    /\ None \notin FolderIds
    /\ Names # {}
    /\ SuffixOf \subseteq Names \X Names
    /\ MaxIno \in Nat \ {0}
    /\ {MaxBuilt, MaxOpen, MaxRefreshes, MaxMishaps} \subseteq Nat
    /\ DOMAIN Vault \subseteq FolderIds /\ Root \in DOMAIN Vault
    /\ \A d \in DOMAIN Vault : Vault[d] \in Listing

(* An entry is in one folder, and a folder has one entry of a name.  A      *)
(* vault where another device's move stopped half-way, the entry in both    *)
(* folders, is left out: deleting one of the two leaves the other.          *)
ASSUME VaultAssumption ==
    \A d, e \in DOMAIN Vault : \A b \in Vault[d], c \in Vault[e] :
        /\ b.of # Root
        /\ b.of = c.of \/ (d = e /\ b.name = c.name) => d = e /\ b = c

(* An inode: the entry's name, its parent, and of, the IPNS name behind it. *)
(* listed: it has a list of children.  loaded is also kept for the root,   *)
(* where the code keeps no such mark.                                      *)
Inode == [kind : {"free", "folder", "file"}, name : Names, parent : Inos,
          of : Ids, listed : BOOLEAN, children : SUBSET Inos, loaded : BOOLEAN,
          resolved : BOOLEAN]
AnyName == CHOOSE n \in Names : TRUE
Free == [kind |-> "free", name |-> AnyName, parent |-> RootIno, of |-> Root,
         listed |-> FALSE, children |-> {}, loaded |-> FALSE, resolved |-> FALSE]
RootInode == [Free EXCEPT !.kind = "folder", !.listed = TRUE]

VARIABLES
    record,     \* folder -> the record its name resolves to
    inode,      \* inode number -> inode
    index,      \* <<parent, name>> -> inode number
    nextIno,    \* the next inode number
    mount,      \* down, the folders still to fetch at mount, or up
    mutated,    \* folders changed here in the last thirty seconds
    queue,      \* folders in the publish queue
    open,       \* files written to and not closed
    threads,    \* publishes under way
    seqCache,   \* folder -> the coordinator's number, -1 if none
    asked,      \* refreshes being fetched
    fetched,    \* refreshes fetched, to be merged
    used,       \* ids given out
    built,      \* rounds of snapshots taken
    acked,      \* history: folder -> highest number acknowledged to this mount
    made,       \* history: entries created by this mount
    removed,    \* history: entries this mount has deleted or replaced
    gone,       \* history: entries other devices have deleted
    rushed,     \* history: something was not given the time it needs
    mishaps

tree == <<inode, index, nextIno>>
network == <<threads, seqCache, record, acked, built>>
vars == <<record, inode, index, nextIno, mount, mutated, queue, open,
          threads, seqCache, asked, fetched, used, built, acked, made, removed,
          gone, rushed, mishaps>>

Down == [up |-> FALSE, todo |-> {}]
Up   == [up |-> TRUE, todo |-> {}]
Phase == [up : BOOLEAN, todo : SUBSET Inos]

(* child: the folder a mkdir publishes first; stage "wait": for the lock   *)
Thread == [of : FolderIds, nth : Nat, child : FolderIds \cup {None},
           children : Listing, stage : {"child", "wait", "locked"}, seq : Int]
Refresh == [ino : Inos, of : FolderIds]
Fetched == [ino : Inos, of : FolderIds, children : Listing]

VaultIds == DOMAIN Vault \cup UNION {{c.of : c \in Vault[d]} : d \in DOMAIN Vault}

Init ==
    /\ record = [d \in FolderIds |-> IF d \in DOMAIN Vault
                   THEN [seq |-> 0, children |-> Vault[d]] ELSE Unpublished]
    /\ used = VaultIds
    /\ inode = [i \in Inos |-> IF i = RootIno THEN RootInode ELSE Free]
    /\ index = [key \in Inos \X Names |-> NoIno]
    /\ nextIno = RootIno + 1
    /\ mount = Down
    /\ mutated = {} /\ queue = {} /\ open = {} /\ threads = {} /\ asked = {}
    /\ seqCache = [d \in FolderIds |-> -1]
    /\ fetched = {}
    /\ built = 0
    /\ acked = [d \in FolderIds |-> -1]
    /\ made = {} /\ removed = {} /\ gone = {} /\ rushed = FALSE
    /\ mishaps = 0

-----------------------------------------------------------------------------
(* The inode table *)

IsFolder(i) == inode[i].kind = "folder"
IsFile(i)   == inode[i].kind = "file"
Live(i)     == inode[i].kind # "free"

(* Entries of the tree, and the folders that hold them *)
InTree(e)   == \E p \in Inos : IsFolder(p) /\ \E i \in inode[p].children : inode[i].of = e

(* remove: the inode, its name and its place in its parent                 *)
RemoveInode(table, i) ==
    LET p == table[i].parent IN
    [j \in Inos |-> IF j = i THEN Free
                    ELSE IF j = p THEN [table[p] EXCEPT !.children = @ \ {i}]
                    ELSE table[j]]
RemoveName(names, i) == [names EXCEPT ![<<inode[i].parent, inode[i].name>>] = NoIno]

(* A new child at the next number, as create and mkdir insert it           *)
InsertInode(p, node) ==
    /\ nextIno \in Inos
    /\ inode' = [inode EXCEPT ![nextIno] = node, ![p].children =
                   IF inode[p].listed THEN @ \cup {nextIno} ELSE @]
    /\ index' = [index EXCEPT ![<<p, node.name>>] = nextIno]
    /\ nextIno' = nextIno + 1

(* Numbers for the entries of a listing: an entry whose name is known      *)
(* keeps its number, the others get the next ones                          *)
Placements(table, p, listing) ==
    LET taken == {c \in listing : table[<<p, c.name>>] # NoIno}
        fresh == listing \ taken
    IN  {place \in [listing -> Inos] :
           /\ \A c \in taken : place[c] = table[<<p, c.name>>]
           /\ \A c \in fresh : place[c] \in nextIno..(nextIno + Cardinality(fresh) - 1)
           /\ \A c, d \in fresh : c # d => place[c] # place[d]}

(* The inode of entry c at number i: a folder keeps what it had loaded, a  *)
(* resolved file keeps what it is                                          *)
FolderPopulated(p, c, i) ==
    [kind |-> "folder", name |-> c.name, parent |-> p, of |-> c.of,
     listed |-> Live(i) => inode[i].listed, children |-> inode[i].children,
     loaded |-> IsFolder(i) /\ inode[i].loaded, resolved |-> FALSE]
FilePopulated(p, c, i) ==
    LET keeps == IsFile(i) /\ inode[i].resolved IN
    [kind |-> "file", name |-> c.name, parent |-> p,
     of |-> IF keeps THEN inode[i].of ELSE c.of,
     listed |-> FALSE, children |-> {}, loaded |-> FALSE, resolved |-> keeps]
Populated(p, c, i) ==
    IF c.of \in FolderIds THEN FolderPopulated(p, c, i) ELSE FilePopulated(p, c, i)

(* Bound: inode numbers are left for the entries of the listing            *)
Room(p, listing) ==
    nextIno + Cardinality({c \in listing : index[<<p, c.name>>] = NoIno}) <= MaxIno + 1

(* merge_only: children not in the listing stay                            *)
Merged(p, placed) == inode[p].children \cup placed

(* populate_folder, and the file pointers its caller then resolves: only   *)
(* files of this folder open under its key.  A folder no longer there gets *)
(* no children, but their inodes are made.                                 *)
Populate(p, listing) ==
    \E place \in Placements(index, p, listing) :
        LET placed == {place[c] : c \in listing}
            at(i) == CHOOSE c \in listing : place[c] = i
            filled == [i \in Inos |->
                         IF i \in placed THEN Populated(p, at(i), i)
                         ELSE IF i = p /\ Live(p)
                           THEN [inode[p] EXCEPT !.children = Merged(p, placed),
                                                 !.listed = TRUE, !.loaded = IsFolder(p)]
                         ELSE inode[i]]
            pointers == {i \in Inos : /\ filled[i].kind = "file" /\ ~filled[i].resolved
                                      /\ filled[i].parent = p /\ IsFolder(p)}
        IN  \E found \in SUBSET pointers :
              /\ inode' = [i \in Inos |-> IF i \in found
                             THEN [filled[i] EXCEPT !.resolved = TRUE] ELSE filled[i]]
              /\ index' = [key \in Inos \X Names |->
                             IF key[1] = p /\ \E c \in listing : c.name = key[2]
                               THEN place[CHOOSE c \in listing : c.name = key[2]]
                               ELSE index[key]]
              /\ nextIno' = nextIno + Cardinality({i \in placed : i >= nextIno})

-----------------------------------------------------------------------------
(* Publishing *)

(* build_folder_metadata over a table about to be installed                *)
Snapshot(table, p) == {[name |-> table[i].name, of |-> table[i].of] :
                         i \in table[p].children}
Publishing(table, p, child) ==
    [of |-> table[p].of, nth |-> built, child |-> child,
     children |-> Snapshot(table, p),
     stage |-> IF child = None THEN "wait" ELSE "child", seq |-> -1]

(* Snapshots of the folders S are taken and their threads started          *)
StartPublishes(table, S) ==
    /\ S # {} => built < MaxBuilt
    /\ threads' = threads \cup {Publishing(table, p, None) : p \in S}
    /\ built' = IF S = {} THEN built ELSE built + 1

(* A folder of S has a publish under way, or was never fetched             *)
Crowded(S) == \E p \in S : ~inode[p].loaded \/ \E t \in threads : t.of = inode[p].of

(* Mistake: one of the folders is published *)
UpdateOne(table, S) ==
    LET p == CHOOSE q \in S : TRUE IN
    /\ mutated' = mutated \cup S
    /\ StartPublishes(table, {p})
    /\ rushed' = (rushed \/ Crowded(S))

(* update_folder_metadata of the folders S *)
UpdateFolders(table, S) ==
    /\ mutated' = mutated \cup S
    /\ StartPublishes(table, S)
    /\ rushed' = (rushed \/ Crowded(S))

(* flush_publish_queue: of the folders queued those due are published, by  *)
(* now settled for 1.5 s with no upload pending, or queued for 10 s.  A    *)
(* folder that is gone cannot be built: its entry is dropped.              *)
FlushQueue(requeued) ==
    \E due \in SUBSET queue :
        LET buildable == {p \in due : IsFolder(p)} IN
        /\ StartPublishes(inode, buildable)
        /\ queue' = (queue \ due) \cup requeued
        /\ rushed' = (rushed \/ Crowded(buildable) \/ due # buildable)

(* resolve_sequence under the folder's lock: the number resolved may be    *)
(* an old one, and may not come at all                                     *)
Resolve(t) ==
    LET cached == seqCache[t.of]
        numbers == {n \in 0..record[t.of].seq : TRUE}
    IN  /\ t.stage = "wait"
        /\ ~\E u \in threads : u.of = t.of /\ u.stage = "locked"
        /\ \E n \in numbers \cup (IF cached >= 0 THEN {cached} ELSE {}) :
             LET seq == IF n > cached THEN n ELSE cached IN
             /\ threads' = (threads \ {t}) \cup {[t EXCEPT !.stage = "locked", !.seq = seq]}
             /\ seqCache' = [seqCache EXCEPT ![t.of] = seq]
        /\ UNCHANGED <<record, tree, mount, mutated, queue, open, asked,
                       fetched, used, built, acked, made, removed, gone, rushed, mishaps>>

(* An equal number replaces the record, a lower one is ignored             *)
Accept(d, seq, children) ==
    record' = [record EXCEPT ![d] =
                 IF seq >= @.seq THEN [seq |-> seq, children |-> children] ELSE @]

(* record_publish *)
RecordPublish(d, seq) == [seqCache EXCEPT ![d] = IF @ > seq THEN @ ELSE seq]

Publish(t) ==
    /\ t.stage = "locked"
    /\ Accept(t.of, t.seq + 1, t.children)
    /\ seqCache' = RecordPublish(t.of, t.seq + 1)
    /\ acked' = [acked EXCEPT ![t.of] = t.seq + 1]
    /\ threads' = threads \ {t}
    /\ rushed' = (rushed \/ record[t.of].seq > t.seq)
    /\ UNCHANGED <<tree, mount, mutated, queue, open, asked, fetched,
                   used, built, made, removed, gone, mishaps>>

(* mkdir's thread publishes the new folder, at number 0 and without a lock *)
PublishChild(t) ==
    /\ t.stage = "child"
    /\ Accept(t.child, 0, {})
    /\ seqCache' = RecordPublish(t.child, 0)
    /\ acked' = [acked EXCEPT ![t.child] = IF @ > 0 THEN @ ELSE 0]
    /\ threads' = (threads \ {t}) \cup {[t EXCEPT !.stage = "wait"]}
    /\ UNCHANGED <<tree, mount, mutated, queue, open, asked, fetched,
                   used, built, made, removed, gone, rushed, mishaps>>

(* An upload, a resolve without a cached number or a publish fails: it is  *)
(* logged, nothing is tried again                                          *)
PublishFails(t) ==
    /\ mishaps < MaxMishaps
    /\ mishaps' = mishaps + 1
    /\ threads' = threads \ {t}
    /\ rushed' = TRUE
    /\ UNCHANGED <<record, tree, mount, mutated, queue, open, seqCache,
                   asked, fetched, used, built, acked, made, removed, gone>>

(* Not found: the folder's first record is not out, or never will be       *)
ResolveNotFound(t) ==
    /\ t.stage = "wait" /\ record[t.of].seq = -1 /\ seqCache[t.of] = -1
    /\ threads' = threads \ {t}
    /\ rushed' = TRUE
    /\ UNCHANGED <<record, tree, mount, mutated, queue, open, seqCache,
                   asked, fetched, used, built, acked, made, removed, gone, mishaps>>

AnswerLost(t) ==
    /\ t.stage = "locked"
    /\ mishaps < MaxMishaps
    /\ mishaps' = mishaps + 1
    /\ Accept(t.of, t.seq + 1, t.children)
    /\ threads' = threads \ {t}
    /\ rushed' = TRUE
    /\ UNCHANGED <<tree, mount, mutated, queue, open, seqCache, asked,
                   fetched, used, built, acked, made, removed, gone>>
-----------------------------------------------------------------------------
(* Mounting, and the end of the process *)

(* The listing a folder's name resolves to; none if it was never published *)
Resolvable(d) == record[d].seq >= 0

(* mount_filesystem: a fresh table, the root fetched, or not               *)
Mount ==
    /\ mount = Down
    /\ \/ /\ Resolvable(Root)
          /\ Populate(RootIno, record[Root].children)
          /\ mount' = [up |-> TRUE, todo |->
                        {i \in inode'[RootIno].children : inode'[i].kind = "folder"}]
          /\ UNCHANGED mishaps
       \/ /\ mishaps < MaxMishaps
          /\ mishaps' = mishaps + 1
          /\ mount' = Up
          /\ UNCHANGED tree
    /\ UNCHANGED <<network, mutated, queue, open, asked, fetched, used,
                   made, removed, gone, rushed>>

(* ... and then each folder in the root                                    *)
PrePopulate(i) ==
    /\ i \in mount.todo
    /\ mount' = [mount EXCEPT !.todo = @ \ {i}]
    /\ \/ /\ Resolvable(inode[i].of)
          /\ Populate(i, record[inode[i].of].children)
          /\ UNCHANGED mishaps
       \/ /\ ~Resolvable(inode[i].of)
          /\ UNCHANGED <<tree, mishaps>>
       \/ /\ mishaps < MaxMishaps
          /\ mishaps' = mishaps + 1
          /\ UNCHANGED tree
    /\ UNCHANGED <<network, mutated, queue, open, asked, fetched, used,
                   made, removed, gone, rushed>>

Serving == mount = Up

(* The process ends, between two calls: what is not published is lost      *)
Quit ==
    /\ Serving /\ mishaps < MaxMishaps
    /\ mishaps' = mishaps + 1
    /\ rushed' = (rushed \/ threads # {} \/ open # {} \/ queue # {})
    /\ inode' = [i \in Inos |-> IF i = RootIno THEN RootInode ELSE Free]
    /\ index' = [key \in Inos \X Names |-> NoIno]
    /\ nextIno' = RootIno + 1
    /\ mount' = Down
    /\ mutated' = {} /\ queue' = {} /\ open' = {} /\ threads' = {} /\ asked' = {} /\ fetched' = {}
    /\ seqCache' = [d \in FolderIds |-> -1]
    /\ acked' = [d \in FolderIds |-> -1]
    /\ UNCHANGED <<record, used, built, made, removed, gone>>

-----------------------------------------------------------------------------
(* Lookups and listings.  A call flushes the publish queue (lookup and     *)
(* getattr), drains the refreshes that have arrived (lookup and readdir)   *)
(* and may ask for one; a call that does several of these is several of    *)
(* the steps below, for what it finds arrived could have come later.       *)

(* Mistake: only folders whose publish is still queued are left out *)
SkippedQueued(i) == i \in queue

(* drain_refresh_completions, one refresh.  Two devices that gave one name *)
(* to two entries are beyond what a merge by names can tell apart.         *)
Skipped(i) == i \in mutated \cup queue
Collides(m) ==
    \E c \in m.children : LET i == index[<<m.ino, c.name>>] IN i # NoIno /\ inode[i].of # c.of
DrainRefresh(m) ==
    /\ Serving
    /\ fetched' = fetched \ {m}
    /\ IF Skipped(m.ino) \/ ~Room(m.ino, m.children) THEN UNCHANGED <<tree, rushed>>
       ELSE Populate(m.ino, m.children) /\ rushed' = (rushed \/ Collides(m))
    /\ UNCHANGED <<network, mount, mutated, queue, open, asked, used, made, removed,
                   gone, mishaps>>

StartRefresh(p) ==
    /\ Cardinality(asked) + Cardinality(fetched) < MaxRefreshes
    /\ asked' = asked \cup {[ino |-> p, of |-> inode[p].of]}

(* lookup in a folder not loaded: its entries are asked for                *)
Unloaded(p) == p # RootIno /\ ~inode[p].loaded
Lookup(p) ==
    /\ Serving /\ IsFolder(p) /\ Unloaded(p)
    /\ StartRefresh(p)
    /\ FlushQueue({})
    /\ UNCHANGED <<record, tree, mount, mutated, open, seqCache, fetched, used, acked,
                   made, removed, gone, mishaps>>

(* readdir of a folder no longer in the metadata cache                     *)
ReadDir(p) ==
    /\ Serving /\ IsFolder(p)
    /\ StartRefresh(p)
    /\ UNCHANGED <<network, tree, mount, mutated, queue, open, fetched, used, made,
                   removed, gone, rushed, mishaps>>

(* getattr, and a lookup in a loaded folder                                *)
GetAttr ==
    /\ Serving
    /\ FlushQueue({})
    /\ UNCHANGED <<record, tree, mount, mutated, open, seqCache, asked,
                   fetched, used, acked, made, removed, gone, mishaps>>

RefreshAnswered(r) ==
    /\ Resolvable(r.of)
    /\ asked' = asked \ {r}
    /\ fetched' = fetched \cup {[ino |-> r.ino, of |-> r.of, children |-> record[r.of].children]}
    /\ UNCHANGED <<tree, network, mount, mutated, queue, open, used, made,
                   removed, gone, rushed, mishaps>>

RefreshFails(r) ==
    /\ asked' = asked \ {r}
    /\ UNCHANGED <<tree, network, mount, mutated, queue, open, fetched,
                   used, made, removed, gone, rushed, mishaps>>

-----------------------------------------------------------------------------
(* Changes.  The kernel creates what its lookup did not find, and removes  *)
(* and renames what is in the index.                                       *)

NotFound(p, n) == IsFolder(p) /\ (Unloaded(p) \/ index[<<p, n>>] = NoIno)

Create(p, n, f) ==
    /\ Serving /\ NotFound(p, n)
    /\ Cardinality(open) < MaxOpen
    /\ f \in FileIds \ used
    /\ used' = used \cup {f} /\ made' = made \cup {f}
    /\ InsertInode(p, [Free EXCEPT !.kind = "file", !.name = n, !.parent = p, !.of = f,
                                   !.resolved = TRUE])
    /\ open' = open \cup {nextIno}
    /\ mutated' = mutated \cup {p}
    /\ rushed' = (rushed \/ ~inode[p].loaded)
    /\ UNCHANGED <<network, mount, queue, asked, fetched, removed, gone, mishaps>>

(* open for writing, by one who will write                                 *)
OpenWrite(i) ==
    /\ Serving /\ IsFile(i)
    /\ Cardinality(open) < MaxOpen
    /\ open' = open \cup {i}
    /\ UNCHANGED <<tree, network, mount, mutated, queue, asked, fetched,
                   used, made, removed, gone, rushed, mishaps>>

(* release: an upload starts, and the folder is queued.  A file deleted    *)
(* meanwhile is queued for the root.                                       *)
Release(i) ==
    LET p == IF Live(i) THEN inode[i].parent ELSE RootIno IN
    /\ Serving /\ i \in open
    /\ open' = open \ {i}
    /\ FlushQueue({p})
    /\ mutated' = mutated \cup {p}
    /\ UNCHANGED <<record, tree, mount, seqCache, asked, fetched, used, acked, made,
                   removed, gone, mishaps>>

(* rmdir: no children in the table, fetched or not                         *)
Emptied(i) == IsFolder(i) => inode[i].children = {}

(* unlink, and rmdir *)
Remove(p, n) ==
    LET i == index[<<p, n>>]
        table == RemoveInode(inode, i)
    IN  /\ Serving /\ IsFolder(p) /\ i # NoIno
        /\ Live(i) /\ Emptied(i)
        /\ inode' = table
        /\ index' = RemoveName(index, i)
        /\ removed' = removed \cup {inode[i].of}
        /\ UpdateFolders(table, {p})
        /\ UNCHANGED <<record, nextIno, mount, queue, open, seqCache, asked,
                       fetched, used, acked, made, gone, mishaps>>

(* The new folder is published by the thread that publishes its parent     *)
Mkdir(p, n, d) ==
    /\ Serving /\ NotFound(p, n)
    /\ d \in FolderIds \ used
    /\ used' = used \cup {d} /\ made' = made \cup {d}
    /\ InsertInode(p, [Free EXCEPT !.kind = "folder", !.name = n, !.parent = p, !.of = d,
                                   !.listed = TRUE, !.loaded = TRUE])
    /\ built < MaxBuilt
    /\ threads' = threads \cup {Publishing(inode', p, d)}
    /\ built' = built + 1
    /\ rushed' = (rushed \/ Crowded({p}))
    /\ UNCHANGED <<record, mount, mutated, queue, open, seqCache, asked,
                   fetched, acked, removed, gone, mishaps>>

(* The entry a rename means: FUSE-T may have cut the start of its name     *)
Named(p, n) ==
    IF index[<<p, n>>] # NoIno THEN index[<<p, n>>]
    ELSE LET ends == {i \in inode[p].children : <<inode[i].name, n>> \in SuffixOf}
         IN  IF Cardinality(ends) = 1 THEN CHOOSE i \in ends : TRUE ELSE NoIno

(* The kernel moves no folder into itself *)
Under(i) == {q \in Inos : q = i \/ inode[q].parent = i
                        \/ inode[inode[q].parent].parent = i}

Rename(p, n, q, m) ==
    LET i    == Named(p, n)
        dest == index[<<q, m>>]
        cleared == IF dest = NoIno THEN inode ELSE RemoveInode(inode, dest)
        names == IF dest = NoIno THEN index ELSE RemoveName(index, dest)
        table == [j \in Inos |->
                    IF j = i THEN [cleared[i] EXCEPT !.name = m, !.parent = q]
                    ELSE IF p = q THEN cleared[j]
                    ELSE IF j = p THEN [cleared[p] EXCEPT !.children = @ \ {i}]
                    ELSE IF j = q /\ cleared[q].listed
                      THEN [cleared[q] EXCEPT !.children = @ \cup {i}]
                    ELSE cleared[j]]
    IN  /\ Serving /\ IsFolder(p) /\ IsFolder(q)
        /\ i # NoIno /\ Live(i) /\ q \notin Under(i)
        /\ dest # i
        /\ dest # NoIno => ~IsFolder(dest) \/ inode[dest].children = {}
        /\ inode' = table
        /\ index' = [names EXCEPT ![<<p, inode[i].name>>] = NoIno, ![<<q, m>>] = i]
        /\ removed' = removed \cup (IF dest # NoIno /\ Live(dest) THEN {inode[dest].of} ELSE {})
        /\ UpdateFolders(table, {p, q})
        /\ UNCHANGED <<record, nextIno, mount, queue, open, seqCache, asked,
                       fetched, used, acked, made, gone, mishaps>>

-----------------------------------------------------------------------------
(* Time, and the other devices *)

(* Thirty seconds after the last change of a folder                        *)
CooldownEnds(i) ==
    /\ i \in mutated
    /\ mutated' = mutated \ {i}
    /\ rushed' = (rushed \/ i \in queue \/ (\E t \in threads : t.of = inode[i].of)
                         \/ (\E r \in asked : r.ino = i)
                         \/ (\E m \in fetched : m.ino = i))
    /\ UNCHANGED <<tree, network, mount, queue, open, asked, fetched, used,
                   made, removed, gone, mishaps>>

RemoteAdd(d, n, e) ==
    /\ mishaps < MaxMishaps /\ mishaps' = mishaps + 1
    /\ Resolvable(d) /\ e \in Ids \ used
    /\ ~\E c \in record[d].children : c.name = n
    /\ used' = used \cup {e}
    /\ record' = [x \in FolderIds |->
                    IF x = d THEN [seq |-> record[d].seq + 1,
                                   children |-> record[d].children \cup {[name |-> n, of |-> e]}]
                    ELSE IF x = e THEN [seq |-> 0, children |-> {}] ELSE record[x]]
    /\ UNCHANGED <<tree, mount, mutated, queue, open, threads, seqCache,
                   asked, fetched, built, acked, made, removed, gone, rushed>>

RemoteRemove(d, c) ==
    /\ mishaps < MaxMishaps /\ mishaps' = mishaps + 1
    /\ c \in record[d].children
    /\ gone' = gone \cup {c.of}
    /\ record' = [record EXCEPT ![d] = [seq |-> @.seq + 1, children |-> @.children \ {c}]]
    /\ UNCHANGED <<tree, mount, mutated, queue, open, threads, seqCache,
                   asked, fetched, used, built, acked, made, removed, rushed>>

-----------------------------------------------------------------------------
Session == Mount \/ (\E i \in Inos : PrePopulate(i)) \/ Quit
Reading ==
    \/ \E p \in Inos : Lookup(p) \/ ReadDir(p)
    \/ GetAttr \/ \E m \in fetched : DrainRefresh(m)
    \/ \E r \in asked : RefreshAnswered(r) \/ RefreshFails(r)
Changing ==
    \/ \E p \in Inos, n \in Names :
         \/ \E f \in FileIds : Create(p, n, f)
         \/ \E d \in FolderIds : Mkdir(p, n, d)
         \/ Remove(p, n)
         \/ \E q \in Inos, m \in Names : Rename(p, n, q, m)
    \/ \E i \in Inos : OpenWrite(i) \/ Release(i)
PublishingSteps ==
    \E t \in threads : \/ Resolve(t) \/ Publish(t) \/ PublishChild(t) \/ PublishFails(t)
                      \/ ResolveNotFound(t) \/ AnswerLost(t)
Passing == \E i \in Inos : CooldownEnds(i)
Elsewhere ==
    \E d \in FolderIds : \/ \E n \in Names, e \in Ids : RemoteAdd(d, n, e)
                         \/ \E c \in record[d].children : RemoteRemove(d, c)

Next == Session \/ Reading \/ Changing \/ PublishingSteps \/ Passing \/ Elsewhere

Spec == Init /\ [][Next]_vars
-----------------------------------------------------------------------------
(* Properties *)

(* Every variable holds values of its type.                                *)
TypeOK ==
    /\ record \in [FolderIds -> Record]
    /\ inode \in [Inos -> Inode]
    /\ index \in [Inos \X Names -> Inos \cup {NoIno}]
    /\ nextIno \in 2..(MaxIno + 1)
    /\ mount \in Phase
    /\ mutated \subseteq Inos
    /\ queue \subseteq Inos
    /\ open \subseteq Inos
    /\ threads \subseteq Thread
    /\ seqCache \in [FolderIds -> Int]
    /\ asked \subseteq Refresh
    /\ fetched \subseteq Fetched
    /\ used \subseteq Ids /\ made \subseteq used /\ removed \subseteq used /\ gone \subseteq used
    /\ built \in Nat
    /\ acked \in [FolderIds -> Int]
    /\ rushed \in BOOLEAN
    /\ mishaps \in Nat

(* The lists of children, the parents and the index describe one tree,     *)
(* whatever create, mkdir, rename, unlink, rmdir and the merges of         *)
(* refreshes did to them in whatever order.                                *)
TreeConsistent ==
    \A p \in Inos : IsFolder(p) =>
        \A i \in inode[p].children :
            /\ Live(i) /\ i # p /\ inode[i].parent = p
            /\ ~rushed => /\ index[<<p, inode[i].name>>] = i
                          /\ \A j \in inode[p].children : inode[i].name = inode[j].name => i = j

(* The coordinator never signs two records of a folder with one number, nor *)
(* a lower one after a higher, although a resolve may answer with an old   *)
(* number and a new folder's first record is published outside its lock.   *)
NumbersFresh == \A t \in threads : t.stage = "locked" => t.seq >= acked[t.of]

(* What was deleted here does not come back with a refresh asked for before *)
(* the deletion was published: refreshes of folders changed here are left  *)
(* out, as long as the publish and the refresh do not outlast the cooldown *)
(* and publishes of one folder do not overtake each other.                 *)
DeletedStays == ~rushed => \A e \in removed : ~InTree(e)

(* Once a folder's changes are out (no publish under way, nothing queued,  *)
(* no file of it open) its record lists every entry the mount shows in it, *)
(* under the name shown, except what other devices deleted or added, and   *)
(* nothing deleted here.                                                   *)
Quiet(p) ==
    /\ Serving
    /\ p \notin queue
    /\ \A t \in threads : inode[p].of \notin {t.of, t.child}
    /\ inode[p].children \cap open = {}
LocalReachesVault ==
    \A p \in Inos : IsFolder(p) /\ Quiet(p) /\ ~rushed =>
        /\ \A i \in inode[p].children : inode[i].of \in (made \cup VaultIds) \ gone =>
              [name |-> inode[i].name, of |-> inode[i].of] \in record[inode[p].of].children
        /\ \A c \in record[inode[p].of].children : c.of \notin removed

(* A file created here leaves the tree only by a call of this mount: no    *)
(* refresh takes it out, published or not.                                 *)
MadeStays ==
    [][\A f \in made \cap FileIds : InTree(f) /\ ~rushed' =>
          InTree(f)' \/ f \in removed' \/ mount' = Down]_vars
=============================================================================
