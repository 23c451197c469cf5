------------------------------ MODULE WebFolders ------------------------------
(***************************************************************************)
(* The folder tree as the browser tabs edit it.  Every folder has one IPNS *)
(* record that lists its children; the tree is what the records say.  A    *)
(* tab keeps the folders it has opened in a store, and every operation of  *)
(* useFolder reads the store once, publishes one or two records one above  *)
(* the numbers it read, and writes what it read, edited, back to the       *)
(* store.  The root is polled; other folders are loaded when opened.       *)
(*                                                                         *)
(* A record is signed and accepted in one step; a lower number than the    *)
(* network's is acknowledged and ignored, an equal one replaces it, as the *)
(* later expiry of the later record decides.  What happens between the API *)
(* and the network is in IpnsRegistry.                                     *)
(***************************************************************************)
EXTENDS Integers, Sequences, FiniteSets

CONSTANTS
    Tabs,           \* tabs and devices of one account
    Folders, Root,  \* folder ids, the root among them
    Files,          \* file ids
    Names,          \* what a folder or a file can be called
    MaxDepth,       \* MAX_FOLDER_DEPTH
    Careful,        \* assumption: users who wait (MayStart, MayEdit)
    MaxSeq,         \* bound: the highest sequence number
    MaxFailures,    \* bound: publishes, polls and loads that fail
    MaxLostAnswers, \* bound: publishes that take effect and seem to fail
    MaxCloses       \* bound: tabs closed or reloaded

Ids == (Folders \ {Root}) \cup Files

Child   == [id : Ids, name : Names]
Listing == SUBSET Child
Record  == [seq : Nat, children : Listing]

(* Never published: resolving answers null *)
NoRecord == [seq |-> 0, children |-> {}]

(* loading: the placeholder of navigateTo, without keys; bare: keys but    *)
(* nothing loaded; keyless: a placeholder some operation gave children to  *)
NodeState == {"none", "loading", "keyless", "bare", "loaded"}
Node == [state : NodeState, children : Listing, seq : Nat, parent : Folders]

NoNode == [state |-> "none", children |-> {}, seq |-> 0, parent |-> Root]
RootNode == [NoNode EXCEPT !.state = "bare"]
FreshStore == [f \in Folders |-> IF f = Root THEN RootNode ELSE NoNode]

ASSUME FolderAssumption ==
    /\ Root \in Folders
    /\ Folders \cap Files = {}
    /\ IsFiniteSet(Folders)
    /\ Careful \in BOOLEAN
    /\ {MaxDepth, MaxSeq, MaxFailures, MaxLostAnswers, MaxCloses} \subseteq Nat

VARIABLES
    record,     \* folder -> the record its IPNS name resolves to
    filed,      \* files whose own record is published
    store,      \* tab -> folder -> its node in the folder store
    flows,      \* tab -> operations under way
    polls,      \* tab -> the poll of the root under way, if any
    loads,      \* tab -> subfolders being loaded
    synced,     \* tab -> initialSyncComplete
    used,       \* ids generated so far
    kept,       \* history: items whose creation succeeded, never deleted
    failures, lostAnswers, closes

vars == <<record, filed, store, flows, polls, loads, synced, used,
          kept, failures, lostAnswers, closes>>

(* plan: the records to publish, in this order; at: the one it is at;      *)
(* sent: that one has been accepted.  after: the nodes as the handler read *)
(* them, with its changes.  When all is answered the folders of the store  *)
(* get the children of after if edited, its number if numbered, all of it  *)
(* if placed; those in gone are removed.                                   *)
Publication == [folder : Folders, seq : Nat, children : Listing]
Flow == [op : {"create", "rename", "move", "moveItems", "delete",
               "deleteItems", "add"},
         items : SUBSET Ids, plan : Seq(Publication), at : Nat, sent : BOOLEAN,
         after : [Folders -> Node], edited : SUBSET Folders,
         numbered : SUBSET Folders, placed : SUBSET Folders, gone : SUBSET Folders]

NoPoll == [stage |-> "idle", got |-> NoRecord]
Poll   == [stage : {"idle", "resolved", "fetching"}, got : Record]
(* wanted: latestNavTarget is the folder, the user has not gone elsewhere  *)
Load   == [folder : Folders, parent : Folders, fetched : BOOLEAN, got : Record,
           wanted : BOOLEAN]

Init ==
    /\ record = [f \in Folders |-> NoRecord]
    /\ filed = {}
    /\ store = [t \in Tabs |-> FreshStore]
    /\ flows = [t \in Tabs |-> {}]
    /\ polls = [t \in Tabs |-> NoPoll]
    /\ loads = [t \in Tabs |-> {}]
    /\ synced = [t \in Tabs |-> FALSE]
    /\ used = {}
    /\ kept = {}
    /\ failures = 0 /\ lostAnswers = 0 /\ closes = 0

-----------------------------------------------------------------------------
(* The tree a tab sees *)

IdsIn(children)   == {c.id : c \in children}
NamesIn(children) == {c.name : c \in children}
Without(children, items) == {c \in children : c.id \notin items}
Entries(children, items) == {c \in children : c.id \in items}

Present(t, f) == store[t][f].state # "none"
Loaded(t, f)  == store[t][f].state \in {"loaded", "keyless"}
Usable(t, f)  == store[t][f].state \in {"loaded", "bare"}

(* The items of S and everything below them, when each folder f leads to   *)
(* next[f]                                                                 *)
Reach(S, next) ==
    LET below[n \in 0..Cardinality(Folders)] ==
          IF n = 0 THEN {} ELSE UNION {next[f] : f \in (S \cup below[n-1]) \cap Folders}
    IN  S \cup below[Cardinality(Folders)]

ParentsIn(t) ==
    [f \in Folders |-> IF f = Root \/ ~Present(t, f)
                         THEN {} ELSE {store[t][f].parent}]
ShownIn(t)   == [f \in Folders |-> IdsIn(store[t][f].children)]
Published    == [f \in Folders |-> IdsIn(record[f].children)]

(* getDepth counts the nodes on the way up, the root's among them *)
Depth(t, f) == Cardinality({g \in Reach({f}, ParentsIn(t)) : Present(t, g)})

(* isDescendantOf *)
IsWithin(t, f, ancestor) == ancestor \in Reach({f}, ParentsIn(t))

(* The folders n levels below f, as far as the tab has loaded them *)
LevelBelow(t, f, n) ==
    LET level[k \in 0..n] ==
          IF k = 0 THEN {f}
                   ELSE UNION {IdsIn(store[t][g].children) \cap Folders : g \in level[k-1]}
    IN  level[n]

(* calculateSubtreeDepth; on a cycle it never returns *)
Heights(t, f)  == {n \in 0..Cardinality(Folders) : LevelBelow(t, f, n) # {}}
SubtreeDepth(t, f) == CHOOSE n \in Heights(t, f) : \A m \in Heights(t, f) : m <= n
Unending(t, f) == LevelBelow(t, f, Cardinality(Folders)) # {}

(* Walking up from f comes to an end *)
Ends(t, f) == \E g \in Reach({f}, ParentsIn(t)) : g = Root \/ ~Present(t, g)

-----------------------------------------------------------------------------
(* Starting an operation: every handler reads the store here, and only here *)

Busy(t) == flows[t] # {} \/ polls[t].stage # "idle" \/ loads[t] # {}

MayStart(t) == Careful => ~Busy(t)

(* The buttons of a folder work before the first sync, and the address of  *)
(* a folder below a deleted one still opens it: careful users wait for the *)
(* first, and work in folders they find listed                             *)
MayEdit(t, opened) ==
    Careful => synced[t] /\ opened \subseteq Reach({Root}, ShownIn(t))

FlowOf(op, items, plan, after, edited) ==
    [op |-> op, items |-> items, plan |-> plan, at |-> 1, sent |-> FALSE,
     after |-> after, edited |-> edited, numbered |-> {}, placed |-> {}, gone |-> {}]

Publishing(t, f, children) ==
    [folder |-> f, seq |-> store[t][f].seq + 1, children |-> children]

(* Mistake: the number updateFolderMetadata returns is raised again *)
RaisedAgain(nodes, f, children) ==
    [nodes EXCEPT ![f].children = children, ![f].seq = @ + 2]

(* The nodes the handler read, f with these children and the next number   *)
Edited(nodes, f, children) ==
    [nodes EXCEPT ![f].children = children, ![f].seq = @ + 1]

Starts(t, opened, flow) ==
    /\ MayEdit(t, opened)
    /\ \A i \in DOMAIN flow.plan : flow.plan[i].seq <= MaxSeq
    /\ flows' = [flows EXCEPT ![t] = @ \cup {flow}]
    /\ UNCHANGED <<record, filed, store, polls, loads, synced,
                   failures, lostAnswers, closes>>

(* handleCreate: no check of the name; a parent that is gone from the      *)
(* store is taken for the root; the parent is published before the folder. *)
CreateParent(t, p) == IF Present(t, p) THEN p ELSE Root

(* createFolder: fresh keys and an id of its own *)
NewEntry(f, name) == [id |-> f, name |-> name]

Create(t, f, p, name) ==
    LET parent == CreateParent(t, p)
        children == store[t][parent].children \cup {NewEntry(f, name)}
    IN
    /\ f \in Folders \ ({Root} \cup used)
    /\ Usable(t, parent) /\ Ends(t, p)
    /\ (IF p = Root THEN 0 ELSE Depth(t, p)) < MaxDepth
    /\ Starts(t, {parent},
              [FlowOf("create", {f},
                      <<Publishing(t, parent, children),
                        [folder |-> f, seq |-> 1, children |-> {}]>>,
                      [Edited(store[t], parent, children) EXCEPT
                         ![f] = [NoNode EXCEPT !.state = "loaded", !.parent = parent]],
                      {parent})
                 EXCEPT !.placed = {f}])
    /\ used' = used \cup {f}
    /\ UNCHANGED kept

(* renameFolder and renameFile: the entry found keeps everything but the   *)
(* name                                                                    *)
Renamed(here, c, name) == (here \ {c}) \cup {[id |-> c.id, name |-> name]}

(* handleRename: the first entry with the id is renamed in the record,     *)
(* every one in the store                                                  *)
Rename(t, c, p, name) ==
    LET here  == store[t][p].children
        named == [id |-> c.id, name |-> name]
    IN
    /\ Usable(t, p) /\ name # c.name
    /\ name \notin NamesIn(Without(here, {c.id}))
    /\ Starts(t, {p}, FlowOf("rename", {c.id},
                            <<Publishing(t, p, Renamed(here, c, name))>>,
                            Edited(store[t], p, Without(here, {c.id}) \cup {named}), {p}))
    /\ UNCHANGED <<used, kept>>

(* moveFolder and handleMoveItems: destination is not the folder or below  *)
(* it, and the tree stays shallow enough - as far as it is loaded          *)
Movable(t, item, to) ==
    item \in Folders =>
      /\ Ends(t, to) /\ ~Unending(t, item)
      /\ ~IsWithin(t, to, item)
      /\ Depth(t, to) + 1 + SubtreeDepth(t, item) <= MaxDepth

(* Mistake: the source lets go of the items first *)
RemoveFirst(t, entries, items, from, to) ==
    <<Publishing(t, from, Without(store[t][from].children, items)),
      Publishing(t, to, store[t][to].children \cup entries)>>

(* "add-before-remove pattern" *)
MovePlan(t, entries, items, from, to) ==
    <<Publishing(t, to, store[t][to].children \cup entries),
      Publishing(t, from, Without(store[t][from].children, items))>>

(* The nodes of moved folders are written back as they were read, below to *)
Moved(t, nodes, items, to) ==
    [f \in Folders |->
       IF f \in items THEN [store[t][f] EXCEPT !.parent = to] ELSE nodes[f]]

MoveFlow(t, op, items, from, to) ==
    LET entries == Entries(store[t][from].children, items)
        taken   == Edited(store[t], from, Without(store[t][from].children, items))
        given   == Edited(taken, to, store[t][to].children \cup entries)
    IN  [FlowOf(op, items, MovePlan(t, entries, items, from, to),
                Moved(t, given, items, to), {from, to})
           EXCEPT !.placed = {f \in items \cap Folders : Present(t, f)}]

CanMove(t, items, from, to) ==
    LET entries == Entries(store[t][from].children, items) IN
    /\ Usable(t, from) /\ Usable(t, to) /\ from # to
    /\ IdsIn(entries) = items
    /\ NamesIn(entries) \cap NamesIn(store[t][to].children) = {}
    /\ \A c, d \in entries : c.name = d.name => c = d
    /\ \A item \in items : Movable(t, item, to)

(* handleMove, of one item: the numbers in the store stay as they were *)
Move(t, item, from, to) ==
    /\ CanMove(t, {item}, from, to)
    /\ Starts(t, {from, to}, MoveFlow(t, "move", {item}, from, to))
    /\ UNCHANGED <<used, kept>>

(* handleMoveItems, of a selection: the store gets the new numbers *)
MoveItems(t, items, from, to) ==
    /\ Cardinality(items) > 1
    /\ CanMove(t, items, from, to)
    /\ Starts(t, {from, to}, [MoveFlow(t, "moveItems", items, from, to)
                                EXCEPT !.numbered = {from, to}])
    /\ UNCHANGED <<used, kept>>

(* The user wants the items gone, and what is in them *)
Forgets(t, items) ==
    kept' = kept \ (Reach(items, Published) \cup Reach(items, ShownIn(t)))

(* deleteFolder and deleteFileFromFolder: the entry found is spliced out *)
Removed(here, c) == here \ {c}

(* handleDelete: one entry leaves the record, and one node the store *)
Delete(t, c, p) ==
    LET here == store[t][p].children IN
    /\ Usable(t, p)
    /\ c.id \in Folders => ~Unending(t, c.id)
    /\ Starts(t, {p}, [FlowOf("delete", {c.id}, <<Publishing(t, p, Removed(here, c))>>,
                              Edited(store[t], p, Without(here, {c.id})), {p})
                         EXCEPT !.gone = {c.id} \cap Folders])
    /\ Forgets(t, {c.id})
    /\ UNCHANGED used

(* handleDeleteItems: the nodes below them leave the store as well *)
DeleteItems(t, items, p) ==
    LET left == Without(store[t][p].children, items) IN
    /\ Usable(t, p) /\ items # {}
    /\ \A item \in items \cap Folders : ~Unending(t, item)
    /\ Starts(t, {p}, [FlowOf("deleteItems", items, <<Publishing(t, p, left)>>,
                              Edited(store[t], p, left), {p})
                         EXCEPT !.gone = Reach(items, ShownIn(t)) \cap Folders])
    /\ Forgets(t, items)
    /\ UNCHANGED used

(* addFilesToFolder: none of the names may be taken, by the folder's       *)
(* entries or by another of the files                                      *)
NamesFree(here, files) ==
    /\ NamesIn(files) \cap NamesIn(here) = {}
    /\ Cardinality(NamesIn(files)) = Cardinality(files)

(* handleAddFile and handleAddFiles, after the upload *)
AddFiles(t, files, p) ==
    LET here == store[t][p].children
        children == here \cup files
        items == IdsIn(files)
    IN
    /\ files # {} /\ items \subseteq Files \ used
    /\ Cardinality(items) = Cardinality(files)
    /\ NamesFree(here, files)
    /\ Usable(t, p)
    /\ Starts(t, {p}, [FlowOf("add", items, <<Publishing(t, p, children)>>,
                              Edited(store[t], p, children), {p})
                         EXCEPT !.numbered = {p}])
    /\ used' = used \cup items
    /\ UNCHANGED kept

-----------------------------------------------------------------------------
(* An operation under way *)

Current(w) == w.plan[w.at]

(* The network keeps the higher number, and the later record of two *)
Accepted(rec, pub) ==
    IF pub.seq < rec.seq THEN rec ELSE [seq |-> pub.seq, children |-> pub.children]

Advances(t, w, next) == flows' = [flows EXCEPT ![t] = (@ \ {w}) \cup {next}]
Ended(t, w) == flows' = [flows EXCEPT ![t] = @ \ {w}]

(* The files published in one call with the folder *)
Batch(w) == IF w.op = "add" THEN w.items ELSE {}

(* createAndPublishIpnsRecord, or for new files batchPublishIpnsRecords *)
Publish(t, w) ==
    LET pub == Current(w) IN
    /\ w \in flows[t] /\ ~w.sent
    /\ record' = [record EXCEPT ![pub.folder] = Accepted(@, pub)]
    /\ filed' = filed \cup Batch(w)
    /\ Advances(t, w, [w EXCEPT !.sent = TRUE])
    /\ UNCHANGED <<store, polls, loads, synced, used, kept, failures,
                   lostAnswers, closes>>

(* Some records of a batch are published and some are not; then, and when  *)
(* nothing was published, the handler throws and leaves the store alone    *)
PublishFails(t, w) ==
    /\ w \in flows[t] /\ ~w.sent
    /\ failures < MaxFailures
    /\ \E files \in SUBSET Batch(w), listed \in BOOLEAN :
         /\ listed => files # Batch(w)      \* all of it would be success
         /\ filed' = filed \cup files
         /\ record' = IF listed
                       THEN [record EXCEPT ![Current(w).folder] = Accepted(@, Current(w))]
                       ELSE record
    /\ Ended(t, w)
    /\ failures' = failures + 1
    /\ UNCHANGED <<store, polls, loads, synced, used, kept, lostAnswers, closes>>

(* The record is published and the answer does not come back *)
AnswerLost(t, w) ==
    /\ w \in flows[t] /\ w.sent
    /\ lostAnswers < MaxLostAnswers
    /\ lostAnswers' = lostAnswers + 1
    /\ Ended(t, w)
    /\ UNCHANGED <<record, filed, store, polls, loads, synced, used,
                   kept, failures, closes>>

(* updateFolderChildren and updateFolderSequence do nothing to a folder    *)
(* that is not in the store; children make a placeholder count as loaded   *)
Updated(node, new, edited, numbered) ==
    IF node.state = "none" THEN node
    ELSE [node EXCEPT
            !.children = IF edited THEN new.children ELSE @,
            !.state = IF ~edited THEN @
                      ELSE IF @ \in {"loading", "keyless"} THEN "keyless" ELSE "loaded",
            !.seq = IF numbered THEN new.seq ELSE @]

AfterFlow(s, w) ==
    [f \in Folders |->
       IF f \in w.gone THEN NoNode
       ELSE IF f \in w.placed THEN w.after[f]
       ELSE Updated(s[f], w.after[f], f \in w.edited, f \in w.numbered)]

MoreToPublish(w) == w.at < Len(w.plan)

Answered(t, w) ==
    /\ w \in flows[t] /\ w.sent
    /\ IF MoreToPublish(w)
         THEN /\ Advances(t, w, [w EXCEPT !.at = @ + 1, !.sent = FALSE])
              /\ UNCHANGED <<store, kept>>
         ELSE /\ Ended(t, w)
              /\ store' = [store EXCEPT ![t] = AfterFlow(@, w)]
              /\ kept' = IF w.op \in {"create", "add"} THEN kept \cup w.items ELSE kept
    /\ UNCHANGED <<record, filed, polls, loads, synced, used, failures,
                   lostAnswers, closes>>

-----------------------------------------------------------------------------
(* Opening a folder: navigateTo *)

(* The loads under way once latestNavTarget is f *)
Towards(S, f) == {[l EXCEPT !.wanted = (l.folder = f)] : l \in S}

(* To the root, or to a folder that counts as loaded, while one is loading *)
Navigate(t, f) ==
    /\ loads[t] # {}
    /\ f = Root \/ Loaded(t, f)
    /\ loads' = [loads EXCEPT ![t] = Towards(@, f)]
    /\ UNCHANGED <<record, filed, store, flows, polls, synced, used, kept,
                   failures, lostAnswers, closes>>

(* To any other, through a loaded folder that lists it: a placeholder goes *)
(* to the store, also when a load of the folder is under way               *)
NavigateLoad(t, f, p) ==
    /\ MayStart(t)
    /\ f # Root /\ ~Loaded(t, f)
    /\ Loaded(t, p) /\ f \in IdsIn(store[t][p].children)
    /\ store' = [store EXCEPT ![t][f] = [NoNode EXCEPT !.state = "loading", !.parent = p]]
    /\ loads' = [loads EXCEPT ![t] = Towards(@, f) \cup
                   {[folder |-> f, parent |-> p, fetched |-> FALSE, got |-> NoRecord,
                     wanted |-> TRUE]}]
    /\ UNCHANGED <<record, filed, flows, polls, synced, used, kept, failures,
                   lostAnswers, closes>>

(* One attempt: loadFolder resolves the name *)
LoadResolve(t, l) ==
    /\ l \in loads[t] /\ ~l.fetched
    /\ l.wanted
    /\ loads' = [loads EXCEPT ![t] = (@ \ {l}) \cup
                   {[l EXCEPT !.fetched = TRUE, !.got = record[l.folder]]}]
    /\ UNCHANGED <<record, filed, store, flows, polls, synced, used, kept,
                   failures, lostAnswers, closes>>

(* A name that resolves to nothing is tried again a few times *)
LoadRetry(t, l) ==
    /\ l \in loads[t] /\ l.fetched /\ l.got.seq = 0
    /\ loads' = [loads EXCEPT ![t] = (@ \ {l}) \cup {[l EXCEPT !.fetched = FALSE]}]
    /\ UNCHANGED <<record, filed, store, flows, polls, synced, used, kept,
                   failures, lostAnswers, closes>>

(* Mistake: the number of the record is not kept *)
NumberForgotten(l) ==
    [state |-> IF l.got.seq = 0 THEN "bare" ELSE "loaded",
     children |-> l.got.children, seq |-> 0, parent |-> l.parent]

(* The node loadFolder returns: without a record, not loaded *)
LoadedNode(l) ==
    [state |-> IF l.got.seq = 0 THEN "bare" ELSE "loaded",
     children |-> l.got.children, seq |-> l.got.seq, parent |-> l.parent]

(* It is set, over whatever the store holds by now *)
LoadDone(t, l) ==
    /\ l \in loads[t] /\ l.fetched
    /\ l.wanted
    /\ store' = [store EXCEPT ![t][l.folder] = LoadedNode(l)]
    /\ loads' = [loads EXCEPT ![t] = @ \ {l}]
    /\ UNCHANGED <<record, filed, flows, polls, synced, used, kept,
                   failures, lostAnswers, closes>>

(* The user has gone elsewhere: the placeholder stays *)
LoadDropped(t, l) ==
    /\ l \in loads[t] /\ ~l.wanted
    /\ loads' = [loads EXCEPT ![t] = @ \ {l}]
    /\ UNCHANGED <<record, filed, store, flows, polls, synced, used, kept,
                   failures, lostAnswers, closes>>

LoadFails(t, l) ==
    /\ l \in loads[t] /\ failures < MaxFailures
    /\ l.wanted
    /\ store' = [store EXCEPT ![t][l.folder] = NoNode]
    /\ loads' = [loads EXCEPT ![t] = Towards(@ \ {l}, l.parent)]
    /\ failures' = failures + 1
    /\ UNCHANGED <<record, filed, flows, polls, synced, used, kept, lostAnswers, closes>>

-----------------------------------------------------------------------------
(* The poll of the root: useSyncPolling and handleSync *)

PollStart(t) ==
    /\ MayStart(t)
    /\ polls[t].stage = "idle"
    /\ polls' = [polls EXCEPT ![t] = [stage |-> "resolved", got |-> record[Root]]]
    /\ UNCHANGED <<record, filed, store, flows, loads, synced, used, kept,
                   failures, lostAnswers, closes>>

(* No record, or "No changes, already up to date" *)
NoNews(t) == polls[t].got.seq <= store[t][Root].seq

PollUpToDate(t) ==
    /\ polls[t].stage = "resolved" /\ NoNews(t)
    /\ polls' = [polls EXCEPT ![t] = NoPoll]
    /\ synced' = [synced EXCEPT ![t] = TRUE]
    /\ UNCHANGED <<record, filed, store, flows, loads, used, kept,
                   failures, lostAnswers, closes>>

(* "Remote has newer version": its metadata is fetched *)
PollNews(t) ==
    /\ polls[t].stage = "resolved" /\ ~NoNews(t)
    /\ polls' = [polls EXCEPT ![t].stage = "fetching"]
    /\ UNCHANGED <<record, filed, store, flows, loads, synced, used, kept,
                   failures, lostAnswers, closes>>

(* and replaces what the store holds by then *)
PollApply(t) ==
    /\ polls[t].stage = "fetching"
    /\ store' = [store EXCEPT ![t][Root] =
                   [@ EXCEPT !.state = "loaded", !.children = polls[t].got.children,
                             !.seq = polls[t].got.seq]]
    /\ polls' = [polls EXCEPT ![t] = NoPoll]
    /\ synced' = [synced EXCEPT ![t] = TRUE]
    /\ UNCHANGED <<record, filed, flows, loads, used, kept, failures,
                   lostAnswers, closes>>

(* An error while fetching counts as synced, except the first time *)
PollFails(t) ==
    /\ polls[t].stage # "idle" /\ failures < MaxFailures
    /\ polls' = [polls EXCEPT ![t] = NoPoll]
    /\ failures' = failures + 1
    /\ UNCHANGED <<record, filed, store, flows, loads, synced, used, kept,
                   lostAnswers, closes>>

(* The tab is closed or reloaded, and opened again: the store is memory *)
Close(t) ==
    /\ closes < MaxCloses
    /\ closes' = closes + 1
    /\ store' = [store EXCEPT ![t] = FreshStore]
    /\ flows' = [flows EXCEPT ![t] = {}]
    /\ polls' = [polls EXCEPT ![t] = NoPoll]
    /\ loads' = [loads EXCEPT ![t] = {}]
    /\ synced' = [synced EXCEPT ![t] = FALSE]
    /\ UNCHANGED <<record, filed, used, kept, failures, lostAnswers>>

-----------------------------------------------------------------------------
Edit(t) ==
    /\ MayStart(t)
    /\ \/ \E f, p \in Folders, name \in Names : Create(t, f, p, name)
       \/ \E p \in Folders, name \in Names :
            \E c \in store[t][p].children : Rename(t, c, p, name)
       \/ \E from, to \in Folders :
            \E items \in SUBSET IdsIn(store[t][from].children) :
              \/ \E item \in items : items = {item} /\ Move(t, item, from, to)
              \/ MoveItems(t, items, from, to)
       \/ \E p \in Folders : \E c \in store[t][p].children : Delete(t, c, p)
       \/ \E p \in Folders :
            \E items \in SUBSET IdsIn(store[t][p].children) : DeleteItems(t, items, p)
       \/ \E files \in SUBSET [id : Files \ used, name : Names], p \in Folders :
            AddFiles(t, files, p)

FlowStep(t) ==
    \E w \in flows[t] : Publish(t, w) \/ PublishFails(t, w) \/ AnswerLost(t, w) \/ Answered(t, w)

Opening(t) ==
    \/ \E f \in Folders : Navigate(t, f)
    \/ \E f, p \in Folders : NavigateLoad(t, f, p)
    \/ \E l \in loads[t] : \/ LoadResolve(t, l) \/ LoadRetry(t, l) \/ LoadDone(t, l)
                           \/ LoadDropped(t, l) \/ LoadFails(t, l)

Polling(t) ==
    PollStart(t) \/ PollUpToDate(t) \/ PollNews(t) \/ PollApply(t) \/ PollFails(t)

Next == \E t \in Tabs : Edit(t) \/ FlowStep(t) \/ Opening(t) \/ Polling(t) \/ Close(t)

Spec == Init /\ [][Next]_vars

-----------------------------------------------------------------------------
(* Properties *)

(* What useFolder, the folder store, navigateTo and useSyncPolling hold.   *)
TypeOK ==
    /\ record \in [Folders -> Record]
    /\ filed \subseteq Files
    /\ store \in [Tabs -> [Folders -> Node]]
    /\ flows \in [Tabs -> SUBSET Flow]
    /\ \A t \in Tabs : \A w \in flows[t] : w.at \in 1..Len(w.plan)
    /\ polls \in [Tabs -> Poll]
    /\ loads \in [Tabs -> SUBSET Load]
    /\ synced \in [Tabs -> BOOLEAN]
    /\ used \subseteq Ids /\ kept \subseteq used
    /\ {failures, lostAnswers, closes} \subseteq Nat

(* No store is ahead of the records.  A number that is too high would hide *)
(* what other tabs publish - "up to date" is decided by the number alone - *)
(* until they have caught up.                                              *)
NumbersNotAhead == \A t \in Tabs, f \in Folders : store[t][f].seq <= record[f].seq

(* A folder or file whose creation the user saw succeed, and which no one  *)
(* has deleted, can be reached from the root by what is published, and a   *)
(* file has a record of its own: whatever publish failed, and between any  *)
(* two publishes of a move the tab was closed.                             *)
NothingLost ==
    /\ kept \subseteq Reach({Root}, Published)
    /\ kept \cap Files \subseteq filed

(* "Uses add-before-remove pattern to prevent data loss on failure": only a *)
(* deletion takes an item off the last folder that lists it.               *)
OnlyDeletesUnlist ==
    [][\A t \in Tabs : \A w \in flows[t] :
         Publish(t, w) /\ w.op \notin {"delete", "deleteItems"}
           => \A f \in Folders : Published[f] \cap kept
                                  \subseteq UNION {Published'[g] : g \in Folders}]_vars

(* What an idle tab shows in a folder is published: no operation that      *)
(* failed, and no answer that came late, leaves an entry in the store that *)
(* another device would not see.                                           *)
ShownIsSaved ==
    \A t \in Tabs, f \in Folders :
      ~Busy(t) => store[t][f].children \subseteq record[f].children
=============================================================================
