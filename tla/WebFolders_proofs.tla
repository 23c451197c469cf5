--------------------------- MODULE WebFolders_proofs ---------------------------
(* Theorems about WebFolders for every set of tabs, folders and files.    *)
(* The types and NumbersNotAhead hold for users careful or not, and        *)
(* whatever fails or is lost; what is shown and what is kept is proved for *)
(* one tab of a careful user who loses no answer.                          *)
EXTENDS WebFolders, SequenceTheorems, TLAPS

(* The records an operation has published by now *)
Done(w, i) == i < w.at \/ (i = w.at /\ w.sent)
DoneIsPublished(w, rec) ==
    \A i \in 1..Len(w.plan) : Done(w, i) => w.plan[i].seq <= rec[w.plan[i].folder].seq

(* An operation under way: what it published is not above the records, and *)
(* a number it will give the store is one it publishes                     *)
FlowOK(w, rec, ids) ==
    /\ w.at \in 1..Len(w.plan)
    /\ w.op \in {"create", "add"} => w.items \subseteq ids
    /\ w.op = "add" => w.items \subseteq Files
    /\ DoneIsPublished(w, rec)
    /\ \A f \in w.numbered \ w.placed : \E i \in 1..Len(w.plan) :
         w.plan[i].folder = f /\ w.plan[i].seq = w.after[f].seq
    /\ \A f \in w.placed : w.after[f].seq <= rec[f].seq

FlowsOK == \A t \in Tabs : \A w \in flows[t] : FlowOK(w, record, used)
LoadsOK == \A t \in Tabs : \A l \in loads[t] : l.got.seq <= record[l.folder].seq
PollsOK == \A t \in Tabs : polls[t].got.seq <= record[Root].seq

Inv == TypeOK /\ NumbersNotAhead /\ FlowsOK /\ LoadsOK /\ PollsOK

RecordGrows == \A f \in Folders : record[f].seq <= record'[f].seq

LEMMA RootValues ==
    /\ Root \in Folders /\ NoRecord \in Record /\ NoNode \in Node
    /\ FreshStore \in [Folders -> Node] /\ NoPoll \in Poll
    /\ \A f \in Folders : FreshStore[f].seq = 0
    /\ NoRecord.seq = 0 /\ NoPoll.got = NoRecord /\ NoNode.seq = 0
<1>1. Root \in Folders
  BY FolderAssumption
<1>2. NoRecord \in Record /\ NoRecord.seq = 0
  BY DEF NoRecord, Record, Listing
<1>3. NoNode \in Node /\ NoNode.seq = 0
  BY <1>1 DEF NoNode, Node, NodeState, Listing
<1>4. RootNode \in Node /\ RootNode.seq = 0
  BY <1>1 DEF RootNode, NoNode, Node, NodeState, Listing
<1>5. FreshStore \in [Folders -> Node] /\ \A f \in Folders : FreshStore[f].seq = 0
  BY <1>3, <1>4 DEF FreshStore
<1>6. NoPoll \in Poll /\ NoPoll.got = NoRecord
  BY <1>2 DEF NoPoll, Poll
<1> QED
  BY <1>1, <1>2, <1>3, <1>5, <1>6

LEMMA FlowStays ==
    ASSUME NEW w \in Flow, NEW rec \in [Folders -> Record], NEW rec2 \in [Folders -> Record],
           NEW ids, NEW ids2, FlowOK(w, rec, ids), ids \subseteq ids2,
           \A f \in Folders : rec[f].seq <= rec2[f].seq
    PROVE  FlowOK(w, rec2, ids2)
<1>1. /\ w.plan \in Seq(Publication) /\ w.placed \subseteq Folders
      /\ w.after \in [Folders -> Node]
  BY DEF Flow
<1>2. \A i \in 1..Len(w.plan) : w.plan[i].folder \in Folders /\ w.plan[i].seq \in Nat
  <2> TAKE i \in 1..Len(w.plan)
  <2>1. w.plan[i] \in Publication
    BY <1>1, ElementOfSeq
  <2> QED
    BY <2>1 DEF Publication
<1>3. \A f \in Folders : rec[f].seq \in Nat /\ rec2[f].seq \in Nat /\ w.after[f].seq \in Nat
  BY <1>1 DEF Record, Node
<1>4. DoneIsPublished(w, rec2)
  <2>1. DoneIsPublished(w, rec)
    BY DEF FlowOK
  <2> QED
    BY <1>2, <1>3, <2>1 DEF DoneIsPublished
<1>5. \A f \in w.placed : w.after[f].seq <= rec2[f].seq
  BY <1>1, <1>3 DEF FlowOK
<1> QED
  BY <1>4, <1>5 DEF FlowOK

LEMMA InitInv == Init => Inv
<1> SUFFICES ASSUME Init PROVE Inv
  OBVIOUS
<1> USE DEF Init
<1>1. TypeOK
  <2>1. record \in [Folders -> Record] /\ store \in [Tabs -> [Folders -> Node]]
        /\ polls \in [Tabs -> Poll]
    BY RootValues
  <2>2. flows \in [Tabs -> SUBSET Flow] /\ loads \in [Tabs -> SUBSET Load]
        /\ synced \in [Tabs -> BOOLEAN] /\ \A t \in Tabs : flows[t] = {} /\ loads[t] = {}
    OBVIOUS
  <2>3. filed \subseteq Files /\ used \subseteq Ids /\ kept \subseteq used
        /\ {failures, lostAnswers, closes} \subseteq Nat
    OBVIOUS
  <2> QED
    BY <2>1, <2>2, <2>3 DEF TypeOK
<1>2. NumbersNotAhead
  BY RootValues DEF NumbersNotAhead
<1>3. FlowsOK /\ LoadsOK /\ PollsOK
  BY RootValues DEF FlowsOK, LoadsOK, PollsOK
<1> QED
  BY <1>1, <1>2, <1>3 DEF Inv
-----------------------------------------------------------------------------
(* Starting an operation *)

(* The flow of an operation, and its parts that matter here *)
IsFlow(w, op, items, plan, after, numbered, placed) ==
    /\ w \in Flow /\ w.op = op /\ w.items = items /\ w.plan = plan
    /\ w.at = 1 /\ w.sent = FALSE /\ w.after = after
    /\ w.numbered = numbered /\ w.placed = placed

LEMMA FlowOfOK ==
    ASSUME NEW op \in {"create", "rename", "move", "moveItems", "delete",
                       "deleteItems", "add"},
           NEW items \in SUBSET Ids, NEW plan \in Seq(Publication),
           NEW after \in [Folders -> Node], NEW edited \in SUBSET Folders
    PROVE  IsFlow(FlowOf(op, items, plan, after, edited), op, items, plan, after, {}, {})
  BY DEF FlowOf, Flow, IsFlow

LEMMA FlowWith ==
    ASSUME NEW w, NEW op, NEW items, NEW plan, NEW after, NEW numbered, NEW placed,
           IsFlow(w, op, items, plan, after, numbered, placed), NEW S \in SUBSET Folders
    PROVE  /\ IsFlow([w EXCEPT !.placed = S], op, items, plan, after, numbered, S)
           /\ IsFlow([w EXCEPT !.numbered = S], op, items, plan, after, S, placed)
           /\ IsFlow([w EXCEPT !.gone = S], op, items, plan, after, numbered, placed)
  BY DEF IsFlow, Flow

LEMMA StartsKeepInv ==
    ASSUME Inv, NEW t \in Tabs, NEW opened, NEW flow \in Flow, Starts(t, opened, flow),
           used \subseteq used', used' \subseteq Ids, kept' \subseteq kept,
           FlowOK(flow, record, used')
    PROVE  Inv'
<1>1. /\ UNCHANGED <<record, filed, store, polls, loads, synced, failures,
                     lostAnswers, closes>>
      /\ flows' = [flows EXCEPT ![t] = @ \cup {flow}]
  BY DEF Starts
<1>2. flows' \in [Tabs -> SUBSET Flow]
      /\ \A u \in Tabs : \A w \in flows'[u] : w \in flows[u] \/ w = flow
  BY <1>1 DEF Inv, TypeOK
<1>3. FlowsOK'
  <2> SUFFICES ASSUME NEW u \in Tabs, NEW w \in flows'[u] PROVE FlowOK(w, record, used')
    BY <1>1 DEF FlowsOK
  <2>1. CASE w = flow
    BY <2>1
  <2>2. CASE w \in flows[u]
    <3>1. FlowOK(w, record, used)
      BY <2>2 DEF Inv, FlowsOK
    <3>2. \A f \in Folders : record[f].seq \in Nat
      BY DEF Inv, TypeOK, Record
    <3>3. \A f \in Folders : record[f].seq <= record[f].seq
      BY <3>2
    <3>4. w \in Flow /\ record \in [Folders -> Record]
      BY <2>2 DEF Inv, TypeOK
    <3> QED
      BY <3>1, <3>3, <3>4, FlowStays
  <2> QED
    BY <1>2, <2>1, <2>2
<1>4. TypeOK'
  <2>1. \A u \in Tabs : \A w \in flows'[u] : w.at \in 1..Len(w.plan)
    BY <1>3 DEF FlowsOK, FlowOK
  <2>2. kept' \subseteq used'
    BY DEF Inv, TypeOK
  <2> QED
    BY <1>1, <1>2, <2>1, <2>2 DEF Inv, TypeOK
<1>5. NumbersNotAhead' /\ LoadsOK' /\ PollsOK'
  BY <1>1 DEF Inv, NumbersNotAhead, LoadsOK, PollsOK
<1> QED
  BY <1>3, <1>4, <1>5 DEF Inv

LEMMA NodeFacts ==
    ASSUME Inv, NEW t \in Tabs
    PROVE  /\ store[t] \in [Folders -> Node]
           /\ \A f \in Folders :
                /\ store[t][f] \in Node /\ store[t][f].seq \in Nat
                /\ store[t][f].children \in Listing
                /\ store[t][f].seq <= record[f].seq /\ record[f].seq \in Nat
<1>1. store[t] \in [Folders -> Node] /\ record \in [Folders -> Record]
  BY DEF Inv, TypeOK
<1>2. ASSUME NEW f \in Folders
      PROVE  /\ store[t][f] \in Node /\ store[t][f].seq \in Nat
             /\ store[t][f].children \in Listing /\ record[f].seq \in Nat
  BY <1>1 DEF Node, Record
<1> QED
  BY <1>1, <1>2 DEF Inv, NumbersNotAhead

LEMMA EditedNodes ==
    ASSUME NEW nodes \in [Folders -> Node], NEW f \in Folders, NEW children \in Listing
    PROVE  /\ Edited(nodes, f, children) \in [Folders -> Node]
           /\ Edited(nodes, f, children)[f].seq = nodes[f].seq + 1
           /\ \A g \in Folders \ {f} : Edited(nodes, f, children)[g] = nodes[g]
<1> DEFINE old == nodes[f]
           new == [old EXCEPT !.children = children, !.seq = @ + 1]
<1>1. new \in Node /\ new.seq = nodes[f].seq + 1
  <2>1. old \in Node
    OBVIOUS
  <2>2. old.seq = nodes[f].seq
    OBVIOUS
  <2> HIDE DEF old
  <2>3. [old EXCEPT !.children = children] \in Node
        /\ [old EXCEPT !.children = children].seq = old.seq
    BY <2>1 DEF Node
  <2> DEFINE mid == [old EXCEPT !.children = children]
  <2>4. new = [mid EXCEPT !.seq = old.seq + 1]
    OBVIOUS
  <2>5. old.seq + 1 \in Nat
    BY <2>1 DEF Node
  <2> HIDE DEF mid, new
  <2> QED
    BY <2>2, <2>3, <2>4, <2>5 DEF Node, mid
<1>2. Edited(nodes, f, children) = [nodes EXCEPT ![f] = new]
  BY DEF Edited
<1> HIDE DEF new
<1> QED
  BY <1>1, <1>2

LEMMA PublishingRecord ==
    ASSUME Inv, NEW t \in Tabs, NEW f \in Folders, NEW children \in Listing
    PROVE  /\ Publishing(t, f, children) \in Publication
           /\ Publishing(t, f, children).folder = f
           /\ Publishing(t, f, children).seq = store[t][f].seq + 1
  BY NodeFacts DEF Publishing, Publication

LEMMA OnePlan ==
    ASSUME Inv, NEW t \in Tabs, NEW f \in Folders, NEW children \in Listing,
           NEW shown \in Listing
    PROVE  /\ <<Publishing(t, f, children)>> \in Seq(Publication)
           /\ Edited(store[t], f, shown) \in [Folders -> Node]
  BY PublishingRecord, NodeFacts, EditedNodes

LEMMA Listings ==
    ASSUME NEW children \in Listing, NEW items
    PROVE  /\ Without(children, items) \in Listing
           /\ Entries(children, items) \in Listing
           /\ IdsIn(children) \subseteq Ids
           /\ \A c \in children : children \ {c} \in Listing
           /\ \A other \in Listing : children \cup other \in Listing
  BY DEF Without, Entries, IdsIn, Listing, Child

LEMMA CreateInv ==
    ASSUME Inv, NEW t \in Tabs, NEW f \in Folders, NEW p \in Folders, NEW name \in Names,
           Create(t, f, p, name)
    PROVE  Inv'
<1> DEFINE parent == CreateParent(t, p)
           children == store[t][parent].children \cup {[id |-> f, name |-> name]}
           nodes == Edited(store[t], parent, children)
           new == [NoNode EXCEPT !.state = "loaded", !.parent = parent]
           after == [nodes EXCEPT ![f] = new]
           plan == <<Publishing(t, parent, children),
                     [folder |-> f, seq |-> 1, children |-> {}]>>
           plain == FlowOf("create", {f}, plan, after, {parent})
           flow == [plain EXCEPT !.placed = {f}]
<1>1. parent \in Folders
  BY RootValues DEF CreateParent
<1>2. f \in Folders /\ f # Root /\ f \in Ids
  BY DEF Create, NewEntry, Ids
<1>3. children \in Listing
  <2>1. {[id |-> f, name |-> name]} \in Listing
    BY <1>2 DEF Listing, Child
  <2> QED
    BY <1>1, <2>1, NodeFacts, Listings
<1>4. new \in Node /\ new.seq = 0
  BY <1>1 DEF NoNode, Node, NodeState, Listing
<1>5. after \in [Folders -> Node] /\ after[f].seq = 0
  <2>1. nodes \in [Folders -> Node]
    BY <1>1, <1>3, NodeFacts, EditedNodes
  <2> QED
    BY <1>2, <1>4, <2>1
<1>6. plan \in Seq(Publication) /\ Len(plan) = 2
  <2>1. Publishing(t, parent, children) \in Publication
    BY <1>1, <1>3, PublishingRecord
  <2>2. [folder |-> f, seq |-> 1, children |-> {}] \in Publication
    BY DEF Publication, Listing
  <2> HIDE DEF children
  <2> QED
    BY <2>1, <2>2
<1>7. used' = used \cup {f} /\ kept' = kept
  BY DEF Create, NewEntry
<1>8. Starts(t, {parent}, flow)
  BY DEF Create, NewEntry
<1>9. flow \in Flow /\ FlowOK(flow, record, used')
  <2>1. after[f].seq <= record[f].seq
    BY <1>5, NodeFacts
  <2> HIDE DEF after, plan, parent
  <2>2. IsFlow(plain, "create", {f}, plan, after, {}, {})
    BY <1>1, <1>2, <1>5, <1>6, FlowOfOK
  <2> HIDE DEF plain
  <2>3. IsFlow(flow, "create", {f}, plan, after, {}, {f})
    BY <1>2, <2>2, FlowWith
  <2> HIDE DEF flow
  <2>4. flow \in Flow /\ flow.op # "add" /\ flow.at = 1 /\ flow.sent = FALSE
        /\ flow.plan = plan
        /\ flow.items \subseteq used' /\ flow.after = after
        /\ flow.numbered = {} /\ flow.placed = {f}
    BY <1>7, <2>3 DEF IsFlow
  <2>5. Len(plan) = 2
    BY <1>6
  <2>6. \A g \in {f} : after[g].seq <= record[g].seq
    BY <2>1
  <2> QED
    BY <2>4, <2>5, <2>6 DEF FlowOK, DoneIsPublished, Done
<1>10. used' \subseteq Ids /\ used \subseteq used' /\ kept' \subseteq kept
  BY <1>2, <1>7 DEF Inv, TypeOK
<1> HIDE DEF flow
<1> QED
  BY <1>8, <1>9, <1>10, StartsKeepInv

(* An operation that publishes one folder, and gives no node to the store  *)
LEMMA OnePublication ==
    ASSUME Inv, NEW t \in Tabs, NEW p \in Folders, NEW flow, NEW op, NEW items,
           NEW children \in Listing, NEW shown \in Listing, NEW numbered \in SUBSET {p},
           NEW opened,
           IsFlow(flow, op, items, <<Publishing(t, p, children)>>,
                  Edited(store[t], p, shown), numbered, {}),
           op \in {"create", "add"} => items \subseteq used',
           op = "add" => items \subseteq Files,
           used \subseteq used', used' \subseteq Ids, kept' \subseteq kept,
           Starts(t, opened, flow)
    PROVE  Inv'
<1> DEFINE plan == <<Publishing(t, p, children)>>
           after == Edited(store[t], p, shown)
<1>1. plan \in Seq(Publication) /\ Len(plan) = 1 /\ plan[1].folder = p
      /\ plan[1].seq = store[t][p].seq + 1
  BY PublishingRecord
<1>2. after[p].seq = store[t][p].seq + 1
  BY NodeFacts, EditedNodes
<1>3. IsFlow(flow, op, items, plan, after, numbered, {})
  OBVIOUS
<1> HIDE DEF plan, after
<1>4. \A f \in numbered \ {} : \E i \in 1..Len(plan) :
        plan[i].folder = f /\ plan[i].seq = after[f].seq
  BY <1>1, <1>2
<1>5. FlowOK(flow, record, used')
  BY <1>1, <1>3, <1>4 DEF IsFlow, FlowOK, DoneIsPublished, Done
<1>6. flow \in Flow
  BY <1>3 DEF IsFlow
<1> QED
  BY <1>5, <1>6, StartsKeepInv

LEMMA SetsStay ==
    ASSUME Inv, UNCHANGED used, kept' \subseteq kept
    PROVE  used \subseteq used' /\ used' \subseteq Ids /\ kept' \subseteq kept
  BY DEF Inv, TypeOK

LEMMA RenameInv ==
    ASSUME Inv, NEW t \in Tabs, NEW p \in Folders, NEW name \in Names,
           NEW c \in store[t][p].children, Rename(t, c, p, name)
    PROVE  Inv'
<1> DEFINE here == store[t][p].children
           named == [id |-> c.id, name |-> name]
           children == (here \ {c}) \cup {named}
           shown == Without(here, {c.id}) \cup {named}
           plan == <<Publishing(t, p, children)>>
           after == Edited(store[t], p, shown)
           flow == FlowOf("rename", {c.id}, plan, after, {p})
<1>1. here \in Listing /\ c.id \in Ids /\ {named} \in Listing
  BY NodeFacts DEF Listing, Child
<1>2. children \in Listing /\ shown \in Listing
  BY <1>1, Listings
<1>3. plan \in Seq(Publication) /\ after \in [Folders -> Node]
  BY <1>2, OnePlan
<1>4. IsFlow(flow, "rename", {c.id}, plan, after, {}, {})
  <2> HIDE DEF plan, after
  <2> QED
    BY <1>1, <1>3, FlowOfOK
<1>5. Starts(t, {p}, flow) /\ UNCHANGED <<used, kept>>
  BY DEF Rename, Renamed
<1>6. used \subseteq used' /\ used' \subseteq Ids /\ kept' \subseteq kept
  BY <1>5, SetsStay
<1> HIDE DEF children, shown, flow
<1>7. {} \in SUBSET {p} /\ "rename" \notin {"create", "add"}
  OBVIOUS
<1> QED
  BY <1>2, <1>4, <1>5, <1>6, <1>7, OnePublication

LEMMA DeleteInv ==
    ASSUME Inv, NEW t \in Tabs, NEW p \in Folders, NEW c \in store[t][p].children,
           Delete(t, c, p)
    PROVE  Inv'
<1> DEFINE here == store[t][p].children
           children == here \ {c}
           shown == Without(here, {c.id})
           plan == <<Publishing(t, p, children)>>
           after == Edited(store[t], p, shown)
           plain == FlowOf("delete", {c.id}, plan, after, {p})
           flow == [plain EXCEPT !.gone = {c.id} \cap Folders]
<1>1. here \in Listing /\ c.id \in Ids
  BY NodeFacts DEF Listing, Child
<1>2. children \in Listing /\ shown \in Listing
  BY <1>1, Listings
<1>3. plan \in Seq(Publication) /\ after \in [Folders -> Node]
  BY <1>2, OnePlan
<1>4. IsFlow(flow, "delete", {c.id}, plan, after, {}, {})
  <2> HIDE DEF plan, after
  <2>1. IsFlow(plain, "delete", {c.id}, plan, after, {}, {})
    BY <1>1, <1>3, FlowOfOK
  <2> HIDE DEF plain
  <2> QED
    BY <2>1, FlowWith
<1>5. Starts(t, {p}, flow) /\ UNCHANGED used /\ kept' \subseteq kept
  BY DEF Delete, Removed, Forgets
<1>6. used \subseteq used' /\ used' \subseteq Ids /\ kept' \subseteq kept
  BY <1>5, SetsStay
<1> HIDE DEF children, shown, flow
<1>7. {} \in SUBSET {p} /\ "delete" \notin {"create", "add"}
  OBVIOUS
<1> QED
  BY <1>2, <1>4, <1>5, <1>6, <1>7, OnePublication

LEMMA DeleteItemsInv ==
    ASSUME Inv, NEW t \in Tabs, NEW p \in Folders,
           NEW items \in SUBSET IdsIn(store[t][p].children), DeleteItems(t, items, p)
    PROVE  Inv'
<1> DEFINE left == Without(store[t][p].children, items)
           plan == <<Publishing(t, p, left)>>
           after == Edited(store[t], p, left)
           plain == FlowOf("deleteItems", items, plan, after, {p})
           flow == [plain EXCEPT !.gone = Reach(items, ShownIn(t)) \cap Folders]
<1>1. left \in Listing /\ items \in SUBSET Ids
  BY NodeFacts, Listings
<1>2. plan \in Seq(Publication) /\ after \in [Folders -> Node]
  BY <1>1, OnePlan
<1>3. IsFlow(flow, "deleteItems", items, plan, after, {}, {})
  <2> HIDE DEF plan, after
  <2>1. IsFlow(plain, "deleteItems", items, plan, after, {}, {})
    BY <1>1, <1>2, FlowOfOK
  <2> HIDE DEF plain
  <2> QED
    BY <2>1, FlowWith
<1>4. Starts(t, {p}, flow) /\ UNCHANGED used /\ kept' \subseteq kept
  BY DEF DeleteItems, Forgets
<1>5. used \subseteq used' /\ used' \subseteq Ids /\ kept' \subseteq kept
  BY <1>4, SetsStay
<1>6. {} \in SUBSET {p} /\ "deleteItems" \notin {"create", "add"}
  OBVIOUS
<1> HIDE DEF left, flow
<1> QED
  BY <1>1, <1>3, <1>4, <1>5, <1>6, OnePublication

LEMMA AddFilesInv ==
    ASSUME Inv, NEW t \in Tabs, NEW p \in Folders,
           NEW files \in SUBSET [id : Files \ used, name : Names], AddFiles(t, files, p)
    PROVE  Inv'
<1> DEFINE here == store[t][p].children
           children == here \cup files
           items == IdsIn(files)
           plan == <<Publishing(t, p, children)>>
           after == Edited(store[t], p, children)
           plain == FlowOf("add", items, plan, after, {p})
           flow == [plain EXCEPT !.numbered = {p}]
<1>1. files \in Listing /\ items \in SUBSET Ids /\ items \subseteq Files
  BY DEF Listing, Child, Ids, IdsIn
<1>2. children \in Listing
  BY <1>1, NodeFacts, Listings
<1>3. plan \in Seq(Publication) /\ after \in [Folders -> Node]
  BY <1>2, OnePlan
<1>4. IsFlow(flow, "add", items, plan, after, {p}, {})
  <2> HIDE DEF plan, after, items
  <2>1. IsFlow(plain, "add", items, plan, after, {}, {})
    BY <1>1, <1>3, FlowOfOK
  <2> HIDE DEF plain
  <2> QED
    BY <2>1, FlowWith
<1>5. Starts(t, {p}, flow) /\ used' = used \cup items /\ kept' = kept
  BY DEF AddFiles
<1>6. used \subseteq used' /\ used' \subseteq Ids /\ kept' \subseteq kept
      /\ items \subseteq used'
  BY <1>1, <1>5 DEF Inv, TypeOK
<1> HIDE DEF children, items, flow
<1> QED
  BY <1>1, <1>2, <1>4, <1>5, <1>6, OnePublication

(* A move publishes the destination and the source under the next numbers; *)
(* what it gives the store are moved nodes, with the numbers they had      *)
LEMMA MoveParts ==
    ASSUME Inv, NEW t \in Tabs, NEW from \in Folders, NEW to \in Folders, from # to,
           NEW items \in SUBSET IdsIn(store[t][from].children),
           NEW op \in {"move", "moveItems"}
    PROVE  \E plan, after, placed :
               /\ IsFlow(MoveFlow(t, op, items, from, to), op, items, plan, after, {}, placed)
               /\ Len(plan) = 2 /\ placed = {f \in items \cap Folders : Present(t, f)}
               /\ plan[1].folder = to /\ plan[1].seq = store[t][to].seq + 1
               /\ plan[2].folder = from /\ plan[2].seq = store[t][from].seq + 1
               /\ \A f \in Folders \cap items : after[f].seq = store[t][f].seq
               /\ \A f \in {from, to} \ items : after[f].seq = store[t][f].seq + 1
<1> DEFINE entries == Entries(store[t][from].children, items)
           left    == Without(store[t][from].children, items)
           joined  == store[t][to].children \cup entries
           plan    == MovePlan(t, entries, items, from, to)
           taken   == Edited(store[t], from, left)
           given   == Edited(taken, to, joined)
           after   == Moved(t, given, items, to)
           placed  == {f \in items \cap Folders : Present(t, f)}
           plain   == FlowOf(op, items, plan, after, {from, to})
<1>1. left \in Listing /\ joined \in Listing /\ items \in SUBSET Ids
  BY NodeFacts, Listings
<1>2. plan = <<Publishing(t, to, joined), Publishing(t, from, left)>>
  BY DEF MovePlan
<1>3. /\ Publishing(t, to, joined) \in Publication
      /\ Publishing(t, to, joined).folder = to
      /\ Publishing(t, to, joined).seq = store[t][to].seq + 1
      /\ Publishing(t, from, left) \in Publication
      /\ Publishing(t, from, left).folder = from
      /\ Publishing(t, from, left).seq = store[t][from].seq + 1
  BY <1>1, PublishingRecord
<1>4. /\ plan \in Seq(Publication) /\ Len(plan) = 2
      /\ plan[1].folder = to /\ plan[1].seq = store[t][to].seq + 1
      /\ plan[2].folder = from /\ plan[2].seq = store[t][from].seq + 1
  <2> HIDE DEF plan, left, joined
  <2> QED
    BY <1>2, <1>3
<1>5. /\ taken \in [Folders -> Node] /\ taken[from].seq = store[t][from].seq + 1
      /\ taken[to] = store[t][to]
  <2> HIDE DEF left
  <2> QED
    BY <1>1, NodeFacts, EditedNodes
<1>6. /\ given \in [Folders -> Node] /\ given[to].seq = store[t][to].seq + 1
      /\ given[from].seq = store[t][from].seq + 1
  <2> HIDE DEF taken, joined
  <2> QED
    BY <1>1, <1>5, EditedNodes
<1>7. /\ after \in [Folders -> Node]
      /\ \A f \in Folders \cap items : after[f].seq = store[t][f].seq
      /\ \A f \in {from, to} \ items : after[f].seq = store[t][f].seq + 1
  <2> HIDE DEF given
  <2>1. ASSUME NEW f \in Folders
        PROVE  /\ [store[t][f] EXCEPT !.parent = to] \in Node
               /\ [store[t][f] EXCEPT !.parent = to].seq = store[t][f].seq
    <3> DEFINE n == store[t][f]
    <3>1. n \in Node
      BY NodeFacts
    <3> HIDE DEF n
    <3>2. [n EXCEPT !.parent = to] \in Node /\ [n EXCEPT !.parent = to].seq = n.seq
      BY <3>1 DEF Node
    <3> QED
      BY <3>2 DEF n
  <2> QED
    BY <1>6, <2>1 DEF Moved
<1>8. IsFlow([plain EXCEPT !.placed = placed], op, items, plan, after, {}, placed)
  <2>1. placed \in SUBSET Folders
    OBVIOUS
  <2> HIDE DEF plan, after, placed
  <2>2. IsFlow(plain, op, items, plan, after, {}, {})
    BY <1>1, <1>4, <1>7, FlowOfOK
  <2> HIDE DEF plain
  <2> QED
    BY <2>1, <2>2, FlowWith
<1>9. MoveFlow(t, op, items, from, to) = [plain EXCEPT !.placed = placed]
  BY DEF MoveFlow
<1>10. placed = {f \in items \cap Folders : Present(t, f)}
  OBVIOUS
<1> HIDE DEF plan, after, plain, placed
<1>11. IsFlow(MoveFlow(t, op, items, from, to), op, items, plan, after, {}, placed)
  BY <1>8, <1>9
<1> QED
  BY <1>4, <1>7, <1>10, <1>11

LEMMA MoveInv ==
    ASSUME Inv, NEW t \in Tabs, NEW from \in Folders, NEW to \in Folders,
           NEW items \in SUBSET IdsIn(store[t][from].children),
           \/ \E item \in items : items = {item} /\ Move(t, item, from, to)
           \/ MoveItems(t, items, from, to)
    PROVE  Inv'
<1>1. PICK op, numbered, flow :
        /\ op \in {"move", "moveItems"} /\ numbered \in SUBSET {from, to}
        /\ CanMove(t, items, from, to)
        /\ Starts(t, {from, to}, flow) /\ UNCHANGED <<used, kept>>
        /\ \/ flow = MoveFlow(t, op, items, from, to) /\ numbered = {}
           \/ flow = [MoveFlow(t, op, items, from, to) EXCEPT !.numbered = numbered]
  BY DEF Move, MoveItems
<1>2. from # to /\ Present(t, from) /\ Present(t, to)
  BY <1>1 DEF CanMove, Usable, Present
<1>3. PICK plan, after, placed :
      /\ IsFlow(MoveFlow(t, op, items, from, to), op, items, plan, after, {}, placed)
      /\ Len(plan) = 2 /\ placed = {f \in items \cap Folders : Present(t, f)}
      /\ plan[1].folder = to /\ plan[1].seq = store[t][to].seq + 1
      /\ plan[2].folder = from /\ plan[2].seq = store[t][from].seq + 1
      /\ \A f \in Folders \cap items : after[f].seq = store[t][f].seq
      /\ \A f \in {from, to} \ items : after[f].seq = store[t][f].seq + 1
  BY <1>1, <1>2, MoveParts
<1>4. numbered \in SUBSET Folders /\ \A f \in numbered \ placed : f \notin items
  BY <1>1, <1>2, <1>3
<1>5. \A f \in placed : f \in Folders \cap items
  BY <1>3
<1>6. IsFlow(flow, op, items, plan, after, numbered, placed)
  <2>1. CASE flow = MoveFlow(t, op, items, from, to) /\ numbered = {}
    BY <1>3, <2>1
  <2>2. CASE flow = [MoveFlow(t, op, items, from, to) EXCEPT !.numbered = numbered]
    BY <1>3, <1>4, <2>2, FlowWith
  <2> QED
    BY <1>1, <2>1, <2>2
<1>7. FlowOK(flow, record, used')
  <2>1. \A f \in placed : after[f].seq <= record[f].seq
    BY <1>3, <1>5, NodeFacts
  <2>2. \A f \in numbered \ placed : \E i \in 1..Len(plan) :
          plan[i].folder = f /\ plan[i].seq = after[f].seq
    BY <1>1, <1>3, <1>4
  <2>3. flow.op \notin {"create", "add"} /\ flow.at = 1 /\ flow.sent = FALSE
        /\ flow.plan = plan /\ flow.after = after
        /\ flow.numbered = numbered /\ flow.placed = placed
    BY <1>1, <1>6 DEF IsFlow
  <2>4. Len(plan) = 2
    BY <1>3
  <2> QED
    BY <2>1, <2>2, <2>3, <2>4 DEF FlowOK, DoneIsPublished, Done
<1>8. flow \in Flow
  BY <1>6 DEF IsFlow
<1>9. used \subseteq used' /\ used' \subseteq Ids /\ kept' \subseteq kept
  BY <1>1, SetsStay
<1> QED
  BY <1>1, <1>7, <1>8, <1>9, StartsKeepInv

LEMMA EditInv ==
    ASSUME Inv, NEW t \in Tabs, Edit(t)
    PROVE  Inv'
  BY CreateInv, RenameInv, MoveInv, DeleteInv, DeleteItemsInv, AddFilesInv DEF Edit

-----------------------------------------------------------------------------
(* An operation under way *)

LEMMA FlowsKept ==
    ASSUME Inv, record' \in [Folders -> Record], RecordGrows, UNCHANGED used,
           flows' \in [Tabs -> SUBSET Flow],
           \A t \in Tabs : \A w \in flows'[t] : w \in flows[t] \/ FlowOK(w, record', used)
    PROVE  FlowsOK' /\ \A t \in Tabs : \A w \in flows'[t] : w.at \in 1..Len(w.plan)
<1>1. ASSUME NEW t \in Tabs, NEW w \in flows'[t]
      PROVE  FlowOK(w, record', used')
  <2>1. CASE w \in flows[t]
    <3>1. FlowOK(w, record, used) /\ w \in Flow /\ record \in [Folders -> Record]
      BY <2>1 DEF Inv, FlowsOK, TypeOK
    <3> QED
      BY <3>1, FlowStays DEF RecordGrows
  <2>2. CASE FlowOK(w, record', used)
    BY <2>2
  <2> QED
    BY <2>1, <2>2
<1> QED
  BY <1>1 DEF FlowsOK, FlowOK

LEMMA NumbersKept ==
    ASSUME Inv, record' \in [Folders -> Record], RecordGrows
    PROVE  /\ UNCHANGED store => NumbersNotAhead'
           /\ UNCHANGED loads => LoadsOK'
           /\ UNCHANGED polls => PollsOK'
<1>1. \A f \in Folders : record[f].seq \in Nat /\ record'[f].seq \in Nat
  BY DEF Inv, TypeOK, Record
<1>2. UNCHANGED store => NumbersNotAhead'
  BY <1>1, NodeFacts DEF NumbersNotAhead, RecordGrows
<1>3. UNCHANGED loads => LoadsOK'
  <2> SUFFICES ASSUME UNCHANGED loads, NEW t \in Tabs, NEW l \in loads[t]
               PROVE  l.got.seq <= record'[l.folder].seq
    BY DEF LoadsOK
  <2>1. l.folder \in Folders /\ l.got.seq \in Nat
    BY DEF Inv, TypeOK, Load, Record
  <2>2. l.got.seq <= record[l.folder].seq
    BY DEF Inv, LoadsOK
  <2> QED
    BY <1>1, <2>1, <2>2 DEF RecordGrows
<1>4. UNCHANGED polls => PollsOK'
  <2> SUFFICES ASSUME UNCHANGED polls, NEW t \in Tabs
               PROVE  polls[t].got.seq <= record'[Root].seq
    BY DEF PollsOK
  <2>1. polls[t].got.seq \in Nat
    BY DEF Inv, TypeOK, Poll, Record
  <2>2. polls[t].got.seq <= record[Root].seq
    BY DEF Inv, PollsOK
  <2> QED
    BY <1>1, <2>1, <2>2, RootValues DEF RecordGrows
<1> QED
  BY <1>2, <1>3, <1>4

LEMMA SameRecord ==
    ASSUME Inv, UNCHANGED record
    PROVE  RecordGrows /\ record' \in [Folders -> Record]
<1>1. \A f \in Folders : record[f].seq \in Nat
  BY DEF Inv, TypeOK, Record
<1> QED
  BY <1>1 DEF RecordGrows, Inv, TypeOK

LEMMA CurrentPublication ==
    ASSUME Inv, NEW t \in Tabs, NEW w \in flows[t]
    PROVE  /\ w \in Flow /\ FlowOK(w, record, used)
           /\ w.at \in 1..Len(w.plan) /\ w.plan \in Seq(Publication) /\ w.sent \in BOOLEAN
           /\ \A i \in 1..Len(w.plan) : w.plan[i] \in Publication
           /\ Current(w).folder \in Folders /\ Current(w).seq \in Nat
           /\ Current(w).children \in Listing
<1>1. w \in Flow /\ FlowOK(w, record, used) /\ w.at \in 1..Len(w.plan)
  BY DEF Inv, TypeOK, FlowsOK
<1>2. w.plan \in Seq(Publication) /\ w.sent \in BOOLEAN
  BY <1>1 DEF Flow
<1>3. \A i \in 1..Len(w.plan) : w.plan[i] \in Publication
  BY <1>2, ElementOfSeq
<1>4. Current(w) \in Publication
  BY <1>1, <1>3 DEF Current
<1> QED
  BY <1>1, <1>2, <1>3, <1>4 DEF Publication

LEMMA AcceptedGrows ==
    ASSUME Inv, NEW t \in Tabs, NEW w \in flows[t],
           record' = [record EXCEPT ![Current(w).folder] = Accepted(@, Current(w))]
    PROVE  /\ record' \in [Folders -> Record] /\ RecordGrows
           /\ Current(w).seq <= record'[Current(w).folder].seq
<1> DEFINE pub == Current(w)
           old == record[pub.folder]
           new == Accepted(old, pub)
<1>1. pub.folder \in Folders /\ pub.seq \in Nat /\ pub.children \in Listing
  BY CurrentPublication
<1>2. record \in [Folders -> Record] /\ old \in Record
  BY <1>1 DEF Inv, TypeOK
<1>3. new \in Record /\ pub.seq <= new.seq /\ old.seq <= new.seq
  <2> HIDE DEF pub, old
  <2> QED
    BY <1>1, <1>2 DEF Accepted, Record
<1>4. record' = [record EXCEPT ![pub.folder] = new]
  OBVIOUS
<1>5. \A f \in Folders : record[f].seq \in Nat
  BY <1>2 DEF Record
<1> HIDE DEF pub, new
<1> QED
  BY <1>1, <1>2, <1>3, <1>4, <1>5 DEF RecordGrows, pub

LEMMA PublishInv ==
    ASSUME Inv, NEW t \in Tabs, NEW w \in flows[t], Publish(t, w)
    PROVE  Inv'
<1> DEFINE next == [w EXCEPT !.sent = TRUE]
<1>1. /\ record' = [record EXCEPT ![Current(w).folder] = Accepted(@, Current(w))]
      /\ filed' = filed \cup Batch(w)
      /\ flows' = [flows EXCEPT ![t] = (@ \ {w}) \cup {next}]
      /\ UNCHANGED <<store, polls, loads, synced, used, kept, failures,
                     lostAnswers, closes>>
  BY DEF Publish, Advances
<1>2. record' \in [Folders -> Record] /\ RecordGrows
      /\ Current(w).seq <= record'[Current(w).folder].seq
  BY <1>1, AcceptedGrows
<1>3. FlowOK(w, record', used)
  BY <1>2, FlowStays, CurrentPublication DEF RecordGrows, Inv, TypeOK
<1>4. /\ next \in Flow /\ next.at = w.at /\ next.plan = w.plan /\ next.op = w.op
      /\ next.items = w.items /\ next.numbered = w.numbered /\ next.placed = w.placed
      /\ next.after = w.after /\ next.sent = TRUE
  BY CurrentPublication DEF Flow
<1>5. FlowOK(next, record', used)
  <2>1. DoneIsPublished(next, record')
    <3>1. w.plan[w.at].seq <= record'[w.plan[w.at].folder].seq
      BY <1>2 DEF Current
    <3>2. DoneIsPublished(w, record')
      BY <1>3 DEF FlowOK
    <3> HIDE DEF next
    <3> QED
      BY <1>4, <3>1, <3>2, CurrentPublication DEF DoneIsPublished, Done
  <2> HIDE DEF next
  <2> QED
    BY <1>3, <1>4, <2>1 DEF FlowOK
<1> HIDE DEF next
<1>6. flows' \in [Tabs -> SUBSET Flow]
      /\ \A u \in Tabs : \A v \in flows'[u] : v \in flows[u] \/ v = next
  BY <1>1, <1>4 DEF Inv, TypeOK
<1>7. FlowsOK' /\ \A u \in Tabs : \A v \in flows'[u] : v.at \in 1..Len(v.plan)
  <2>1. UNCHANGED used /\ \A u \in Tabs : \A v \in flows'[u] :
          v \in flows[u] \/ FlowOK(v, record', used)
    BY <1>1, <1>5, <1>6
  <2> QED
    BY <1>2, <1>6, <2>1, FlowsKept
<1>8. filed' \subseteq Files
  <2>1. w.op = "add" => w.items \subseteq Files
    BY CurrentPublication DEF FlowOK
  <2> QED
    BY <1>1, <2>1 DEF Batch, Inv, TypeOK
<1>9. TypeOK'
  BY <1>1, <1>2, <1>6, <1>7, <1>8 DEF Inv, TypeOK
<1> QED
  BY <1>1, <1>2, <1>7, <1>9, NumbersKept DEF Inv

LEMMA FlowEndsInv ==
    ASSUME Inv, NEW t \in Tabs, NEW w \in flows[t],
           PublishFails(t, w) \/ AnswerLost(t, w)
    PROVE  Inv'
<1>1. /\ flows' = [flows EXCEPT ![t] = @ \ {w}]
      /\ UNCHANGED <<store, polls, loads, synced, used, kept, closes>>
  BY DEF PublishFails, AnswerLost, Ended
<1>2. record' \in [Folders -> Record] /\ RecordGrows
  <2>1. \/ UNCHANGED record
        \/ record' = [record EXCEPT ![Current(w).folder] = Accepted(@, Current(w))]
    BY DEF PublishFails, AnswerLost
  <2> QED
    BY <2>1, SameRecord, AcceptedGrows
<1>3. flows' \in [Tabs -> SUBSET Flow]
      /\ \A u \in Tabs : \A v \in flows'[u] : v \in flows[u]
  BY <1>1 DEF Inv, TypeOK
<1>4. FlowsOK' /\ \A u \in Tabs : \A v \in flows'[u] : v.at \in 1..Len(v.plan)
  BY <1>1, <1>2, <1>3, FlowsKept
<1>5. filed' \subseteq Files
  <2>1. Batch(w) \subseteq Files
    BY CurrentPublication DEF FlowOK, Batch
  <2> QED
    BY <2>1 DEF PublishFails, AnswerLost, Inv, TypeOK
<1>6. {failures', lostAnswers', closes'} \subseteq Nat
  BY DEF PublishFails, AnswerLost, Inv, TypeOK
<1>7. TypeOK'
  BY <1>1, <1>2, <1>3, <1>4, <1>5, <1>6 DEF Inv, TypeOK
<1> QED
  BY <1>1, <1>2, <1>4, <1>7, NumbersKept DEF Inv

LEMMA AdvanceInv ==
    ASSUME Inv, NEW t \in Tabs, NEW w \in flows[t], Answered(t, w), MoreToPublish(w)
    PROVE  Inv'
<1> DEFINE next == [w EXCEPT !.at = @ + 1, !.sent = FALSE]
<1>1. /\ flows' = [flows EXCEPT ![t] = (@ \ {w}) \cup {next}]
      /\ UNCHANGED <<record, filed, store, polls, loads, synced, used, kept,
                     failures, lostAnswers, closes>>
  BY DEF Answered, Advances
<1>2. w.sent /\ w.at \in 1..Len(w.plan) /\ w.at < Len(w.plan) /\ Len(w.plan) \in Nat
  BY CurrentPublication, LenProperties DEF Answered, MoreToPublish
<1>3. /\ next \in Flow /\ next.at = w.at + 1 /\ next.plan = w.plan /\ next.op = w.op
      /\ next.items = w.items /\ next.numbered = w.numbered /\ next.placed = w.placed
      /\ next.after = w.after /\ next.sent = FALSE
  <2> DEFINE mid == [w EXCEPT !.at = w.at + 1]
  <2>1. w \in Flow /\ w.at + 1 \in Nat
    BY <1>2, CurrentPublication
  <2>2. /\ mid \in Flow /\ mid.at = w.at + 1 /\ mid.plan = w.plan /\ mid.op = w.op
        /\ mid.items = w.items /\ mid.numbered = w.numbered /\ mid.placed = w.placed
        /\ mid.after = w.after
    BY <2>1 DEF Flow
  <2>3. next = [mid EXCEPT !.sent = FALSE]
    OBVIOUS
  <2> HIDE DEF next, mid
  <2> QED
    BY <2>2, <2>3 DEF Flow
<1> HIDE DEF next
<1>4. FlowOK(next, record', used)
  <2>1. FlowOK(w, record', used)
    BY <1>1, CurrentPublication
  <2>2. DoneIsPublished(w, record')
    BY <2>1 DEF FlowOK
  <2>3. DoneIsPublished(next, record')
    BY <1>2, <1>3, <2>2 DEF DoneIsPublished, Done
  <2> QED
    BY <1>2, <1>3, <2>1, <2>3 DEF FlowOK
<1>5. flows' \in [Tabs -> SUBSET Flow]
      /\ \A u \in Tabs : \A v \in flows'[u] : v \in flows[u] \/ v = next
  BY <1>1, <1>3 DEF Inv, TypeOK
<1>6. record' \in [Folders -> Record] /\ RecordGrows
  BY <1>1, SameRecord
<1>7. FlowsOK' /\ \A u \in Tabs : \A v \in flows'[u] : v.at \in 1..Len(v.plan)
  <2>1. UNCHANGED used /\ \A u \in Tabs : \A v \in flows'[u] :
          v \in flows[u] \/ FlowOK(v, record', used)
    BY <1>1, <1>4, <1>5
  <2> QED
    BY <1>5, <1>6, <2>1, FlowsKept
<1>8. TypeOK'
  BY <1>1, <1>5, <1>6, <1>7 DEF Inv, TypeOK
<1> QED
  BY <1>1, <1>6, <1>7, <1>8, NumbersKept DEF Inv

LEMMA UpdatedNode ==
    ASSUME NEW node \in Node, NEW new \in Node, NEW edited, NEW numbered
    PROVE  /\ Updated(node, new, edited, numbered) \in Node
           /\ Updated(node, new, edited, numbered).seq \in {node.seq, new.seq}
           /\ ~numbered => Updated(node, new, edited, numbered).seq = node.seq
<1> DEFINE children == IF edited THEN new.children ELSE node.children
           state == IF ~edited THEN node.state
                    ELSE IF node.state \in {"loading", "keyless"} THEN "keyless" ELSE "loaded"
           seq == IF numbered THEN new.seq ELSE node.seq
           first == [node EXCEPT !.children = children]
           second == [first EXCEPT !.state = state]
           third == [second EXCEPT !.seq = seq]
<1>1. CASE node.state = "none"
  BY <1>1 DEF Updated
<1>2. CASE node.state # "none"
  <2>1. first \in Node /\ first.state = node.state /\ first.seq = node.seq
    BY DEF Node
  <2>2. state \in NodeState
    BY DEF Node, NodeState
  <2>3. second \in Node /\ second.seq = node.seq
    <3> HIDE DEF first, state
    <3> QED
      BY <2>1, <2>2 DEF Node
  <2>4. seq \in Nat /\ seq \in {node.seq, new.seq} /\ (~numbered => seq = node.seq)
    BY DEF Node
  <2>5. third \in Node /\ third.seq = seq
    <3> HIDE DEF second, seq
    <3> QED
      BY <2>3, <2>4 DEF Node
  <2>6. Updated(node, new, edited, numbered) = third
    BY <1>2, <2>1, <2>3 DEF Updated
  <2> HIDE DEF third, seq
  <2> QED
    BY <2>4, <2>5, <2>6
<1> QED
  BY <1>1, <1>2

LEMMA LastAnswerInv ==
    ASSUME Inv, NEW t \in Tabs, NEW w \in flows[t], Answered(t, w), ~MoreToPublish(w)
    PROVE  Inv'
<1>1. /\ flows' = [flows EXCEPT ![t] = @ \ {w}]
      /\ store' = [store EXCEPT ![t] = AfterFlow(store[t], w)]
      /\ kept' = IF w.op \in {"create", "add"} THEN kept \cup w.items ELSE kept
      /\ UNCHANGED <<record, filed, polls, loads, synced, used, failures,
                     lostAnswers, closes>>
  BY DEF Answered, Ended
<1>2. w.sent /\ w.at \in 1..Len(w.plan) /\ w.at = Len(w.plan)
  BY CurrentPublication, LenProperties DEF Answered, MoreToPublish
<1>3. \A i \in 1..Len(w.plan) : w.plan[i].seq <= record[w.plan[i].folder].seq
  BY <1>2, CurrentPublication, LenProperties DEF FlowOK, DoneIsPublished, Done
<1>4. ASSUME NEW f \in Folders
      PROVE  AfterFlow(store[t], w)[f] \in Node /\ AfterFlow(store[t], w)[f].seq <= record[f].seq
  <2>1. w.after[f] \in Node /\ store[t][f] \in Node /\ store[t][f].seq <= record[f].seq
        /\ record[f].seq \in Nat
    BY CurrentPublication, NodeFacts DEF Flow
  <2>2. CASE f \in w.gone
    BY <2>1, <2>2, RootValues DEF AfterFlow
  <2>3. CASE f \notin w.gone /\ f \in w.placed
    BY <2>1, <2>3, CurrentPublication DEF AfterFlow, FlowOK
  <2>4. CASE f \notin w.gone /\ f \notin w.placed
    <3> DEFINE edited == f \in w.edited
               numbered == f \in w.numbered
               node == Updated(store[t][f], w.after[f], edited, numbered)
    <3>1. AfterFlow(store[t], w)[f] = node
      BY <2>4 DEF AfterFlow
    <3>2. node \in Node /\ node.seq \in {store[t][f].seq, w.after[f].seq}
          /\ (~numbered => node.seq = store[t][f].seq)
      <4> HIDE DEF edited, numbered
      <4> QED
        BY <2>1, UpdatedNode
    <3>3. f \in w.numbered => w.after[f].seq <= record[f].seq
      BY <1>3, <2>4, CurrentPublication DEF FlowOK
    <3> HIDE DEF node
    <3> QED
      BY <2>1, <3>1, <3>2, <3>3
  <2> QED
    BY <2>2, <2>3, <2>4
<1>5. store' \in [Tabs -> [Folders -> Node]]
  <2>1. AfterFlow(store[t], w) \in [Folders -> Node]
    BY <1>4 DEF AfterFlow
  <2> QED
    BY <1>1, <2>1 DEF Inv, TypeOK
<1>6. NumbersNotAhead'
  BY <1>1, <1>4 DEF Inv, TypeOK, NumbersNotAhead
<1>7. flows' \in [Tabs -> SUBSET Flow]
      /\ \A u \in Tabs : \A v \in flows'[u] : v \in flows[u]
  BY <1>1 DEF Inv, TypeOK
<1>8. record' \in [Folders -> Record] /\ RecordGrows
  BY <1>1, SameRecord
<1>9. FlowsOK' /\ \A u \in Tabs : \A v \in flows'[u] : v.at \in 1..Len(v.plan)
  BY <1>1, <1>7, <1>8, FlowsKept
<1>10. kept' \subseteq used'
  BY <1>1, CurrentPublication DEF FlowOK, Inv, TypeOK
<1>11. TypeOK'
  BY <1>1, <1>5, <1>7, <1>8, <1>9, <1>10 DEF Inv, TypeOK
<1> QED
  BY <1>1, <1>6, <1>8, <1>9, <1>11, NumbersKept DEF Inv

LEMMA FlowStepInv ==
    ASSUME Inv, NEW t \in Tabs, FlowStep(t)
    PROVE  Inv'
  BY PublishInv, FlowEndsInv, AdvanceInv, LastAnswerInv DEF FlowStep

-----------------------------------------------------------------------------
(* Opening folders, polling the root, closing the tab *)

(* These steps leave the records and the operations alone; what they give  *)
(* the store is not above the records                                      *)
LEMMA StoreStepInv ==
    ASSUME Inv, UNCHANGED <<record, filed, flows, used, kept, lostAnswers, closes>>,
           failures' \in Nat,
           store' \in [Tabs -> [Folders -> Node]], NumbersNotAhead',
           loads' \in [Tabs -> SUBSET Load], LoadsOK',
           polls' \in [Tabs -> Poll], PollsOK', synced' \in [Tabs -> BOOLEAN]
    PROVE  Inv'
<1>1. TypeOK'
  BY DEF Inv, TypeOK
<1>2. FlowsOK'
  BY DEF Inv, FlowsOK
<1> QED
  BY <1>1, <1>2 DEF Inv

LEMMA PutNode ==
    ASSUME Inv, NEW t \in Tabs, NEW f \in Folders, NEW node \in Node,
           node.seq <= record[f].seq, store' = [store EXCEPT ![t][f] = node],
           UNCHANGED record
    PROVE  store' \in [Tabs -> [Folders -> Node]] /\ NumbersNotAhead'
<1>1. store \in [Tabs -> [Folders -> Node]]
  BY DEF Inv, TypeOK
<1>2. store' \in [Tabs -> [Folders -> Node]]
  BY <1>1
<1>3. \A u \in Tabs, g \in Folders :
        store'[u][g] = store[u][g] \/ (u = t /\ g = f /\ store'[u][g] = node)
  BY <1>1
<1> QED
  BY <1>2, <1>3 DEF Inv, NumbersNotAhead

LEMMA SameStore ==
    ASSUME Inv, UNCHANGED <<record, store>>
    PROVE  store' \in [Tabs -> [Folders -> Node]] /\ NumbersNotAhead'
  BY DEF Inv, TypeOK, NumbersNotAhead

LEMMA SameLoads ==
    ASSUME Inv, UNCHANGED <<record, loads>>
    PROVE  loads' \in [Tabs -> SUBSET Load] /\ LoadsOK'
  BY DEF Inv, TypeOK, LoadsOK

LEMMA SamePolls ==
    ASSUME Inv, UNCHANGED <<record, polls>>
    PROVE  polls' \in [Tabs -> Poll] /\ PollsOK'
  BY DEF Inv, TypeOK, PollsOK

LEMMA LoadFacts ==
    ASSUME Inv, NEW t \in Tabs, NEW l \in loads[t]
    PROVE  /\ l \in Load /\ l.folder \in Folders /\ l.parent \in Folders
           /\ l.got \in Record /\ l.got.seq \in Nat /\ l.got.children \in Listing
           /\ l.got.seq <= record[l.folder].seq
  BY DEF Inv, TypeOK, LoadsOK, Load, Record

LEMMA TowardsLoads ==
    ASSUME Inv, NEW t \in Tabs, NEW S \in SUBSET loads[t], NEW f
    PROVE  \A l \in Towards(S, f) : l \in Load /\ l.got.seq <= record[l.folder].seq
<1> SUFFICES ASSUME NEW l \in S
             PROVE  LET n == [l EXCEPT !.wanted = (l.folder = f)]
                    IN  n \in Load /\ n.got.seq <= record[n.folder].seq
  BY DEF Towards
<1>1. l \in Load /\ l.got.seq <= record[l.folder].seq
  BY LoadFacts
<1> QED
  BY <1>1 DEF Load

(* A set of loads for one tab *)
LEMMA PutLoads ==
    ASSUME Inv, NEW t \in Tabs, NEW L, loads' = [loads EXCEPT ![t] = L],
           \A l \in L : l \in Load /\ l.got.seq <= record[l.folder].seq,
           UNCHANGED record
    PROVE  loads' \in [Tabs -> SUBSET Load] /\ LoadsOK'
<1>1. loads \in [Tabs -> SUBSET Load]
  BY DEF Inv, TypeOK
<1>2. loads' \in [Tabs -> SUBSET Load]
  BY <1>1
<1>3. \A u \in Tabs : loads'[u] = loads[u] \/ (u = t /\ loads'[u] = L)
  BY <1>1
<1> QED
  BY <1>2, <1>3 DEF Inv, LoadsOK

LEMMA OpeningInv ==
    ASSUME Inv, NEW t \in Tabs, Opening(t)
    PROVE  Inv'
<1>1. ASSUME NEW f \in Folders, Navigate(t, f) PROVE Inv'
  <2>1. loads' \in [Tabs -> SUBSET Load] /\ LoadsOK'
    <3> DEFINE L == Towards(loads[t], f)
    <3>1. \A l \in L : l \in Load /\ l.got.seq <= record[l.folder].seq
      BY TowardsLoads
    <3>2. loads' = [loads EXCEPT ![t] = L] /\ UNCHANGED record
      BY <1>1 DEF Navigate
    <3> HIDE DEF L
    <3> QED
      BY <3>1, <3>2, PutLoads
  <2> QED
    BY <1>1, <2>1, SameStore, SamePolls, StoreStepInv DEF Navigate, Inv, TypeOK
<1>2. ASSUME NEW f \in Folders, NEW p \in Folders, NavigateLoad(t, f, p) PROVE Inv'
  <2> DEFINE node == [NoNode EXCEPT !.state = "loading", !.parent = p]
             load == [folder |-> f, parent |-> p, fetched |-> FALSE, got |-> NoRecord,
                      wanted |-> TRUE]
             L == Towards(loads[t], f) \cup {load}
  <2>1. node \in Node /\ node.seq = 0
    BY DEF NoNode, Node, NodeState, Listing
  <2>2. record[f].seq \in Nat /\ node.seq <= record[f].seq
    <3> HIDE DEF node
    <3> QED
      BY <2>1, NodeFacts
  <2>3. load \in Load /\ load.got.seq <= record[load.folder].seq
    BY <2>2, RootValues DEF Load
  <2>4. /\ store' = [store EXCEPT ![t][f] = node]
        /\ loads' = [loads EXCEPT ![t] = L] /\ UNCHANGED record
    BY <1>2 DEF NavigateLoad
  <2> HIDE DEF node, load
  <2>5. store' \in [Tabs -> [Folders -> Node]] /\ NumbersNotAhead'
    BY <2>1, <2>2, <2>4, PutNode
  <2>6. \A l \in L : l \in Load /\ l.got.seq <= record[l.folder].seq
    BY <2>3, TowardsLoads
  <2> HIDE DEF L
  <2>7. loads' \in [Tabs -> SUBSET Load] /\ LoadsOK'
    BY <2>4, <2>6, PutLoads
  <2> QED
    BY <1>2, <2>5, <2>7, SamePolls, StoreStepInv DEF NavigateLoad, Inv, TypeOK
<1>3. ASSUME NEW l \in loads[t], LoadResolve(t, l) PROVE Inv'
  <2> DEFINE new == [l EXCEPT !.fetched = TRUE, !.got = record[l.folder]]
             L == (loads[t] \ {l}) \cup {new}
  <2>1. record[l.folder] \in Record /\ record[l.folder].seq \in Nat
    BY LoadFacts DEF Inv, TypeOK, Record
  <2>2. new \in Load /\ new.folder = l.folder /\ new.got = record[l.folder]
    <3> DEFINE mid == [l EXCEPT !.fetched = TRUE]
    <3>1. mid \in Load /\ mid.folder = l.folder
      BY LoadFacts DEF Load
    <3>2. new = [mid EXCEPT !.got = record[l.folder]]
      OBVIOUS
    <3> HIDE DEF mid, new
    <3> QED
      BY <2>1, <3>1, <3>2 DEF Load
  <2>3. loads' = [loads EXCEPT ![t] = L] /\ UNCHANGED record
    BY <1>3 DEF LoadResolve
  <2> HIDE DEF new
  <2>4. \A k \in L : k \in Load /\ k.got.seq <= record[k.folder].seq
    BY <2>1, <2>2, LoadFacts
  <2> HIDE DEF L
  <2>5. loads' \in [Tabs -> SUBSET Load] /\ LoadsOK'
    BY <2>3, <2>4, PutLoads
  <2> QED
    BY <1>3, <2>5, SameStore, SamePolls, StoreStepInv DEF LoadResolve, Inv, TypeOK
<1>4. ASSUME NEW l \in loads[t], LoadRetry(t, l) PROVE Inv'
  <2> DEFINE new == [l EXCEPT !.fetched = FALSE]
             L == (loads[t] \ {l}) \cup {new}
  <2>1. new \in Load /\ new.folder = l.folder /\ new.got = l.got
    BY LoadFacts DEF Load
  <2>2. loads' = [loads EXCEPT ![t] = L] /\ UNCHANGED record
    BY <1>4 DEF LoadRetry
  <2> HIDE DEF new
  <2>3. \A k \in L : k \in Load /\ k.got.seq <= record[k.folder].seq
    BY <2>1, LoadFacts
  <2> HIDE DEF L
  <2>4. loads' \in [Tabs -> SUBSET Load] /\ LoadsOK'
    BY <2>2, <2>3, PutLoads
  <2> QED
    BY <1>4, <2>4, SameStore, SamePolls, StoreStepInv DEF LoadRetry, Inv, TypeOK
<1>5. ASSUME NEW l \in loads[t], LoadDone(t, l) \/ LoadDropped(t, l) \/ LoadFails(t, l)
      PROVE  Inv'
  <2>1. PICK L : /\ loads' = [loads EXCEPT ![t] = L]
                 /\ \/ L = loads[t] \ {l}
                    \/ L = Towards(loads[t] \ {l}, l.parent)
    BY <1>5 DEF LoadDone, LoadDropped, LoadFails
  <2>2. \A k \in L : k \in Load /\ k.got.seq <= record[k.folder].seq
    BY <2>1, LoadFacts, TowardsLoads
  <2>3. UNCHANGED <<record, filed, flows, polls, synced, used, kept, lostAnswers, closes>>
        /\ failures' \in Nat
    BY <1>5 DEF LoadDone, LoadDropped, LoadFails, Inv, TypeOK
  <2>4. loads' \in [Tabs -> SUBSET Load] /\ LoadsOK'
    BY <2>1, <2>2, <2>3, PutLoads
  <2>5. LoadedNode(l) \in Node /\ LoadedNode(l).seq <= record[l.folder].seq
    BY LoadFacts DEF LoadedNode, Node, NodeState
  <2>6. NoNode \in Node /\ NoNode.seq <= record[l.folder].seq
    BY LoadFacts, NodeFacts, RootValues
  <2>7. \/ UNCHANGED store
        \/ store' = [store EXCEPT ![t][l.folder] = LoadedNode(l)]
        \/ store' = [store EXCEPT ![t][l.folder] = NoNode]
    BY <1>5 DEF LoadDone, LoadDropped, LoadFails
  <2>8. store' \in [Tabs -> [Folders -> Node]] /\ NumbersNotAhead'
    BY <2>3, <2>5, <2>6, <2>7, LoadFacts, PutNode, SameStore
  <2>9. synced' \in [Tabs -> BOOLEAN]
    BY <2>3 DEF Inv, TypeOK
  <2> QED
    BY <2>3, <2>4, <2>8, <2>9, SamePolls, StoreStepInv
<1> QED
  BY <1>1, <1>2, <1>3, <1>4, <1>5 DEF Opening

LEMMA PollingInv ==
    ASSUME Inv, NEW t \in Tabs, Polling(t)
    PROVE  Inv'
<1>1. /\ UNCHANGED <<record, filed, flows, loads, used, kept, lostAnswers, closes>>
      /\ failures' \in Nat /\ synced' \in [Tabs -> BOOLEAN]
  <2>1. synced \in [Tabs -> BOOLEAN] /\ failures \in Nat
    BY DEF Inv, TypeOK
  <2>2. UNCHANGED <<record, filed, flows, loads, used, kept, lostAnswers, closes>>
    BY DEF Polling, PollStart, PollUpToDate, PollNews, PollApply, PollFails
  <2>3. /\ failures' \in {failures, failures + 1}
        /\ UNCHANGED synced \/ synced' = [synced EXCEPT ![t] = TRUE]
    BY DEF Polling, PollStart, PollUpToDate, PollNews, PollApply, PollFails
  <2>4. failures' \in Nat
    BY <2>1, <2>3
  <2>5. synced' \in [Tabs -> BOOLEAN]
    BY <2>1, <2>3, Zenon
  <2> QED
    BY <2>2, <2>4, <2>5
<1>2. /\ record[Root] \in Record /\ record[Root].seq \in Nat
      /\ polls[t] \in Poll /\ polls[t].got \in Record /\ polls[t].got.seq \in Nat
      /\ polls[t].got.children \in Listing /\ polls[t].got.seq <= record[Root].seq
  BY RootValues DEF Inv, TypeOK, PollsOK, Poll, Record
<1>3. PICK P \in Poll : polls' = [polls EXCEPT ![t] = P] /\ P.got.seq <= record[Root].seq
  <2>1. CASE PollStart(t)
    <3> DEFINE P == [stage |-> "resolved", got |-> record[Root]]
    <3>1. P \in Poll /\ P.got.seq <= record[Root].seq
      BY <1>2 DEF Poll
    <3> QED
      BY <2>1, <3>1 DEF PollStart
  <2>2. CASE PollUpToDate(t) \/ PollApply(t) \/ PollFails(t)
    <3>1. NoPoll \in Poll /\ NoPoll.got.seq <= record[Root].seq
      BY <1>2, RootValues
    <3> QED
      BY <2>2, <3>1 DEF PollUpToDate, PollApply, PollFails
  <2>3. CASE PollNews(t)
    <3> DEFINE P == [polls[t] EXCEPT !.stage = "fetching"]
    <3>1. P \in Poll /\ P.got = polls[t].got
      BY <1>2 DEF Poll
    <3>2. polls' = [polls EXCEPT ![t] = P]
      BY <2>3 DEF PollNews
    <3> HIDE DEF P
    <3> QED
      BY <1>2, <3>1, <3>2
  <2> QED
    BY <2>1, <2>2, <2>3 DEF Polling
<1>4. polls' \in [Tabs -> Poll] /\ PollsOK'
  <2>1. polls \in [Tabs -> Poll]
    BY DEF Inv, TypeOK
  <2>2. polls' \in [Tabs -> Poll]
        /\ \A u \in Tabs : polls'[u] = polls[u] \/ polls'[u] = P
    BY <1>3, <2>1
  <2> QED
    BY <1>1, <1>3, <2>2 DEF Inv, PollsOK
<1>5. store' \in [Tabs -> [Folders -> Node]] /\ NumbersNotAhead'
  <2>1. CASE PollApply(t)
    <3> DEFINE old == store[t][Root]
               got == polls[t].got
               node == [old EXCEPT !.state = "loaded", !.children = got.children,
                                   !.seq = got.seq]
               first == [old EXCEPT !.state = "loaded"]
               second == [first EXCEPT !.children = got.children]
    <3>1. old \in Node
      BY NodeFacts, RootValues
    <3>2. first \in Node
      <4> HIDE DEF old
      <4> QED
        BY <3>1 DEF Node, NodeState
    <3>3. second \in Node
      <4> HIDE DEF first, got
      <4>1. got.children \in Listing
        BY <1>2 DEF got
      <4> QED
        BY <3>2, <4>1 DEF Node
    <3>4. node = [second EXCEPT !.seq = got.seq]
      OBVIOUS
    <3>5. store' = [store EXCEPT ![t][Root] = node]
      BY <2>1 DEF PollApply
    <3> HIDE DEF node, second
    <3>6. node \in Node /\ node.seq <= record[Root].seq
      BY <1>2, <3>3, <3>4 DEF Node
    <3> QED
      BY <1>1, <3>5, <3>6, RootValues, PutNode
  <2>2. CASE ~PollApply(t)
    <3>1. UNCHANGED store
      BY <2>2 DEF Polling, PollStart, PollUpToDate, PollNews, PollFails
    <3> QED
      BY <1>1, <3>1, SameStore
  <2> QED
    BY <2>1, <2>2
<1> QED
  BY <1>1, <1>4, <1>5, SameLoads, StoreStepInv

LEMMA CloseInv ==
    ASSUME Inv, NEW t \in Tabs, Close(t)
    PROVE  Inv'
<1>1. TypeOK /\ NumbersNotAhead /\ FlowsOK /\ LoadsOK /\ PollsOK
  BY DEF Inv
<1>2. \A f \in Folders : record[f].seq \in Nat
  BY NodeFacts
<1>3. TypeOK'
  BY <1>1, RootValues DEF Close, TypeOK
<1>4. NumbersNotAhead'
  BY <1>1, <1>2, RootValues DEF Close, TypeOK, NumbersNotAhead
<1>5. FlowsOK' /\ LoadsOK'
  BY <1>1 DEF Close, TypeOK, FlowsOK, LoadsOK
<1>6. PollsOK'
  BY <1>1, <1>2, RootValues DEF Close, TypeOK, PollsOK
<1> QED
  BY <1>3, <1>4, <1>5, <1>6 DEF Inv

-----------------------------------------------------------------------------
LEMMA NextInv == Inv /\ [Next]_vars => Inv'
<1> SUFFICES ASSUME Inv, [Next]_vars PROVE Inv'
  OBVIOUS
<1>1. CASE Next
  BY <1>1, EditInv, FlowStepInv, OpeningInv, PollingInv, CloseInv DEF Next
<1>2. CASE UNCHANGED vars
  BY <1>2 DEF vars, Inv, TypeOK, NumbersNotAhead, FlowsOK, LoadsOK, PollsOK
<1> QED
  BY <1>1, <1>2

LEMMA InvHolds == Spec => []Inv
  BY InitInv, NextInv, PTL DEF Spec

(* The folder store, the operations under way, the polls and the loads keep *)
(* their shape, for any number of tabs, folders and files.                 *)
THEOREM FoldersTypeCorrect == Spec => []TypeOK
<1>1. Inv => TypeOK
  BY DEF Inv
<1> QED
  BY <1>1, InvHolds, PTL

(* No tab's store holds a number above the one that is published, whatever *)
(* operations, polls and loads run at once in however many tabs, and       *)
(* whichever of them fail or lose their answer.  So a tab that concludes   *)
(* from the numbers that there is nothing to fetch is never ahead.         *)
THEOREM NumbersNeverAhead == Spec => []NumbersNotAhead
<1>1. Inv => NumbersNotAhead
  BY DEF Inv
<1> QED
  BY <1>1, InvHolds, PTL
-----------------------------------------------------------------------------
(* One careful tab, and no answer that is lost *)

OneCarefulTab ==
    Careful /\ MaxLostAnswers = 0 /\ \A t, u \in Tabs : t = u

AllDone(w) == w.at = Len(w.plan) /\ w.sent

(* An operation may read this folder's node and publish the folder         *)
Editable(t, f) == Usable(t, f) /\ (f = Root => synced[t])

(* No folder lists itself, or an item there has not been                   *)
Listable(f, children) == IdsIn(children) \subseteq used \ {f}

(* Folders that have not been created: no record, no node                  *)
UnusedFit ==
    \A f \in Folders \ (used \cup {Root}) :
      record[f] = NoRecord /\ \A t \in Tabs : store[t][f] = NoNode

ListsFit ==
    \A f \in Folders :
      /\ Listable(f, record[f].children)
      /\ \A t \in Tabs : Listable(f, store[t][f].children)

(* A poll or a load that is under way has what is published by then: an    *)
(* operation is under way only when the tab does nothing else              *)
TurnsFit ==
    \A t \in Tabs :
      /\ \A w \in flows[t] :
           /\ flows[t] = {w} /\ polls[t].stage = "idle" /\ loads[t] = {} /\ synced[t]
      /\ polls[t].stage # "idle" => polls[t].got = record[Root]
      /\ \A l \in loads[t] :
           l.folder \in used /\ (l.fetched => l.got = record[l.folder])

(* What is not published has no children, and before the first poll the    *)
(* store has no number for the root                                        *)
NoughtsFit ==
    /\ \A f \in Folders : record[f].seq = 0 => record[f].children = {}
    /\ \A t \in Tabs : ~synced[t] => store[t][Root].seq = 0

(* A folder the tab may edit is at most one publication behind             *)
NumbersFit ==
    \A t \in Tabs, f \in Folders :
      Editable(t, f) => record[f].seq <= store[t][f].seq + 1

(* What a folder shows is published, unless an operation has just          *)
(* published the folder it takes something off, which is its last          *)
SavedFits ==
    \A t \in Tabs, f \in Folders :
      \/ store[t][f].children \subseteq record[f].children
      \/ \E w \in flows[t] : AllDone(w) /\ f = w.plan[Len(w.plan)].folder /\ f \in w.edited

(* A record that an operation publishes *)
PubFits(t, w, i) ==
    LET p == w.plan[i].folder
        children == w.plan[i].children
    IN  /\ Listable(p, children) /\ p \in used \cup {Root}
        /\ w.plan[i].seq = store[t][p].seq + 1
        /\ record[p].seq <= w.plan[i].seq
        /\ Done(w, i) => record[p].children = children
        /\ \/ Editable(t, p) /\ p \in w.edited
           \/ store[t][p] = NoNode /\ record[p].children = {} /\ children = {}
        /\ i < Len(w.plan) \/ w.op = "add" => store[t][p].children \subseteq children
        /\ \A e \in kept \cap IdsIn(store[t][p].children) :
             \E j \in 1..i : e \in IdsIn(w.plan[j].children)

PlanFits(t, w) ==
    /\ w.plan # <<>>
    /\ \A i, j \in 1..Len(w.plan) : w.plan[i].folder = w.plan[j].folder => i = j
    /\ \A i \in 1..Len(w.plan) : PubFits(t, w, i)
    /\ w.op \in {"create", "add"} => w.items \subseteq IdsIn(w.plan[1].children)

(* A node that an operation changes, and one that it gives the store *)
EditedFits(t, w, f) ==
    \E i \in 1..Len(w.plan) :
      /\ w.plan[i].folder = f /\ Editable(t, f)
      /\ w.after[f].children \subseteq w.plan[i].children
      /\ kept \cap IdsIn(w.plan[i].children) \subseteq IdsIn(w.after[f].children)
      /\ w.op \in {"create", "add"} => w.after[f].children = w.plan[i].children
      /\ w.after[f].seq = w.plan[i].seq

PlacedFits(t, w, f) ==
    /\ f \notin w.edited /\ f \in used /\ f # Root
    /\ \/ /\ w.after[f].children = store[t][f].children
          /\ w.after[f].seq = store[t][f].seq
          /\ w.after[f].state = store[t][f].state
       \/ /\ w.after[f].children = {} /\ record[f].children = {}
          /\ record[f].seq <= w.after[f].seq + 1

AfterFits(t, w) ==
    /\ \A f \in w.edited : EditedFits(t, w, f)
    /\ w.numbered \subseteq w.edited
    /\ \A f \in w.placed : PlacedFits(t, w, f)
    /\ w.op \in {"create", "add"} => w.gone = {} /\ w.plan[1].folder \in w.edited

FlowsFit == \A t \in Tabs : \A w \in flows[t] : PlanFits(t, w) /\ AfterFits(t, w)

(* Every item that is kept is in a record, and listed by the tab, too, when *)
(* the tab may edit that folder: so whoever edits it puts it back           *)
ListedAt(t, e, g) ==
    /\ e \in IdsIn(record[g].children)
    /\ \/ ~Editable(t, g)
       \/ e \in IdsIn(store[t][g].children)
       \/ \E w \in flows[t] : AllDone(w) /\ g \in w.edited
KeptFits == \A t \in Tabs : \A e \in kept : \E g \in Folders : ListedAt(t, e, g)

FiledFits ==
    /\ kept \cap Files \subseteq filed
    /\ \A t \in Tabs : \A w \in flows[t] :
         /\ w.op = "create" => w.items \cap Files = {}
         /\ w.op = "add" => (Len(w.plan) = 1 /\ (w.sent => w.items \subseteq filed))

CarefulInv ==
    /\ UnusedFit /\ ListsFit /\ TurnsFit /\ NoughtsFit /\ NumbersFit
    /\ SavedFits /\ FlowsFit /\ KeptFits /\ FiledFits

LEMMA FreshFacts ==
    /\ FreshStore[Root].state = "bare" /\ FreshStore[Root].children = {}
    /\ FreshStore[Root].seq = 0
    /\ \A f \in Folders \ {Root} : FreshStore[f] = NoNode
    /\ NoNode.state = "none" /\ NoNode.children = {} /\ NoNode.seq = 0
    /\ NoRecord.children = {} /\ NoRecord.seq = 0 /\ NoPoll.stage = "idle"
<1>1. /\ NoNode.state = "none" /\ NoNode.children = {} /\ NoNode.seq = 0
      /\ NoRecord.children = {} /\ NoRecord.seq = 0 /\ NoPoll.stage = "idle"
  BY DEF NoNode, NoRecord, NoPoll
<1>2. RootNode.state = "bare" /\ RootNode.children = {} /\ RootNode.seq = 0
  BY DEF RootNode, NoNode
<1> QED
  BY <1>1, <1>2, RootValues DEF FreshStore

LEMMA NothingListed == \A f : Listable(f, {})
  BY DEF Listable, IdsIn

(* What a fresh store has fits any records *)
LEMMA NotEditable ==
    ASSUME NEW t \in Tabs, NEW f \in Folders, store[t][f].state \in {"none", "loading"}
    PROVE  ~Editable(t, f)
  BY DEF Editable, Usable

LEMMA InitCareful == Init => CarefulInv
<1> SUFFICES ASSUME Init PROVE CarefulInv
  OBVIOUS
<1>1. /\ \A f \in Folders : record[f] = NoRecord
      /\ \A t \in Tabs : /\ store[t] = FreshStore /\ flows[t] = {} /\ polls[t] = NoPoll
                         /\ loads[t] = {} /\ synced[t] = FALSE
      /\ kept = {}
  BY DEF Init
<1>2. \A t \in Tabs, f \in Folders :
        store[t][f].children = {} /\ store[t][f].seq = 0 /\ ~Editable(t, f)
  BY <1>1, FreshFacts DEF Editable, Usable
<1>3. UnusedFit /\ ListsFit
  BY <1>1, <1>2, FreshFacts, NothingListed DEF UnusedFit, ListsFit
<1>4. TurnsFit /\ NoughtsFit
  BY <1>1, <1>2, FreshFacts, RootValues DEF TurnsFit, NoughtsFit
<1>5. NumbersFit /\ SavedFits
  BY <1>1, <1>2 DEF NumbersFit, SavedFits
<1>6. FlowsFit /\ KeptFits /\ FiledFits
  BY <1>1 DEF FlowsFit, KeptFits, FiledFits
<1> QED
  BY <1>3, <1>4, <1>5, <1>6 DEF CarefulInv

-----------------------------------------------------------------------------
(* Starting an operation *)

LEMMA EditableFits ==
    ASSUME Inv, CarefulInv, NEW t \in Tabs, NEW p \in Folders, Editable(t, p)
    PROVE  /\ p \in used \cup {Root} /\ record[p].seq <= store[t][p].seq + 1
           /\ Listable(p, store[t][p].children)
  BY FreshFacts DEF CarefulInv, UnusedFit, NumbersFit, ListsFit, Editable, Usable

(* A careful user's edit starts when the tab does nothing else *)
LEMMA StartFits ==
    ASSUME OneCarefulTab, Inv, CarefulInv, NEW t \in Tabs, ~Busy(t),
           NEW opened, NEW flow, Starts(t, opened, flow),
           flow.at = 1, flow.sent = FALSE, flow.plan # <<>>,
           used \subseteq used', kept' \subseteq kept,
           PlanFits(t, flow)', AfterFits(t, flow)',
           flow.op = "create" => flow.items \cap Files = {},
           flow.op = "add" => Len(flow.plan) = 1
    PROVE  CarefulInv'
<1>1. /\ UNCHANGED <<record, filed, store, polls, loads, synced>>
      /\ flows' = [flows EXCEPT ![t] = @ \cup {flow}]
      /\ synced[t]
  BY DEF Starts, MayEdit, OneCarefulTab
<1>2. \A u \in Tabs : u = t
  BY DEF OneCarefulTab
<1>3. flows[t] = {} /\ flows'[t] = {flow} /\ polls[t].stage = "idle" /\ loads[t] = {}
  BY <1>1 DEF Busy, Inv, TypeOK
<1>4. \A u \in Tabs, f \in Folders : Editable(u, f)' <=> Editable(u, f)
  BY <1>1 DEF Editable, Usable
<1>5. UnusedFit'
  BY <1>1 DEF CarefulInv, UnusedFit
<1>6. ListsFit'
  BY <1>1 DEF CarefulInv, ListsFit, Listable
<1>7. TurnsFit'
  BY <1>1, <1>2, <1>3 DEF CarefulInv, TurnsFit
<1>8. NoughtsFit' /\ NumbersFit'
  BY <1>1, <1>4 DEF CarefulInv, NoughtsFit, NumbersFit
<1>9. SavedFits'
  <2>1. \A f \in Folders : store[t][f].children \subseteq record[f].children
    BY <1>3 DEF CarefulInv, SavedFits
  <2> QED
    BY <1>1, <1>2, <2>1 DEF SavedFits
<1>10. FlowsFit'
  BY <1>2, <1>3 DEF FlowsFit
<1>11. KeptFits'
  <2> SUFFICES ASSUME NEW e \in kept' PROVE \E g \in Folders : ListedAt(t, e, g)'
    BY <1>2 DEF KeptFits
  <2>1. PICK g \in Folders : ListedAt(t, e, g)
    BY DEF CarefulInv, KeptFits
  <2>2. ListedAt(t, e, g)'
    BY <1>1, <1>3, <1>4, <2>1 DEF ListedAt
  <2> QED
    BY <2>2
<1>12. FiledFits'
  BY <1>1, <1>2, <1>3 DEF CarefulInv, FiledFits
<1> QED
  BY <1>5, <1>6, <1>7, <1>8, <1>9, <1>10, <1>11, <1>12 DEF CarefulInv

FlowIs(w, op, items, plan, after, edited, numbered, placed, gone) ==
    /\ w.op = op /\ w.items = items /\ w.plan = plan /\ w.at = 1 /\ w.sent = FALSE
    /\ w.after = after /\ w.edited = edited /\ w.numbered = numbered
    /\ w.placed = placed /\ w.gone = gone

LEMMA FlowOfIs ==
    ASSUME NEW op, NEW items, NEW plan, NEW after, NEW edited, NEW S, NEW N
    PROVE  LET w == FlowOf(op, items, plan, after, edited) IN
             /\ FlowIs(w, op, items, plan, after, edited, {}, {}, {})
             /\ FlowIs([w EXCEPT !.numbered = S], op, items, plan, after, edited, S, {}, {})
             /\ FlowIs([w EXCEPT !.placed = S], op, items, plan, after, edited, {}, S, {})
             /\ FlowIs([w EXCEPT !.gone = S], op, items, plan, after, edited, {}, {}, S)
             /\ FlowIs([[w EXCEPT !.placed = S] EXCEPT !.numbered = N],
                       op, items, plan, after, edited, N, S, {})
  BY DEF FlowOf, FlowIs

LEMMA EditedShows ==
    ASSUME NEW nodes \in [Folders -> Node], NEW f \in Folders, NEW children
    PROVE  /\ Edited(nodes, f, children)[f].children = children
           /\ Edited(nodes, f, children)[f].seq = nodes[f].seq + 1
           /\ \A g \in Folders \ {f} : Edited(nodes, f, children)[g] = nodes[g]
<1> DEFINE old == nodes[f]
           first == [old EXCEPT !.children = children]
           new == [old EXCEPT !.children = children, !.seq = @ + 1]
<1>1. old \in Node
  OBVIOUS
<1>2. new.children = children /\ new.seq = old.seq + 1
  <2> HIDE DEF old
  <2>1. first.children = children /\ first.seq = old.seq
    BY <1>1 DEF Node
  <2> QED
    BY <1>1 DEF Node
<1>3. Edited(nodes, f, children) = [nodes EXCEPT ![f] = new]
  BY DEF Edited
<1> HIDE DEF new
<1> QED
  BY <1>2, <1>3

LEMMA PublishingParts ==
    ASSUME NEW t, NEW f, NEW children
    PROVE  /\ Publishing(t, f, children).folder = f
           /\ Publishing(t, f, children).seq = store[t][f].seq + 1
           /\ Publishing(t, f, children).children = children
  BY DEF Publishing

LEMMA IdsOf ==
    /\ \A A, B : IdsIn(A \cup B) = IdsIn(A) \cup IdsIn(B)
    /\ \A A, B : A \subseteq B => IdsIn(A) \subseteq IdsIn(B)
    /\ \A A, S : IdsIn(Without(A, S)) = IdsIn(A) \ S /\ Without(A, S) \subseteq A
    /\ \A A, S : IdsIn(Entries(A, S)) = IdsIn(A) \cap S
    /\ \A c : IdsIn({c}) = {c.id}
  BY DEF IdsIn, Without, Entries

LEMMA ReachHas == \A S, next : S \subseteq Reach(S, next)
  BY DEF Reach

(* An operation on one folder *)
LEMMA OnePlanFits ==
    ASSUME OneCarefulTab, Inv, CarefulInv, NEW t \in Tabs, ~Busy(t), NEW p \in Folders, Usable(t, p),
           NEW flow, NEW op, NEW items, NEW children, NEW shown, NEW numbered \in SUBSET {p},
           NEW gone, NEW opened,
           FlowIs(flow, op, items, <<Publishing(t, p, children)>>,
                  Edited(store[t], p, shown), {p}, numbered, {}, gone),
           Starts(t, opened, flow), op # "create",
           used \subseteq used', kept' \subseteq kept,
           IdsIn(children) \subseteq used' \ {p}, shown \subseteq children,
           kept' \cap IdsIn(children) \subseteq IdsIn(shown),
           kept' \cap IdsIn(store[t][p].children) \subseteq IdsIn(children),
           op = "add" => /\ store[t][p].children \subseteq children /\ shown = children
                         /\ gone = {} /\ items \subseteq IdsIn(children)
    PROVE  CarefulInv'
<1> DEFINE pub == Publishing(t, p, children)
           after == Edited(store[t], p, shown)
<1>1. synced[t] /\ UNCHANGED <<record, filed, store, polls, loads, synced>>
  BY DEF Starts, MayEdit, OneCarefulTab
<1>2. Editable(t, p) /\ Editable(t, p)'
  BY <1>1 DEF Editable, Usable
<1>3. p \in used' \cup {Root} /\ record[p].seq <= store[t][p].seq + 1
  BY <1>2, EditableFits
<1>4. pub.folder = p /\ pub.seq = store[t][p].seq + 1 /\ pub.children = children
  BY PublishingParts
<1>5. after[p].children = shown /\ after[p].seq = store[t][p].seq + 1
  BY NodeFacts, EditedShows
<1>6. /\ flow.op = op /\ flow.items = items /\ flow.plan = <<pub>> /\ flow.at = 1
      /\ flow.sent = FALSE /\ flow.after = after /\ flow.edited = {p}
      /\ flow.numbered \subseteq {p} /\ flow.placed = {} /\ flow.gone = gone
  BY DEF FlowIs
<1> HIDE DEF pub, after
<1>7. flow.plan # <<>> /\ Len(flow.plan) = 1 /\ flow.plan[1] = pub /\ 1..1 = {1}
  BY <1>6
<1>8. PlanFits(t, flow)'
  <2>1. \A i \in 1..Len(flow.plan) : i = 1 /\ flow.plan[i] = pub /\ ~Done(flow, i)
    BY <1>6, <1>7 DEF Done
  <2>2. Listable(p, children)'
    BY DEF Listable
  <2>3. \A e \in kept' \cap IdsIn(store'[t][p].children) : e \in IdsIn(children)
    BY <1>1
  <2>4. \A e \in kept' \cap IdsIn(store'[t][p].children) :
          \E j \in 1..1 : e \in IdsIn(flow.plan[j].children)
    BY <1>4, <1>7, <2>3
  <2>5. op = "add" => store'[t][p].children \subseteq children
    BY <1>1
  <2>6. op \in {"create", "add"} => items \subseteq IdsIn(children)
    OBVIOUS
  <2> QED
    BY <1>1, <1>2, <1>3, <1>4, <1>6, <1>7, <2>1, <2>2, <2>4, <2>5, <2>6 DEF PlanFits, PubFits
<1>9. AfterFits(t, flow)'
  <2>1. 1 \in 1..Len(flow.plan) /\ flow.plan[1].folder = p
    BY <1>4, <1>7
  <2> QED
    BY <1>2, <1>4, <1>5, <1>6, <1>7, <2>1 DEF AfterFits, EditedFits
<1> QED
  BY <1>6, <1>7, <1>8, <1>9, StartFits

LEMMA RenamedIds ==
    ASSUME NEW here, NEW c \in here, NEW named, named.id = c.id
    PROVE  /\ IdsIn((here \ {c}) \cup {named}) = IdsIn(here)
           /\ IdsIn(Without(here, {c.id}) \cup {named}) = IdsIn(here)
           /\ Without(here, {c.id}) \cup {named} \subseteq (here \ {c}) \cup {named}
<1>1. \A S, e : e \in IdsIn(S) <=> \E d \in S : d.id = e
  BY DEF IdsIn
<1>2. \A e : e \in IdsIn((here \ {c}) \cup {named}) <=> e \in IdsIn(here)
  BY <1>1
<1>3. \A e : e \in IdsIn(Without(here, {c.id}) \cup {named}) <=> e \in IdsIn(here)
  BY <1>1 DEF Without
<1>4. Without(here, {c.id}) \subseteq here \ {c}
  BY DEF Without
<1> QED
  BY <1>2, <1>3, <1>4

LEMMA RenameFits ==
    ASSUME OneCarefulTab, Inv, CarefulInv, NEW t \in Tabs, ~Busy(t), NEW p \in Folders,
           NEW name \in Names, NEW c \in store[t][p].children, Rename(t, c, p, name)
    PROVE  CarefulInv'
<1> DEFINE here == store[t][p].children
           named == [id |-> c.id, name |-> name]
           children == (here \ {c}) \cup {named}
           shown == Without(here, {c.id}) \cup {named}
           flow == FlowOf("rename", {c.id}, <<Publishing(t, p, children)>>,
                          Edited(store[t], p, shown), {p})
<1>1. Usable(t, p) /\ Starts(t, {p}, flow) /\ UNCHANGED <<used, kept>>
  BY DEF Rename, Renamed
<1>2. IdsIn(here) \subseteq used \ {p}
  BY DEF CarefulInv, ListsFit, Listable
<1>3. named.id = c.id /\ c \in here
  OBVIOUS
<1> HIDE DEF here, named
<1>4. /\ IdsIn(children) = IdsIn(here) /\ IdsIn(shown) = IdsIn(here)
      /\ shown \subseteq children
  BY <1>3, RenamedIds
<1>5. FlowIs(flow, "rename", {c.id}, <<Publishing(t, p, children)>>,
             Edited(store[t], p, shown), {p}, {}, {}, {})
  BY FlowOfIs
<1>6. {} \in SUBSET {p} /\ "rename" \notin {"create", "add"}
  OBVIOUS
<1> HIDE DEF children, shown, flow
<1>7. /\ IdsIn(children) \subseteq used' \ {p} /\ kept' \cap IdsIn(children) \subseteq IdsIn(shown)
      /\ kept' \cap IdsIn(store[t][p].children) \subseteq IdsIn(children)
  BY <1>1, <1>2, <1>4 DEF here
<1> QED
  BY <1>1, <1>4, <1>5, <1>6, <1>7, OnePlanFits

LEMMA DeleteFits ==
    ASSUME OneCarefulTab, Inv, CarefulInv, NEW t \in Tabs, ~Busy(t), NEW p \in Folders,
           NEW c \in store[t][p].children, Delete(t, c, p)
    PROVE  CarefulInv'
<1> DEFINE here == store[t][p].children
           children == here \ {c}
           shown == Without(here, {c.id})
           gone == {c.id} \cap Folders
           flow == [FlowOf("delete", {c.id}, <<Publishing(t, p, children)>>,
                           Edited(store[t], p, shown), {p}) EXCEPT !.gone = gone]
<1>1. Usable(t, p) /\ Starts(t, {p}, flow) /\ UNCHANGED used
      /\ kept' \subseteq kept /\ c.id \notin kept'
  BY ReachHas DEF Delete, Removed, Forgets
<1>2. IdsIn(here) \subseteq used \ {p}
  BY DEF CarefulInv, ListsFit, Listable
<1>3. /\ IdsIn(children) \subseteq IdsIn(here) /\ shown \subseteq children
      /\ IdsIn(here) \ {c.id} \subseteq IdsIn(shown)
      /\ IdsIn(here) \ {c.id} \subseteq IdsIn(children)
  BY DEF IdsIn, Without
<1>4. FlowIs(flow, "delete", {c.id}, <<Publishing(t, p, children)>>,
             Edited(store[t], p, shown), {p}, {}, {}, gone)
  BY FlowOfIs
<1>5. {} \in SUBSET {p} /\ "delete" \notin {"create", "add"}
  OBVIOUS
<1> HIDE DEF here, children, shown, flow, gone
<1>6. /\ IdsIn(children) \subseteq used' \ {p} /\ kept' \cap IdsIn(children) \subseteq IdsIn(shown)
      /\ kept' \cap IdsIn(store[t][p].children) \subseteq IdsIn(children)
  BY <1>1, <1>2, <1>3 DEF here
<1> QED
  BY <1>1, <1>3, <1>4, <1>5, <1>6, OnePlanFits

LEMMA DeleteItemsFits ==
    ASSUME OneCarefulTab, Inv, CarefulInv, NEW t \in Tabs, ~Busy(t), NEW p \in Folders,
           NEW items \in SUBSET IdsIn(store[t][p].children), DeleteItems(t, items, p)
    PROVE  CarefulInv'
<1> DEFINE here == store[t][p].children
           left == Without(here, items)
           gone == Reach(items, ShownIn(t)) \cap Folders
           flow == [FlowOf("deleteItems", items, <<Publishing(t, p, left)>>,
                           Edited(store[t], p, left), {p}) EXCEPT !.gone = gone]
<1>1. Usable(t, p) /\ Starts(t, {p}, flow) /\ UNCHANGED used
      /\ kept' \subseteq kept /\ items \cap kept' = {}
  BY ReachHas DEF DeleteItems, Forgets
<1>2. IdsIn(here) \subseteq used \ {p}
  BY DEF CarefulInv, ListsFit, Listable
<1>3. IdsIn(left) = IdsIn(here) \ items
  BY IdsOf
<1>4. FlowIs(flow, "deleteItems", items, <<Publishing(t, p, left)>>,
             Edited(store[t], p, left), {p}, {}, {}, gone)
  BY FlowOfIs
<1>5. {} \in SUBSET {p} /\ "deleteItems" \notin {"create", "add"}
  OBVIOUS
<1> HIDE DEF here, left, flow, gone
<1>6. /\ IdsIn(left) \subseteq used' \ {p} /\ kept' \cap IdsIn(left) \subseteq IdsIn(left)
      /\ kept' \cap IdsIn(store[t][p].children) \subseteq IdsIn(left)
  BY <1>1, <1>2, <1>3 DEF here
<1> QED
  BY <1>1, <1>4, <1>5, <1>6, OnePlanFits

LEMMA AddFilesFits ==
    ASSUME OneCarefulTab, Inv, CarefulInv, NEW t \in Tabs, ~Busy(t), NEW p \in Folders,
           NEW files \in SUBSET [id : Files \ used, name : Names], AddFiles(t, files, p)
    PROVE  CarefulInv'
<1> DEFINE here == store[t][p].children
           children == here \cup files
           items == IdsIn(files)
           flow == [FlowOf("add", items, <<Publishing(t, p, children)>>,
                           Edited(store[t], p, children), {p}) EXCEPT !.numbered = {p}]
<1>1. Usable(t, p) /\ Starts(t, {p}, flow) /\ used' = used \cup items /\ kept' = kept
      /\ items \subseteq Files
  BY DEF AddFiles
<1>2. IdsIn(here) \subseteq used \ {p} /\ p \notin Files
  BY FolderAssumption DEF CarefulInv, ListsFit, Listable
<1>3. IdsIn(children) = IdsIn(here) \cup items
  BY IdsOf
<1>4. FlowIs(flow, "add", items, <<Publishing(t, p, children)>>,
             Edited(store[t], p, children), {p}, {p}, {}, {})
  BY FlowOfIs
<1>5. {p} \in SUBSET {p} /\ here \subseteq children
  OBVIOUS
<1> HIDE DEF here, children, flow, items
<1>6. /\ used \subseteq used' /\ kept' \subseteq kept
      /\ IdsIn(children) \subseteq used' \ {p} /\ items \subseteq IdsIn(children)
      /\ kept' \cap IdsIn(store[t][p].children) \subseteq IdsIn(children)
  BY <1>1, <1>2, <1>3 DEF here
<1>7. /\ store[t][p].children \subseteq children
      /\ kept' \cap IdsIn(children) \subseteq IdsIn(children)
  BY <1>5 DEF here
<1> QED
  BY <1>1, <1>4, <1>5, <1>6, <1>7, OnePlanFits

(* What a move does to the nodes it read *)
MovedTo(t, from, to, items, left, joined, after) ==
    /\ after[from].children = left /\ after[from].seq = store[t][from].seq + 1
    /\ after[to].children = joined /\ after[to].seq = store[t][to].seq + 1
    /\ \A f \in items \cap Folders :
         /\ after[f].children = store[t][f].children
         /\ after[f].seq = store[t][f].seq /\ after[f].state = store[t][f].state

LEMMA MovedNodes ==
    ASSUME Inv, NEW t \in Tabs, NEW from \in Folders, NEW to \in Folders, from # to,
           NEW items, from \notin items, to \notin items, NEW left, NEW joined, NEW after,
           after = Moved(t, Edited(Edited(store[t], from, left), to, joined), items, to)
    PROVE  MovedTo(t, from, to, items, left, joined, after)
<1> DEFINE taken == Edited(store[t], from, left)
           given == Edited(taken, to, joined)
<1>0. after = Moved(t, given, items, to)
  OBVIOUS
<1>1. /\ taken[from].children = left /\ taken[from].seq = store[t][from].seq + 1
      /\ taken[to] = store[t][to]
  BY NodeFacts, EditedShows
<1>2. given = [taken EXCEPT ![to].children = joined, ![to].seq = @ + 1]
  BY DEF Edited
<1>3. /\ DOMAIN taken = Folders
      /\ taken[to] \in Node
  BY <1>1, NodeFacts DEF Edited
<1>4. /\ given[from] = taken[from]
      /\ given[to].children = joined /\ given[to].seq = store[t][to].seq + 1
  <2> DEFINE old == taken[to]
             first == [old EXCEPT !.children = joined]
             new == [old EXCEPT !.children = joined, !.seq = @ + 1]
  <2>1. first.children = joined /\ first.seq = old.seq
    <3> HIDE DEF taken
    <3> QED
      BY <1>3 DEF Node
  <2>2. new.children = joined /\ new.seq = old.seq + 1
    <3> HIDE DEF taken
    <3> QED
      BY <1>3, <2>1 DEF Node
  <2>3. given = [taken EXCEPT ![to] = new]
    <3> HIDE DEF taken, given
    <3> QED
      BY <1>2
  <2> HIDE DEF given, taken, new
  <2> QED
    BY <1>1, <1>3, <2>2, <2>3
<1>5. after[from] = given[from] /\ after[to] = given[to]
  <2> HIDE DEF given
  <2> QED
    BY <1>0 DEF Moved
<1>6. ASSUME NEW f \in items \cap Folders
      PROVE  /\ after[f].children = store[t][f].children
             /\ after[f].seq = store[t][f].seq /\ after[f].state = store[t][f].state
  <2>1. after[f] = [store[t][f] EXCEPT !.parent = to]
    <3> HIDE DEF given
    <3> QED
      BY <1>0 DEF Moved
  <2>2. store[t][f] \in Node
    BY NodeFacts
  <2> QED
    BY <2>1, <2>2 DEF Node
<1> HIDE DEF given, taken
<1> QED
  BY <1>1, <1>4, <1>5, <1>6 DEF MovedTo

LEMMA MoveFits ==
    ASSUME OneCarefulTab, Inv, CarefulInv, NEW t \in Tabs, ~Busy(t),
           NEW from \in Folders, NEW to \in Folders,
           NEW items \in SUBSET IdsIn(store[t][from].children),
           \/ \E item \in items : items = {item} /\ Move(t, item, from, to)
           \/ MoveItems(t, items, from, to)
    PROVE  CarefulInv'
<1> DEFINE entries == Entries(store[t][from].children, items)
           left    == Without(store[t][from].children, items)
           joined  == store[t][to].children \cup entries
           first   == Publishing(t, to, joined)
           second  == Publishing(t, from, left)
           after   == Moved(t, Edited(Edited(store[t], from, left), to, joined), items, to)
           placed  == {f \in items \cap Folders : Present(t, f)}
<1>1. PICK op, numbered, flow :
        /\ op \in {"move", "moveItems"} /\ numbered \subseteq {from, to}
        /\ CanMove(t, items, from, to)
        /\ Starts(t, {from, to}, flow) /\ UNCHANGED <<used, kept>>
        /\ FlowIs(flow, op, items, <<first, second>>, after, {from, to}, numbered, placed, {})
  <2>1. \A op : LET w == MoveFlow(t, op, items, from, to) IN
          /\ FlowIs(w, op, items, <<first, second>>, after, {from, to}, {}, placed, {})
          /\ FlowIs([w EXCEPT !.numbered = {from, to}],
                    op, items, <<first, second>>, after, {from, to}, {from, to}, placed, {})
    BY FlowOfIs DEF MoveFlow, MovePlan
  <2> HIDE DEF first, second, after, placed
  <2>2. CASE \E item \in items : items = {item} /\ Move(t, item, from, to)
    BY <2>1, <2>2 DEF Move
  <2>3. CASE MoveItems(t, items, from, to)
    BY <2>1, <2>3 DEF MoveItems
  <2> QED
    BY <2>2, <2>3
<1>2. /\ from # to /\ Usable(t, from) /\ Usable(t, to)
      /\ \A item \in items : Movable(t, item, to)
  BY <1>1 DEF CanMove
<1>3. synced[t] /\ UNCHANGED <<record, filed, store, polls, loads, synced, used, kept>>
  BY <1>1 DEF Starts, MayEdit, OneCarefulTab
<1>4. /\ Editable(t, from) /\ Editable(t, to) /\ Editable(t, from)' /\ Editable(t, to)'
  BY <1>2, <1>3 DEF Editable, Usable
<1>5. /\ from \in used \cup {Root} /\ record[from].seq <= store[t][from].seq + 1
      /\ to \in used \cup {Root} /\ record[to].seq <= store[t][to].seq + 1
      /\ IdsIn(store[t][from].children) \subseteq used \ {from}
      /\ IdsIn(store[t][to].children) \subseteq used \ {to}
  BY <1>4, EditableFits DEF Listable
<1>6. from \notin items /\ to \notin items
  BY <1>2, <1>5, ReachHas DEF Movable, IsWithin
<1>7. /\ first.folder = to /\ first.seq = store[t][to].seq + 1 /\ first.children = joined
      /\ second.folder = from /\ second.seq = store[t][from].seq + 1 /\ second.children = left
  BY PublishingParts
<1>8. /\ after[from].children = left /\ after[from].seq = store[t][from].seq + 1
      /\ after[to].children = joined /\ after[to].seq = store[t][to].seq + 1
      /\ \A f \in items \cap Folders :
           /\ after[f].children = store[t][f].children
           /\ after[f].seq = store[t][f].seq /\ after[f].state = store[t][f].state
  <2>1. after = Moved(t, Edited(Edited(store[t], from, left), to, joined), items, to)
    OBVIOUS
  <2> HIDE DEF left, joined, after
  <2>2. MovedTo(t, from, to, items, left, joined, after)
    BY <1>2, <1>6, <2>1, MovedNodes
  <2> QED
    BY <2>2 DEF MovedTo
<1>9. /\ IdsIn(entries) = items /\ IdsIn(left) = IdsIn(store[t][from].children) \ items
      /\ IdsIn(joined) = IdsIn(store[t][to].children) \cup items
  <2>1. IdsIn(entries) = IdsIn(store[t][from].children) \cap items
    BY IdsOf
  <2>2. IdsIn(left) = IdsIn(store[t][from].children) \ items
    BY IdsOf
  <2>3. IdsIn(joined) = IdsIn(store[t][to].children) \cup IdsIn(entries)
    BY IdsOf
  <2> HIDE DEF entries, left, joined
  <2> QED
    BY <2>1, <2>2, <2>3
<1>10. store[t][to].children \subseteq joined
  OBVIOUS
<1>11. placed \subseteq items \cap Folders
  OBVIOUS
<1>12. items \subseteq used /\ Root \notin items
  BY <1>5, FolderAssumption DEF Inv, TypeOK, Ids
<1> HIDE DEF entries, left, joined, first, second, after, placed
<1>13. /\ flow.op \notin {"create", "add"} /\ flow.plan = <<first, second>> /\ flow.at = 1
       /\ flow.sent = FALSE /\ flow.after = after /\ flow.edited = {from, to}
       /\ flow.numbered \subseteq {from, to} /\ flow.placed = placed
  BY <1>1 DEF FlowIs
<1>14. /\ flow.plan # <<>> /\ Len(flow.plan) = 2 /\ flow.plan[1] = first
       /\ flow.plan[2] = second /\ 1..2 = {1, 2}
  BY <1>13
<1>15. PlanFits(t, flow)'
  <2>1. ~Done(flow, 1) /\ ~Done(flow, 2)
    BY <1>13 DEF Done
  <2>2. IdsIn(joined) \subseteq used' \ {to} /\ IdsIn(left) \subseteq used' \ {from}
    BY <1>3, <1>5, <1>6, <1>9, <1>12
  <2>3. ASSUME NEW e \in kept' \cap IdsIn(store'[t][to].children)
        PROVE  \E j \in 1..1 : e \in IdsIn(flow.plan[j].children)
    <3>1. e \in IdsIn(joined)
      BY <1>3, <1>9
    <3> QED
      BY <1>7, <1>14, <3>1
  <2>4. ASSUME NEW e \in kept' \cap IdsIn(store'[t][from].children)
        PROVE  \E j \in 1..2 : e \in IdsIn(flow.plan[j].children)
    <3>1. e \in IdsIn(left) \/ e \in IdsIn(joined)
      BY <1>3, <1>9
    <3> QED
      BY <1>7, <1>14, <3>1
  <2>5. \A i, j \in 1..Len(flow.plan) :
          flow.plan[i].folder = flow.plan[j].folder => i = j
    BY <1>2, <1>7, <1>14
  <2>6. PubFits(t, flow, 1)'
    <3>1. store'[t][to].children \subseteq joined /\ to \in flow.edited
      BY <1>3, <1>10, <1>13
    <3> QED
      BY <1>3, <1>4, <1>5, <1>7, <1>14, <2>1, <2>2, <2>3, <3>1 DEF PubFits, Listable
  <2>7. PubFits(t, flow, 2)'
    <3>1. from \in flow.edited /\ ~(2 < Len(flow.plan)) /\ flow.op # "add"
      BY <1>13, <1>14
    <3> QED
      BY <1>3, <1>4, <1>5, <1>7, <1>14, <2>1, <2>2, <2>4, <3>1 DEF PubFits, Listable
  <2> QED
    BY <1>13, <1>14, <2>5, <2>6, <2>7 DEF PlanFits
<1>16. AfterFits(t, flow)'
  <2>1. 1 \in 1..Len(flow.plan) /\ 2 \in 1..Len(flow.plan)
    BY <1>14
  <2>2. EditedFits(t, flow, to)'
    BY <1>4, <1>7, <1>8, <1>13, <1>14, <2>1 DEF EditedFits
  <2>3. EditedFits(t, flow, from)'
    BY <1>4, <1>7, <1>8, <1>13, <1>14, <2>1 DEF EditedFits
  <2>4. ASSUME NEW f \in flow.placed
        PROVE  PlacedFits(t, flow, f)'
    <3>1. f \in items /\ f \in Folders
      BY <1>11, <1>13
    <3>2. f \notin {from, to} /\ f \in used' /\ f # Root
      BY <1>3, <1>6, <1>12, <3>1
    <3>3. /\ after[f].children = store'[t][f].children
          /\ after[f].seq = store'[t][f].seq /\ after[f].state = store'[t][f].state
      BY <1>3, <1>8, <3>1
    <3> QED
      BY <1>13, <3>2, <3>3 DEF PlacedFits
  <2> QED
    BY <1>13, <2>2, <2>3, <2>4 DEF AfterFits
<1> QED
  BY <1>1, <1>3, <1>13, <1>14, <1>15, <1>16, StartFits

LEMMA CreateFits ==
    ASSUME OneCarefulTab, Inv, CarefulInv, NEW t \in Tabs, ~Busy(t),
           NEW f \in Folders, NEW p \in Folders, NEW name \in Names, Create(t, f, p, name)
    PROVE  CarefulInv'
<1>0. PICK parent : parent = CreateParent(t, p)
  OBVIOUS
<1> DEFINE here == store[t][parent].children
           children == here \cup {NewEntry(f, name)}
           first == Publishing(t, parent, children)
           second == [folder |-> f, seq |-> 1, children |-> {}]
           nodes == Edited(store[t], parent, children)
           new == [NoNode EXCEPT !.state = "loaded", !.parent = parent]
           after == [nodes EXCEPT ![f] = new]
           plain == FlowOf("create", {f}, <<first, second>>, after, {parent})
<1>a. PICK flow : flow = [plain EXCEPT !.placed = {f}]
  OBVIOUS
<1>1. parent \in Folders
  BY <1>0, RootValues DEF CreateParent
<1>2. /\ f \in Folders \ ({Root} \cup used) /\ Usable(t, parent)
      /\ Starts(t, {parent}, flow) /\ used' = used \cup {f} /\ kept' = kept
  BY <1>0, <1>a DEF Create
<1>3. synced[t] /\ UNCHANGED <<record, filed, store, polls, loads, synced>>
  BY <1>2 DEF Starts, MayEdit, OneCarefulTab
<1>4. Editable(t, parent) /\ Editable(t, parent)'
  BY <1>2, <1>3 DEF Editable, Usable
<1>5. /\ parent \in used \cup {Root} /\ record[parent].seq <= store[t][parent].seq + 1
      /\ IdsIn(here) \subseteq used \ {parent} /\ parent # f
  BY <1>1, <1>2, <1>4, EditableFits DEF Listable
<1>6. record[f] = NoRecord /\ store[t][f] = NoNode
  BY <1>2 DEF CarefulInv, UnusedFit
<1>7. /\ first.folder = parent /\ first.seq = store[t][parent].seq + 1
      /\ first.children = children
      /\ second.folder = f /\ second.seq = 1 /\ second.children = {}
  BY PublishingParts
<1>8. IdsIn(children) = IdsIn(here) \cup {f} /\ here \subseteq children
  <2>1. IdsIn({NewEntry(f, name)}) = {f}
    BY DEF IdsIn, NewEntry
  <2> QED
    BY <2>1, IdsOf
<1>9. /\ after[parent].children = children
      /\ after[parent].seq = store[t][parent].seq + 1
      /\ after[f].children = {} /\ after[f].seq = 0
  <2>1. /\ nodes[parent].children = children
        /\ nodes[parent].seq = store[t][parent].seq + 1
    <3> HIDE DEF children
    <3> QED
      BY <1>1, NodeFacts, EditedShows
  <2>2. DOMAIN nodes = Folders
    BY NodeFacts DEF Edited
  <2>3. new.children = {} /\ new.seq = 0
    BY DEF NoNode
  <2> HIDE DEF nodes, new
  <2> QED
    BY <1>2, <1>5, <2>1, <2>2, <2>3
<1>10. FlowIs(flow, "create", {f}, <<first, second>>, after, {parent}, {}, {f}, {})
  BY <1>a, FlowOfIs
<1>11. f \notin Files
  BY FolderAssumption
<1> HIDE DEF here, children, first, second, after, plain
<1>12. /\ flow.op = "create" /\ flow.items = {f} /\ flow.plan = <<first, second>>
       /\ flow.at = 1 /\ flow.sent = FALSE /\ flow.after = after /\ flow.edited = {parent}
       /\ flow.numbered = {} /\ flow.placed = {f} /\ flow.gone = {}
  BY <1>10 DEF FlowIs
<1>13. /\ flow.plan # <<>> /\ Len(flow.plan) = 2 /\ flow.plan[1] = first
       /\ flow.plan[2] = second /\ 1..2 = {1, 2}
  BY <1>12
<1>14. PlanFits(t, flow)'
  <2>1. ~Done(flow, 1) /\ ~Done(flow, 2)
    BY <1>12 DEF Done
  <2>2. IdsIn(children) \subseteq used' \ {parent} /\ IdsIn({}) = {}
    BY <1>2, <1>5, <1>8 DEF IdsIn
  <2>3. ASSUME NEW e \in kept' \cap IdsIn(store'[t][parent].children)
        PROVE  \E j \in 1..1 : e \in IdsIn(flow.plan[j].children)
    <3>1. e \in IdsIn(children)
      BY <1>3, <1>8 DEF here
    <3> QED
      BY <1>7, <1>13, <3>1
  <2>4. \A i, j \in 1..Len(flow.plan) :
          flow.plan[i].folder = flow.plan[j].folder => i = j
    BY <1>5, <1>7, <1>13
  <2>5. PubFits(t, flow, 1)'
    <3>1. store'[t][parent].children \subseteq children /\ parent \in used' \cup {Root}
          /\ parent \in flow.edited
      BY <1>2, <1>3, <1>5, <1>8, <1>12 DEF here
    <3>2. store'[t][parent].seq = store[t][parent].seq
          /\ record'[parent].seq <= store[t][parent].seq + 1
      BY <1>3, <1>5
    <3> QED
      BY <1>4, <1>7, <1>13, <2>1, <2>2, <2>3, <3>1, <3>2 DEF PubFits, Listable
  <2>6. PubFits(t, flow, 2)'
    <3>1. IdsIn(store'[t][f].children) = {} /\ store'[t][f] = NoNode
          /\ store'[t][f].seq = 0 /\ store'[t][f].children = {}
      BY <1>3, <1>6, FreshFacts DEF IdsIn
    <3>2. record'[f].seq = 0 /\ record'[f].children = {} /\ f \in used' \cup {Root}
      BY <1>2, <1>3, <1>6, FreshFacts
    <3>3. /\ flow.plan[2].folder = f /\ flow.plan[2].seq = 1 /\ flow.plan[2].children = {}
          /\ ~(2 < Len(flow.plan))
      BY <1>7, <1>13
    <3>4. Listable(f, {})'
      BY NothingListed DEF Listable, IdsIn
    <3>5. kept' \cap IdsIn(store'[t][f].children) = {} /\ store'[t][f].children \subseteq {}
      BY <3>1
    <3>6. record'[f].seq <= 1 /\ 1 = store'[t][f].seq + 1
      BY <3>1, <3>2
    <3> QED
      BY <2>1, <3>1, <3>2, <3>3, <3>4, <3>5, <3>6 DEF PubFits
  <2>7. flow.items \subseteq IdsIn(flow.plan[1].children)
    BY <1>7, <1>8, <1>12, <1>13
  <2> QED
    BY <1>13, <2>4, <2>5, <2>6, <2>7 DEF PlanFits
<1>15. AfterFits(t, flow)'
  <2>1. 1 \in 1..Len(flow.plan) /\ flow.plan[1].folder = parent
    BY <1>7, <1>13
  <2>2. EditedFits(t, flow, parent)'
    BY <1>4, <1>7, <1>9, <1>12, <1>13, <2>1 DEF EditedFits
  <2>3. PlacedFits(t, flow, f)'
    <3>1. record'[f].seq <= after[f].seq + 1 /\ record'[f].children = {}
      BY <1>3, <1>6, <1>9, FreshFacts
    <3>2. f \notin {parent} /\ f \in used' /\ f # Root
      BY <1>2, <1>5
    <3> QED
      BY <1>9, <1>12, <3>1, <3>2 DEF PlacedFits
  <2> QED
    BY <1>12, <2>1, <2>2, <2>3 DEF AfterFits
<1>16. used \subseteq used' /\ kept' \subseteq kept /\ flow.items \cap Files = {}
  BY <1>2, <1>11, <1>12
<1> QED
  BY <1>2, <1>12, <1>13, <1>14, <1>15, <1>16, StartFits

LEMMA EditFits ==
    ASSUME OneCarefulTab, Inv, CarefulInv, NEW t \in Tabs, Edit(t)
    PROVE  CarefulInv'
<1>1. ~Busy(t)
  BY DEF Edit, MayStart, OneCarefulTab
<1> QED
  BY <1>1, CreateFits, RenameFits, MoveFits, DeleteFits, DeleteItemsFits, AddFilesFits
  DEF Edit

-----------------------------------------------------------------------------
(* An operation under way *)

LEMMA FlowParts ==
    ASSUME OneCarefulTab, Inv, CarefulInv, NEW t \in Tabs, NEW w \in flows[t]
    PROVE  /\ PlanFits(t, w) /\ AfterFits(t, w)
           /\ w.at \in 1..Len(w.plan) /\ Len(w.plan) \in Nat /\ w.sent \in BOOLEAN
           /\ Len(w.plan) \in 1..Len(w.plan)
           /\ \A i \in 1..Len(w.plan) : /\ w.plan[i].folder \in Folders
                                        /\ w.plan[i].seq \in Nat /\ PubFits(t, w, i)
           /\ flows[t] = {w} /\ polls[t].stage = "idle" /\ loads[t] = {} /\ synced[t]
           /\ Current(w) = w.plan[w.at] /\ \A u \in Tabs : u = t
           /\ w.edited \subseteq Folders /\ w.placed \subseteq Folders
           /\ w.after \in [Folders -> Node]
<1>1. PlanFits(t, w) /\ AfterFits(t, w)
  BY DEF CarefulInv, FlowsFit
<1>2. /\ w.at \in 1..Len(w.plan) /\ Len(w.plan) \in Nat /\ w.sent \in BOOLEAN
      /\ Len(w.plan) \in 1..Len(w.plan)
  BY CurrentPublication, LenProperties
<1>3. \A i \in 1..Len(w.plan) : w.plan[i].folder \in Folders /\ w.plan[i].seq \in Nat
  BY CurrentPublication DEF Publication
<1>4. flows[t] = {w} /\ polls[t].stage = "idle" /\ loads[t] = {} /\ synced[t]
  BY DEF CarefulInv, TurnsFit
<1>5. \A u \in Tabs : u = t
  BY DEF OneCarefulTab
<1>6. /\ w.edited \subseteq Folders /\ w.placed \subseteq Folders
      /\ w.after \in [Folders -> Node]
  BY CurrentPublication DEF Flow
<1>7. \A i \in 1..Len(w.plan) : PubFits(t, w, i)
  BY <1>1 DEF PlanFits
<1> QED
  BY <1>1, <1>2, <1>3, <1>4, <1>5, <1>6, <1>7 DEF Current

(* The record it is at is accepted *)
Replaced(pub) ==
    /\ pub.folder \in Folders
    /\ record'[pub.folder].seq = pub.seq /\ record'[pub.folder].children = pub.children
    /\ \A f \in Folders \ {pub.folder} : record'[f] = record[f]

LEMMA Replaces ==
    ASSUME OneCarefulTab, Inv, CarefulInv, NEW t \in Tabs, NEW w \in flows[t],
           record' = [record EXCEPT ![Current(w).folder] = Accepted(@, Current(w))]
    PROVE  Replaced(Current(w))
<1> DEFINE pub == Current(w)
<1>1. pub.folder \in Folders /\ pub.seq \in Nat /\ record[pub.folder].seq <= pub.seq
  BY FlowParts DEF PubFits
<1>2. record \in [Folders -> Record] /\ record[pub.folder].seq \in Nat
  BY <1>1, NodeFacts DEF Inv, TypeOK
<1>3. Accepted(record[pub.folder], pub) = [seq |-> pub.seq, children |-> pub.children]
  <2> HIDE DEF pub
  <2> QED
    BY <1>1, <1>2 DEF Accepted
<1> HIDE DEF pub
<1>4. record' = [record EXCEPT ![pub.folder] = [seq |-> pub.seq, children |-> pub.children]]
  BY <1>3 DEF pub
<1> QED
  BY <1>1, <1>2, <1>4 DEF Replaced, pub

LEMMA ReplacedFits ==
    ASSUME OneCarefulTab, Inv, CarefulInv, NEW t \in Tabs, NEW w \in flows[t],
           Replaced(Current(w)), UNCHANGED <<store, synced, used>>
    PROVE  /\ UnusedFit' /\ ListsFit' /\ NoughtsFit' /\ NumbersFit'
           /\ \A u \in Tabs, f \in Folders : Editable(u, f)' <=> Editable(u, f)
<1> DEFINE p == Current(w).folder
<1>1. /\ p \in Folders /\ p \in used \cup {Root}
      /\ Listable(p, Current(w).children) /\ Current(w).seq = store[t][p].seq + 1
      /\ \A u \in Tabs : u = t
  BY FlowParts DEF PubFits
<1>2. \A u \in Tabs, f \in Folders : Editable(u, f)' <=> Editable(u, f)
  BY DEF Editable, Usable
<1>3. \A f \in Folders : \A c : Listable(f, c)' <=> Listable(f, c)
  BY DEF Listable
<1>4. UnusedFit'
  BY <1>1 DEF CarefulInv, UnusedFit, Replaced
<1>5. ListsFit'
  <2> SUFFICES ASSUME NEW f \in Folders
               PROVE  /\ Listable(f, record'[f].children)
                      /\ \A u \in Tabs : Listable(f, store[u][f].children)
    BY <1>3 DEF ListsFit, Listable
  <2>1. Listable(f, record'[f].children)
    BY <1>1 DEF CarefulInv, ListsFit, Replaced
  <2> QED
    BY <2>1 DEF CarefulInv, ListsFit
<1>6. Current(w).seq # 0 /\ store[t][p].seq \in Nat
  BY <1>1, NodeFacts
<1>7. NoughtsFit'
  BY <1>6 DEF CarefulInv, NoughtsFit, Replaced
<1>8. NumbersFit'
  <2> SUFFICES ASSUME NEW f \in Folders, Editable(t, f)
               PROVE  record'[f].seq <= store[t][f].seq + 1
    BY <1>1, <1>2 DEF NumbersFit
  <2>1. CASE f = p
    BY <1>1, <1>6, <2>1 DEF Replaced
  <2>2. CASE f # p
    BY <2>2 DEF CarefulInv, NumbersFit, Replaced
  <2> QED
    BY <2>1, <2>2
<1> QED
  BY <1>2, <1>4, <1>5, <1>7, <1>8

LEMMA PublishFits ==
    ASSUME OneCarefulTab, Inv, CarefulInv, NEW t \in Tabs, NEW w \in flows[t], Publish(t, w)
    PROVE  CarefulInv'
<1> DEFINE pub == Current(w)
           p == pub.folder
<1>1. PICK next : next = [w EXCEPT !.sent = TRUE]
  OBVIOUS
<1>2. /\ ~w.sent /\ record' = [record EXCEPT ![p] = Accepted(@, pub)]
      /\ filed' = filed \cup Batch(w)
      /\ flows' = [flows EXCEPT ![t] = (@ \ {w}) \cup {next}]
      /\ UNCHANGED <<store, polls, loads, synced, used, kept>>
  BY <1>1 DEF Publish, Advances
<1>3. /\ next.at = w.at /\ next.plan = w.plan /\ next.op = w.op /\ next.items = w.items
      /\ next.numbered = w.numbered /\ next.placed = w.placed /\ next.after = w.after
      /\ next.edited = w.edited /\ next.gone = w.gone /\ next.sent = TRUE
  BY <1>1, CurrentPublication DEF Flow
<1>4. Replaced(pub)
  BY <1>2, Replaces
<1>5. /\ UnusedFit' /\ ListsFit' /\ NoughtsFit' /\ NumbersFit'
      /\ \A u \in Tabs, f \in Folders : Editable(u, f)' <=> Editable(u, f)
  BY <1>2, <1>4, ReplacedFits
<1>6. /\ PlanFits(t, w) /\ AfterFits(t, w) /\ w.at \in 1..Len(w.plan) /\ Len(w.plan) \in Nat
      /\ \A i \in 1..Len(w.plan) : /\ w.plan[i].folder \in Folders
                                   /\ w.plan[i].seq \in Nat /\ PubFits(t, w, i)
      /\ flows[t] = {w} /\ polls[t].stage = "idle" /\ loads[t] = {} /\ synced[t]
      /\ pub = w.plan[w.at] /\ \A u \in Tabs : u = t
      /\ w.edited \subseteq Folders /\ w.placed \subseteq Folders
      /\ w.after \in [Folders -> Node]
  BY FlowParts
<1>7. flows'[t] = {next}
  BY <1>2, <1>6 DEF Inv, TypeOK
<1>8. ~AllDone(w) /\ (AllDone(next) <=> w.at = Len(w.plan))
  BY <1>2, <1>3 DEF AllDone
<1>9. /\ record'[p].seq = pub.seq /\ record'[p].children = pub.children
      /\ \A f \in Folders \ {p} : record'[f] = record[f]
  BY <1>4 DEF Replaced
<1> HIDE DEF pub
<1>10. TurnsFit'
  BY <1>2, <1>6, <1>7 DEF CarefulInv, TurnsFit
<1>11. \/ Editable(t, p) /\ p \in w.edited
       \/ store[t][p] = NoNode /\ record[p].children = {} /\ pub.children = {}
  BY <1>6 DEF PubFits
<1>12. SavedFits'
  <2> SUFFICES ASSUME NEW f \in Folders, ~(store[t][f].children \subseteq record'[f].children)
               PROVE  /\ AllDone(next) /\ f = next.plan[Len(next.plan)].folder
                      /\ f \in next.edited
    BY <1>2, <1>6, <1>7 DEF SavedFits
  <2>1. store[t][f].children \subseteq record[f].children
    BY <1>6, <1>8 DEF CarefulInv, SavedFits
  <2>2. f = p
    BY <1>9, <2>1
  <2>3. ~(w.at < Len(w.plan))
    BY <1>6, <1>9, <2>2 DEF PubFits
  <2>4. p \in w.edited
    BY <1>9, <1>11, <2>2, FreshFacts
  <2> QED
    BY <1>3, <1>6, <1>8, <2>2, <2>3, <2>4
<1>13. PlanFits(t, next)'
  <2>1. ASSUME NEW i \in 1..Len(w.plan) PROVE PubFits(t, next, i)'
    <3> DEFINE q == w.plan[i].folder
               children == w.plan[i].children
    <3>1. PubFits(t, w, i) /\ q \in Folders
      BY <1>6
    <3>2. /\ Listable(q, children)' /\ q \in used' \cup {Root}
          /\ w.plan[i].seq = store'[t][q].seq + 1
          /\ i < Len(w.plan) \/ w.op = "add" => store'[t][q].children \subseteq children
          /\ \A e \in kept' \cap IdsIn(store'[t][q].children) :
               \E j \in 1..i : e \in IdsIn(w.plan[j].children)
      BY <1>2, <3>1 DEF PubFits, Listable
    <3>3. CASE i = w.at
      <4>1. record'[q].seq <= w.plan[i].seq /\ record'[q].children = children
        BY <1>6, <1>9, <3>3
      <4>2. \/ Editable(t, q)' /\ q \in next.edited
            \/ store'[t][q] = NoNode /\ record'[q].children = {} /\ children = {}
        BY <1>2, <1>3, <1>5, <1>6, <1>9, <1>11, <3>1, <3>3
      <4> QED
        BY <1>3, <3>2, <4>1, <4>2 DEF PubFits
    <3>4. CASE i # w.at
      <4>1. q # p
        BY <1>6, <3>4 DEF PlanFits
      <4>2. record'[q] = record[q]
        BY <1>9, <3>1, <4>1
      <4>3. Done(next, i) <=> Done(w, i)
        BY <1>3, <3>4 DEF Done
      <4>4. /\ record'[q].seq <= w.plan[i].seq
            /\ Done(next, i) => record'[q].children = children
            /\ \/ Editable(t, q)' /\ q \in next.edited
               \/ store'[t][q] = NoNode /\ record'[q].children = {} /\ children = {}
        BY <1>2, <1>3, <1>5, <3>1, <4>2, <4>3 DEF PubFits
      <4> QED
        BY <1>3, <3>2, <4>4 DEF PubFits
    <3> QED
      BY <3>3, <3>4
  <2> QED
    BY <1>3, <1>6, <2>1 DEF PlanFits
<1>14. AfterFits(t, next)'
  <2>1. ASSUME NEW f \in w.edited PROVE EditedFits(t, next, f)'
    BY <1>2, <1>3, <1>5, <1>6 DEF AfterFits, EditedFits
  <2>2. ASSUME NEW f \in w.placed PROVE PlacedFits(t, next, f)'
    <3>1. PlacedFits(t, w, f) /\ f \in Folders
      BY <1>6 DEF AfterFits
    <3>2. CASE f # p
      BY <1>2, <1>3, <1>9, <3>1, <3>2 DEF PlacedFits
    <3>3. CASE f = p
      <4>1. /\ store[t][p] = NoNode /\ record[p].children = {} /\ pub.children = {}
        BY <1>11, <3>1, <3>3 DEF PlacedFits
      <4>2. pub.seq = store[t][p].seq + 1
        BY <1>6 DEF PubFits
      <4>3. record'[p].children = {} /\ record'[p].seq = 1
        BY <1>9, <4>1, <4>2, FreshFacts
      <4>4. w.after[f].seq \in Nat
        BY <1>6, <3>1 DEF Node
      <4>5. w.after[f].children = {} \/ w.after[f].children = store[t][f].children
        BY <3>1 DEF PlacedFits
      <4>6. w.after[f].children = {} /\ record'[f].seq <= w.after[f].seq + 1
        BY <3>3, <4>1, <4>3, <4>4, <4>5, FreshFacts
      <4> QED
        BY <1>2, <1>3, <3>1, <3>3, <4>3, <4>6 DEF PlacedFits
    <3> QED
      BY <3>2, <3>3
  <2> QED
    BY <1>3, <1>6, <2>1, <2>2 DEF AfterFits
<1>15. KeptFits'
  <2> SUFFICES ASSUME NEW e \in kept PROVE \E g \in Folders : ListedAt(t, e, g)'
    BY <1>2, <1>6 DEF KeptFits
  <2>1. PICK g \in Folders : ListedAt(t, e, g)
    BY DEF CarefulInv, KeptFits
  <2>2. ~Editable(t, g) \/ e \in IdsIn(store[t][g].children)
    BY <1>6, <1>8, <2>1 DEF ListedAt
  <2>3. CASE g # p
    BY <1>2, <1>5, <1>9, <2>1, <2>2, <2>3 DEF ListedAt
  <2>4. CASE g = p
    <3>1. e \in IdsIn(record[p].children)
      BY <2>1, <2>4 DEF ListedAt
    <3>2. Editable(t, p) /\ p \in w.edited
      BY <1>11, <3>1 DEF IdsIn
    <3>3. e \in IdsIn(store[t][p].children)
      BY <2>2, <2>4, <3>2
    <3>4. CASE w.at < Len(w.plan)
      <4>1. PubFits(t, w, w.at) /\ pub = w.plan[w.at]
        BY <1>6
      <4>2. store[t][p].children \subseteq pub.children
        BY <3>4, <4>1 DEF PubFits
      <4>3. e \in IdsIn(record'[p].children)
        BY <1>9, <3>3, <4>2 DEF IdsIn
      <4> QED
        BY <1>2, <2>4, <3>3, <4>3 DEF ListedAt
    <3>5. CASE w.at = Len(w.plan)
      <4>1. PICK j \in 1..w.at : e \in IdsIn(w.plan[j].children)
        BY <1>6, <3>3 DEF PubFits
      <4>2. j \in 1..Len(w.plan) /\ PubFits(t, w, j) /\ w.plan[j].folder \in Folders
        BY <1>6, <3>5
      <4>3. record'[w.plan[j].folder].children = w.plan[j].children
        <5>1. CASE j = w.at
          BY <1>6, <1>9, <5>1
        <5>2. CASE j # w.at
          <6>1. Done(w, j) /\ w.plan[j].folder # p
            BY <1>6, <4>2, <5>2 DEF Done, PlanFits
          <6> QED
            BY <1>9, <4>2, <6>1 DEF PubFits
        <5> QED
          BY <5>1, <5>2
      <4>4. w.plan[j].folder \in w.edited
        BY <4>1, <4>2 DEF PubFits, IdsIn
      <4> QED
        BY <1>3, <1>7, <1>8, <3>5, <4>1, <4>2, <4>3, <4>4 DEF ListedAt
    <3> QED
      BY <1>6, <3>4, <3>5
  <2> QED
    BY <2>3, <2>4
<1>16. FiledFits'
  <2>1. kept \cap Files \subseteq filed
    BY DEF CarefulInv, FiledFits
  <2>2. /\ w.op = "create" => w.items \cap Files = {}
        /\ w.op = "add" => Len(w.plan) = 1
    BY DEF CarefulInv, FiledFits
  <2>3. w.op = "add" => w.items \subseteq filed'
    BY <1>2 DEF Batch
  <2> QED
    BY <1>2, <1>3, <1>6, <1>7, <2>1, <2>2, <2>3 DEF FiledFits
<1> QED
  BY <1>5, <1>6, <1>7, <1>10, <1>12, <1>13, <1>14, <1>15, <1>16 DEF CarefulInv, FlowsFit

(* The operation is over and the store is as before *)
LEMMA FailFits ==
    ASSUME OneCarefulTab, Inv, CarefulInv, NEW t \in Tabs, NEW w \in flows[t],
           PublishFails(t, w) \/ AnswerLost(t, w)
    PROVE  CarefulInv'
<1> DEFINE pub == Current(w)
           p == pub.folder
<1>1. /\ ~w.sent /\ flows' = [flows EXCEPT ![t] = @ \ {w}]
      /\ UNCHANGED <<store, polls, loads, synced, used, kept>> /\ filed \subseteq filed'
      /\ \/ UNCHANGED record
         \/ /\ record' = [record EXCEPT ![p] = Accepted(@, pub)] /\ w.op = "add"
  <2>1. ~AnswerLost(t, w)
    BY DEF AnswerLost, OneCarefulTab, Inv, TypeOK
  <2> QED
    BY <2>1 DEF PublishFails, Ended, Batch
<1>2. /\ PlanFits(t, w) /\ AfterFits(t, w) /\ w.at \in 1..Len(w.plan) /\ Len(w.plan) \in Nat
      /\ \A i \in 1..Len(w.plan) : /\ w.plan[i].folder \in Folders
                                   /\ w.plan[i].seq \in Nat /\ PubFits(t, w, i)
      /\ flows[t] = {w} /\ polls[t].stage = "idle" /\ loads[t] = {} /\ synced[t]
      /\ pub = w.plan[w.at] /\ \A u \in Tabs : u = t
  BY FlowParts
<1> HIDE DEF pub
<1>3. flows'[t] = {} /\ ~AllDone(w)
  BY <1>1, <1>2 DEF Inv, TypeOK, AllDone
<1>4. /\ UnusedFit' /\ ListsFit' /\ NoughtsFit' /\ NumbersFit'
      /\ \A u \in Tabs, f \in Folders : Editable(u, f)' <=> Editable(u, f)
  <2>1. CASE UNCHANGED record
    <3>1. UnusedFit' /\ NoughtsFit'
      BY <1>1, <2>1 DEF CarefulInv, UnusedFit, NoughtsFit
    <3>2. ListsFit'
      BY <1>1, <2>1 DEF CarefulInv, ListsFit, Listable
    <3>3. NumbersFit'
      BY <1>1, <2>1 DEF CarefulInv, NumbersFit, Editable, Usable
    <3> QED
      BY <1>1, <3>1, <3>2, <3>3 DEF Editable, Usable
  <2>2. CASE record' = [record EXCEPT ![p] = Accepted(@, pub)]
    BY <1>1, <2>2, Replaces, ReplacedFits DEF pub
  <2> QED
    BY <1>1, <2>1, <2>2
<1>5. \/ UNCHANGED record
      \/ /\ p \in Folders
         /\ record'[p].children = pub.children
         /\ \A f \in Folders \ {p} : record'[f] = record[f]
         /\ store[t][p].children \subseteq pub.children
         /\ ~Editable(t, p) => record[p].children = {}
  <2>1. CASE record' = [record EXCEPT ![p] = Accepted(@, pub)] /\ w.op = "add"
    <3>1. Replaced(pub)
      BY <2>1, Replaces DEF pub
    <3> QED
      BY <1>2, <2>1, <3>1 DEF Replaced, PubFits
  <2> QED
    BY <1>1, <2>1
<1>6. TurnsFit'
  BY <1>1, <1>2, <1>3 DEF CarefulInv, TurnsFit
<1>7. SavedFits'
  <2> SUFFICES ASSUME NEW f \in Folders PROVE store[t][f].children \subseteq record'[f].children
    BY <1>1, <1>2 DEF SavedFits
  <2>1. store[t][f].children \subseteq record[f].children
    BY <1>2, <1>3 DEF CarefulInv, SavedFits
  <2> QED
    BY <1>5, <2>1
<1>8. FlowsFit' /\ FiledFits'
  BY <1>1, <1>2, <1>3 DEF CarefulInv, FlowsFit, FiledFits
<1>9. KeptFits'
  <2> SUFFICES ASSUME NEW e \in kept PROVE \E g \in Folders : ListedAt(t, e, g)'
    BY <1>1, <1>2 DEF KeptFits
  <2>1. PICK g \in Folders : ListedAt(t, e, g)
    BY DEF CarefulInv, KeptFits
  <2>2. ~Editable(t, g) \/ e \in IdsIn(store[t][g].children)
    BY <1>2, <1>3, <2>1 DEF ListedAt
  <2>3. e \in IdsIn(record'[g].children)
    BY <1>5, <2>1, <2>2 DEF ListedAt, IdsIn
  <2> QED
    BY <1>1, <1>4, <2>2, <2>3 DEF ListedAt
<1> QED
  BY <1>4, <1>6, <1>7, <1>8, <1>9 DEF CarefulInv

LEMMA AdvanceFits ==
    ASSUME OneCarefulTab, Inv, CarefulInv, NEW t \in Tabs, NEW w \in flows[t],
           Answered(t, w), MoreToPublish(w)
    PROVE  CarefulInv'
<1>1. PICK next : next = [w EXCEPT !.at = @ + 1, !.sent = FALSE]
  OBVIOUS
<1>2. /\ w.sent /\ flows' = [flows EXCEPT ![t] = (@ \ {w}) \cup {next}]
      /\ UNCHANGED <<record, filed, store, polls, loads, synced, used, kept>>
  BY <1>1 DEF Answered, Advances
<1>3. /\ next.at = w.at + 1 /\ next.plan = w.plan /\ next.op = w.op
      /\ next.items = w.items /\ next.numbered = w.numbered /\ next.placed = w.placed
      /\ next.after = w.after /\ next.edited = w.edited /\ next.gone = w.gone
      /\ next.sent = FALSE
  <2> DEFINE mid == [w EXCEPT !.at = w.at + 1]
  <2>1. /\ mid.at = w.at + 1 /\ mid.plan = w.plan /\ mid.op = w.op
        /\ mid.items = w.items /\ mid.numbered = w.numbered /\ mid.placed = w.placed
        /\ mid.after = w.after /\ mid.edited = w.edited /\ mid.gone = w.gone
        /\ DOMAIN mid = DOMAIN w
    BY CurrentPublication DEF Flow
  <2>2. next = [mid EXCEPT !.sent = FALSE]
    BY <1>1
  <2>3. "sent" \in DOMAIN w
    BY CurrentPublication DEF Flow
  <2> HIDE DEF mid
  <2> QED
    BY <2>1, <2>2, <2>3
<1>4. /\ PlanFits(t, w) /\ AfterFits(t, w) /\ w.at \in 1..Len(w.plan) /\ Len(w.plan) \in Nat
      /\ \A i \in 1..Len(w.plan) : /\ w.plan[i].folder \in Folders
                                   /\ w.plan[i].seq \in Nat /\ PubFits(t, w, i)
      /\ flows[t] = {w} /\ polls[t].stage = "idle" /\ loads[t] = {} /\ synced[t]
      /\ \A u \in Tabs : u = t
  BY FlowParts
<1>5. flows'[t] = {next} /\ ~AllDone(w) /\ ~AllDone(next)
  BY <1>2, <1>3, <1>4 DEF Inv, TypeOK, AllDone, MoreToPublish
<1>6. \A i \in 1..Len(w.plan) : Done(next, i) <=> Done(w, i)
  BY <1>2, <1>3, <1>4 DEF Done
<1>7. \A u \in Tabs, f \in Folders : Editable(u, f)' <=> Editable(u, f)
  BY <1>2 DEF Editable, Usable
<1>8. UnusedFit' /\ NoughtsFit' /\ NumbersFit'
  BY <1>2, <1>7 DEF CarefulInv, UnusedFit, NoughtsFit, NumbersFit
<1>9. ListsFit'
  BY <1>2 DEF CarefulInv, ListsFit, Listable
<1>10. TurnsFit'
  BY <1>2, <1>4, <1>5 DEF CarefulInv, TurnsFit
<1>11. SavedFits'
  <2>1. \A f \in Folders : store[t][f].children \subseteq record[f].children
    BY <1>4, <1>5 DEF CarefulInv, SavedFits
  <2> QED
    BY <1>2, <1>4, <2>1 DEF SavedFits
<1>12. PlanFits(t, next)'
  <2>1. ASSUME NEW i \in 1..Len(w.plan) PROVE PubFits(t, next, i)'
    BY <1>2, <1>3, <1>4, <1>6, <1>7 DEF PubFits, Listable
  <2> QED
    BY <1>3, <1>4, <2>1 DEF PlanFits
<1>13. AfterFits(t, next)'
  <2>1. ASSUME NEW f \in w.edited PROVE EditedFits(t, next, f)'
    <3>1. EditedFits(t, w, f)
      BY <1>4 DEF AfterFits
    <3>2. PICK i \in 1..Len(w.plan) :
           /\ w.plan[i].folder = f /\ Editable(t, f)
           /\ w.after[f].children \subseteq w.plan[i].children
           /\ kept \cap IdsIn(w.plan[i].children) \subseteq IdsIn(w.after[f].children)
           /\ w.op \in {"create", "add"} => w.after[f].children = w.plan[i].children
           /\ w.after[f].seq = w.plan[i].seq
      BY <3>1 DEF EditedFits
    <3>3. Editable(t, f)'
      BY <1>4, <1>7, <3>2
    <3> QED
      BY <1>2, <1>3, <3>2, <3>3 DEF EditedFits
  <2>2. ASSUME NEW f \in w.placed PROVE PlacedFits(t, next, f)'
    BY <1>2, <1>3, <1>4 DEF AfterFits, PlacedFits
  <2> QED
    BY <1>3, <1>4, <2>1, <2>2 DEF AfterFits
<1>14. KeptFits'
  <2> SUFFICES ASSUME NEW e \in kept PROVE \E g \in Folders : ListedAt(t, e, g)'
    BY <1>2, <1>4 DEF KeptFits
  <2>1. PICK g \in Folders : ListedAt(t, e, g)
    BY DEF CarefulInv, KeptFits
  <2> QED
    BY <1>2, <1>4, <1>5, <1>7, <2>1 DEF ListedAt
<1>15. FlowsFit'
  BY <1>4, <1>5, <1>12, <1>13 DEF FlowsFit
<1>16. FiledFits'
  <2>1. kept \cap Files \subseteq filed
    BY DEF CarefulInv, FiledFits
  <2>2. /\ w.op = "create" => w.items \cap Files = {}
        /\ w.op = "add" => Len(w.plan) = 1
    BY DEF CarefulInv, FiledFits
  <2> QED
    BY <1>2, <1>3, <1>4, <1>5, <2>1, <2>2 DEF FiledFits
<1> QED
  BY <1>8, <1>9, <1>10, <1>11, <1>14, <1>15, <1>16 DEF CarefulInv

(* A node that is given children, a state and a number *)
Given(node, c, s, n) == [node EXCEPT !.children = c, !.state = s, !.seq = n]

LEMMA FieldsOfNode ==
    ASSUME NEW node \in Node, NEW c, NEW s, NEW n
    PROVE  /\ Given(node, c, s, n).children = c
           /\ Given(node, c, s, n).seq = n
           /\ c = node.children /\ s = node.state /\ n = node.seq => Given(node, c, s, n) = node
<1> DEFINE first == [node EXCEPT !.children = c]
           second == [first EXCEPT !.state = s]
           third == [second EXCEPT !.seq = n]
<1>1. /\ first.children = c /\ DOMAIN first = DOMAIN node
      /\ c = node.children => first = node
  BY DEF Node
<1>2. /\ second.children = c /\ second.state = s /\ DOMAIN second = DOMAIN node
      /\ c = node.children /\ s = node.state => second = node
  <2> HIDE DEF first
  <2> QED
    BY <1>1 DEF Node
<1>3. /\ third.children = c /\ third.state = s /\ third.seq = n
      /\ c = node.children /\ s = node.state /\ n = node.seq => third = node
  <2> HIDE DEF second
  <2> QED
    BY <1>2 DEF Node
<1>4. Given(node, c, s, n) = third
  BY DEF Given
<1> HIDE DEF third
<1> QED
  BY <1>3, <1>4

LEMMA LastAnswerFits ==
    ASSUME OneCarefulTab, Inv, CarefulInv, NEW t \in Tabs, NEW w \in flows[t],
           Answered(t, w), ~MoreToPublish(w)
    PROVE  CarefulInv'
<1>1. /\ w.sent /\ flows' = [flows EXCEPT ![t] = @ \ {w}]
      /\ store' = [store EXCEPT ![t] = AfterFlow(store[t], w)]
      /\ kept' = IF w.op \in {"create", "add"} THEN kept \cup w.items ELSE kept
      /\ UNCHANGED <<record, filed, polls, loads, synced, used>>
  BY DEF Answered, Ended
<1>2. /\ PlanFits(t, w) /\ AfterFits(t, w) /\ w.at \in 1..Len(w.plan) /\ Len(w.plan) \in Nat
      /\ \A i \in 1..Len(w.plan) : /\ w.plan[i].folder \in Folders
                                   /\ w.plan[i].seq \in Nat /\ PubFits(t, w, i)
      /\ flows[t] = {w} /\ polls[t].stage = "idle" /\ loads[t] = {} /\ synced[t]
      /\ \A u \in Tabs : u = t
      /\ w.edited \subseteq Folders /\ w.placed \subseteq Folders
      /\ w.after \in [Folders -> Node]
  BY FlowParts
<1>3. flows'[t] = {} /\ w.at = Len(w.plan)
  BY <1>1, <1>2 DEF Inv, TypeOK, MoreToPublish
<1>4. \A i \in 1..Len(w.plan) : record[w.plan[i].folder].children = w.plan[i].children
  BY <1>1, <1>2, <1>3 DEF PubFits, Done
<1>5. \A f \in Folders : store'[t][f] = AfterFlow(store[t], w)[f]
  BY <1>1 DEF Inv, TypeOK
(* Four kinds of nodes *)
<1>6. \A f \in Folders \cap w.gone : store'[t][f] = NoNode
  BY <1>5 DEF AfterFlow
<1>7. \A f \in w.placed \ w.gone : store'[t][f] = w.after[f]
  BY <1>2, <1>5 DEF AfterFlow
<1>8. ASSUME NEW f \in w.edited \ w.gone
      PROVE  /\ f \in Folders /\ Editable(t, f)
             /\ store'[t][f].children = w.after[f].children
             /\ store'[t][f].children \subseteq record[f].children
             /\ kept \cap IdsIn(record[f].children) \subseteq IdsIn(store'[t][f].children)
             /\ w.op \in {"create", "add"} => store'[t][f].children = record[f].children
             /\ record[f].seq <= store'[t][f].seq + 1
  <2>1. PICK i \in 1..Len(w.plan) :
           /\ w.plan[i].folder = f /\ Editable(t, f)
           /\ w.after[f].children \subseteq w.plan[i].children
           /\ kept \cap IdsIn(w.plan[i].children) \subseteq IdsIn(w.after[f].children)
           /\ w.op \in {"create", "add"} => w.after[f].children = w.plan[i].children
           /\ w.after[f].seq = w.plan[i].seq
    BY <1>2 DEF AfterFits, EditedFits
  <2>2. f \in Folders /\ f \notin w.placed /\ record[f].children = w.plan[i].children
        /\ record[f].seq <= w.plan[i].seq /\ w.plan[i].seq \in Nat
    BY <1>2, <1>4, <2>1 DEF AfterFits, PlacedFits, PubFits
  <2>3. store[t][f] \in Node /\ w.after[f] \in Node /\ store[t][f].seq \in Nat
        /\ record[f].seq \in Nat
    BY <1>2, <2>2, NodeFacts
  <2>4. store[t][f].state \in {"loaded", "bare"}
    BY <2>1 DEF Editable, Usable
  <2>5. PICK n : n = IF f \in w.numbered THEN w.after[f].seq ELSE store[t][f].seq
    OBVIOUS
  <2>6. /\ store'[t][f].children = w.after[f].children
        /\ store'[t][f].seq = w.after[f].seq \/ store'[t][f].seq = store[t][f].seq
    <3>1. store'[t][f] = Updated(store[t][f], w.after[f], TRUE, f \in w.numbered)
      BY <1>5, <2>2 DEF AfterFlow
    <3>2. store'[t][f] = Given(store[t][f], w.after[f].children, "loaded", n)
      BY <2>4, <2>5, <3>1 DEF Updated, Given
    <3> QED
      BY <2>3, <2>5, <3>2, FieldsOfNode
  <2>7. record[f].seq <= store[t][f].seq + 1
    BY <2>1, <2>2 DEF CarefulInv, NumbersFit
  <2>8. record[f].seq <= store'[t][f].seq + 1
    BY <2>1, <2>2, <2>3, <2>6, <2>7
  <2> QED
    BY <2>1, <2>2, <2>6, <2>8
<1>9. ASSUME NEW f \in Folders, f \notin w.gone, f \notin w.placed, f \notin w.edited
      PROVE  store'[t][f] = store[t][f]
  <2>1. f \notin w.numbered
    BY <1>2, <1>9 DEF AfterFits
  <2>2. store'[t][f] = Updated(store[t][f], w.after[f], f \in w.edited, f \in w.numbered)
    BY <1>5, <1>9 DEF AfterFlow
  <2> PICK node : node = store[t][f]
    OBVIOUS
  <2>3. CASE node.state = "none"
    BY <2>2, <2>3 DEF Updated
  <2>4. CASE node.state # "none"
    <3>1. store'[t][f] = Given(node, node.children, node.state, node.seq)
      BY <1>9, <2>1, <2>2, <2>4 DEF Updated, Given
    <3> QED
      BY <3>1, NodeFacts, FieldsOfNode
  <2> QED
    BY <2>3, <2>4
<1>10. ASSUME NEW f \in w.placed \ w.gone
       PROVE  /\ f \in Folders /\ f \notin w.edited /\ f \in used /\ f # Root
              /\ \/ /\ store'[t][f].children = store[t][f].children
                    /\ store'[t][f].seq = store[t][f].seq
                    /\ store'[t][f].state = store[t][f].state
                 \/ /\ store'[t][f].children = {} /\ record[f].children = {}
                    /\ record[f].seq <= store'[t][f].seq + 1
  BY <1>2, <1>7 DEF AfterFits, PlacedFits
<1>11. \A f \in Folders : /\ \/ store[t][f].children \subseteq record[f].children
                             \/ f \in w.edited
                          /\ Editable(t, f) => record[f].seq <= store[t][f].seq + 1
                          /\ Listable(f, record[f].children)
  BY <1>2 DEF CarefulInv, SavedFits, NumbersFit, ListsFit
(* Each kind in turn *)
<1>12. \A f \in Folders : store'[t][f].children \subseteq record[f].children
  <2> TAKE f \in Folders
  <2>1. CASE f \in w.gone
    BY <1>6, <2>1, FreshFacts
  <2>2. CASE f \in w.edited \ w.gone
    BY <1>8, <2>2
  <2>3. CASE f \in w.placed \ w.gone
    BY <1>10, <1>11, <2>3
  <2>4. CASE f \notin w.gone /\ f \notin w.placed /\ f \notin w.edited
    BY <1>9, <1>11, <2>4
  <2> QED
    BY <2>1, <2>2, <2>3, <2>4
<1>13. UnusedFit'
  <2> SUFFICES ASSUME NEW f \in Folders, f \notin used, f # Root
               PROVE  record[f] = NoRecord /\ store'[t][f] = NoNode
    BY <1>1, <1>2 DEF UnusedFit
  <2>1. record[f] = NoRecord /\ store[t][f] = NoNode
    BY DEF CarefulInv, UnusedFit
  <2>2. ~Editable(t, f)
    BY <2>1, FreshFacts DEF Editable, Usable
  <2>3. f \notin w.placed \ w.gone /\ f \notin w.edited \ w.gone
    BY <1>8, <1>10, <2>2
  <2> QED
    BY <1>6, <1>9, <2>1, <2>3
<1>14. ListsFit'
  <2> SUFFICES ASSUME NEW f \in Folders
               PROVE  Listable(f, record[f].children) /\ Listable(f, store'[t][f].children)
    BY <1>1, <1>2 DEF ListsFit, Listable
  <2> QED
    BY <1>11, <1>12 DEF Listable, IdsIn
<1>15. TurnsFit'
  BY <1>1, <1>2, <1>3 DEF CarefulInv, TurnsFit
<1>16. NoughtsFit'
  BY <1>1, <1>2 DEF CarefulInv, NoughtsFit
<1>17. \A f \in Folders \ w.gone : f \notin w.edited =>
          \/ /\ Editable(t, f)' => Editable(t, f)
             /\ Editable(t, f) => Editable(t, f)'
             /\ store'[t][f].children = store[t][f].children
             /\ store'[t][f].seq = store[t][f].seq
          \/ record[f].children = {} /\ record[f].seq <= store'[t][f].seq + 1
  <2> TAKE f \in Folders \ w.gone
  <2>1. CASE f \in w.placed
    BY <1>1, <1>10, <2>1 DEF Editable, Usable
  <2>2. CASE f \notin w.placed /\ f \notin w.edited
    BY <1>1, <1>9, <2>2 DEF Editable, Usable
  <2> QED
    BY <2>1, <2>2
<1>18. \A f \in Folders \cap w.gone : ~Editable(t, f)'
  BY <1>6, FreshFacts DEF Editable, Usable
<1>19. NumbersFit'
  <2> SUFFICES ASSUME NEW f \in Folders, Editable(t, f)'
               PROVE  record[f].seq <= store'[t][f].seq + 1
    BY <1>1, <1>2 DEF NumbersFit
  <2>1. f \notin w.gone
    BY <1>18
  <2>2. CASE f \in w.edited
    BY <1>8, <2>1, <2>2
  <2>3. CASE f \notin w.edited
    BY <1>11, <1>17, <2>1, <2>3
  <2> QED
    BY <2>2, <2>3
<1>20. SavedFits'
  BY <1>1, <1>2, <1>12 DEF SavedFits
<1>21. FlowsFit'
  BY <1>2, <1>3 DEF FlowsFit
<1>22. KeptFits'
  <2> SUFFICES ASSUME NEW e \in kept'
               PROVE  \E g \in Folders : /\ e \in IdsIn(record[g].children)
                                         /\ ~Editable(t, g)' \/ e \in IdsIn(store'[t][g].children)
    BY <1>1, <1>2 DEF KeptFits, ListedAt
  <2>1. CASE e \in kept
    <3>1. PICK g \in Folders : ListedAt(t, e, g)
      BY <2>1 DEF CarefulInv, KeptFits
    <3>2. /\ e \in IdsIn(record[g].children)
          /\ \/ ~Editable(t, g) \/ e \in IdsIn(store[t][g].children) \/ g \in w.edited
      BY <1>2, <3>1 DEF ListedAt
    <3>3. CASE g \in w.gone
      BY <1>18, <3>2, <3>3
    <3>4. CASE g \in w.edited \ w.gone
      BY <1>8, <2>1, <3>2, <3>4
    <3>5. CASE g \notin w.edited /\ g \notin w.gone
      <4>1. record[g].children # {}
        BY <3>2 DEF IdsIn
      <4> QED
        BY <1>17, <3>2, <3>5, <4>1
    <3> QED
      BY <3>3, <3>4, <3>5
  <2>2. CASE e \notin kept
    <3> DEFINE g == w.plan[1].folder
    <3>1. w.op \in {"create", "add"} /\ e \in w.items
      BY <1>1, <2>2
    <3>2. g \in w.edited \ w.gone /\ e \in IdsIn(w.plan[1].children)
      BY <1>2, <3>1 DEF PlanFits, AfterFits
    <3>3. 1 \in 1..Len(w.plan)
      BY <1>2
    <3>4. e \in IdsIn(record[g].children)
      BY <1>4, <3>2, <3>3
    <3>5. store'[t][g].children = record[g].children /\ g \in Folders
      BY <1>8, <3>1, <3>2
    <3> HIDE DEF g
    <3> QED
      BY <3>4, <3>5
  <2> QED
    BY <2>1, <2>2
<1>23. FiledFits'
  <2>1. kept \cap Files \subseteq filed
    BY DEF CarefulInv, FiledFits
  <2>2. /\ w.op = "create" => w.items \cap Files = {}
        /\ w.op = "add" => w.items \subseteq filed
    BY <1>1 DEF CarefulInv, FiledFits
  <2>3. kept' \cap Files \subseteq filed'
    BY <1>1, <2>1, <2>2
  <2> QED
    BY <1>2, <1>3, <2>3 DEF FiledFits
<1> QED
  BY <1>13, <1>14, <1>15, <1>16, <1>19, <1>20, <1>21, <1>22, <1>23 DEF CarefulInv

LEMMA FlowStepFits ==
    ASSUME OneCarefulTab, Inv, CarefulInv, NEW t \in Tabs, FlowStep(t)
    PROVE  CarefulInv'
  BY PublishFits, FailFits, AdvanceFits, LastAnswerFits DEF FlowStep

-----------------------------------------------------------------------------
(* Opening folders, polling the root, closing the tab *)

(* A step of a tab with no operation under way, which puts what is published *)
(* in place of one node, or takes it away                                   *)
LEMMA NodeFits ==
    ASSUME OneCarefulTab, Inv, CarefulInv, NEW t \in Tabs, flows[t] = {},
           UNCHANGED <<record, filed, flows, used, kept>>,
           NEW f \in used \cup {Root}, f \in Folders, NEW node,
           store' = [store EXCEPT ![t][f] = node],
           \A g \in Folders \ {f} : Editable(t, g)' => Editable(t, g),
           ~synced'[t] => ~synced[t] /\ store'[t][Root].seq = 0,
           \/ node.state \in {"none", "loading"} /\ node.children = {}
           \/ node.children = record[f].children /\ node.seq = record[f].seq,
           TurnsFit'
    PROVE  CarefulInv'
<1>1. /\ \A u \in Tabs : u = t
      /\ store'[t][f] = node /\ \A g \in Folders \ {f} : store'[t][g] = store[t][g]
  BY NodeFacts DEF OneCarefulTab, Inv, TypeOK
<1>2. /\ Editable(t, f)' => /\ node.children = record[f].children
                            /\ node.seq = record[f].seq
      /\ node.children \subseteq record[f].children
      /\ record[f].seq \in Nat
  BY <1>1, NodeFacts DEF Editable, Usable
<1>3. UnusedFit'
  BY <1>1 DEF CarefulInv, UnusedFit
<1>4. ListsFit'
  <2> SUFFICES ASSUME NEW g \in Folders
               PROVE  Listable(g, record[g].children) /\ Listable(g, store'[t][g].children)
    BY <1>1 DEF ListsFit, Listable
  <2>1. Listable(g, record[g].children) /\ Listable(g, store[t][g].children)
    BY DEF CarefulInv, ListsFit
  <2> QED
    BY <1>1, <1>2, <2>1 DEF Listable, IdsIn
<1>5. NoughtsFit'
  BY <1>1 DEF CarefulInv, NoughtsFit
<1>6. NumbersFit'
  <2> SUFFICES ASSUME NEW g \in Folders, Editable(t, g)'
               PROVE  record[g].seq <= store'[t][g].seq + 1
    BY <1>1 DEF NumbersFit
  <2>1. CASE g = f
    BY <1>1, <1>2, <2>1
  <2>2. CASE g # f
    BY <1>1, <2>2 DEF CarefulInv, NumbersFit
  <2> QED
    BY <2>1, <2>2
<1>7. SavedFits'
  <2>1. \A g \in Folders : store[t][g].children \subseteq record[g].children
    BY DEF CarefulInv, SavedFits
  <2> QED
    BY <1>1, <1>2, <2>1 DEF SavedFits
<1>8. FlowsFit' /\ FiledFits'
  BY <1>1 DEF CarefulInv, FlowsFit, FiledFits
<1>9. KeptFits'
  <2> SUFFICES ASSUME NEW e \in kept PROVE \E g \in Folders : ListedAt(t, e, g)'
    BY <1>1 DEF KeptFits
  <2>1. PICK g \in Folders : ListedAt(t, e, g)
    BY DEF CarefulInv, KeptFits
  <2>2. /\ e \in IdsIn(record[g].children)
        /\ ~Editable(t, g) \/ e \in IdsIn(store[t][g].children)
    BY <2>1 DEF ListedAt
  <2>3. ~Editable(t, g)' \/ e \in IdsIn(store'[t][g].children)
    <3>1. CASE g = f
      BY <1>1, <1>2, <2>2, <3>1
    <3>2. CASE g # f
      BY <1>1, <2>2, <3>2
    <3> QED
      BY <3>1, <3>2
  <2> QED
    BY <2>2, <2>3 DEF ListedAt
<1> QED
  BY <1>3, <1>4, <1>5, <1>6, <1>7, <1>8, <1>9 DEF CarefulInv

LEMMA SameFits ==
    ASSUME CarefulInv, UNCHANGED <<record, filed, store, flows, synced, used, kept>>, TurnsFit'
    PROVE  CarefulInv'
<1>1. UnusedFit' /\ NoughtsFit'
  BY DEF CarefulInv, UnusedFit, NoughtsFit
<1>2. ListsFit'
  BY DEF CarefulInv, ListsFit, Listable
<1>3. \A u \in Tabs, f \in Folders : Editable(u, f)' <=> Editable(u, f)
  BY DEF Editable, Usable
<1>4. NumbersFit' /\ SavedFits'
  BY <1>3 DEF CarefulInv, NumbersFit, SavedFits
<1>5. KeptFits'
  BY <1>3 DEF CarefulInv, KeptFits, ListedAt
<1>6. FiledFits'
  BY DEF CarefulInv, FiledFits
<1>7. FlowsFit'
  BY DEF CarefulInv, FlowsFit, PlanFits, AfterFits, PubFits, EditedFits, PlacedFits,
         Listable, Editable, Usable
<1> QED
  BY <1>1, <1>2, <1>4, <1>5, <1>6, <1>7 DEF CarefulInv

(* What the loads of a tab have is published *)
LoadsFit(L) == \A l \in L : l.folder \in used /\ (l.fetched => l.got = record[l.folder])

LEMMA TabParts ==
    ASSUME Inv, CarefulInv, NEW t \in Tabs
    PROVE  /\ loads[t] \subseteq Load /\ polls[t] \in Poll /\ LoadsFit(loads[t])
           /\ polls[t].stage # "idle" => polls[t].got = record[Root]
           /\ loads[t] # {} \/ polls[t].stage # "idle" => flows[t] = {}
           /\ Root \notin used /\ Root \in Folders /\ used \subseteq Ids
  BY FolderAssumption DEF Inv, TypeOK, CarefulInv, TurnsFit, LoadsFit, Ids

LEMMA TowardsFits ==
    ASSUME NEW L \in SUBSET Load, LoadsFit(L), NEW f
    PROVE  LoadsFit(Towards(L, f))
<1> SUFFICES ASSUME NEW l \in L
             PROVE  LoadsFit({[l EXCEPT !.wanted = (l.folder = f)]})
  BY DEF LoadsFit, Towards
<1> PICK far : far = (l.folder = f)
  OBVIOUS
<1> QED
  BY DEF LoadsFit, Load

(* The loads of a tab with no operation under way change *)
LEMMA LoadsTurn ==
    ASSUME OneCarefulTab, Inv, CarefulInv, NEW t \in Tabs, flows[t] = {},
           UNCHANGED <<record, flows, polls, synced, used>>,
           NEW L, LoadsFit(L), loads' = [loads EXCEPT ![t] = L]
    PROVE  TurnsFit'
  BY TabParts DEF OneCarefulTab, Inv, TypeOK, TurnsFit, LoadsFit

LEMMA LoadPartsFit ==
    ASSUME NEW L \in SUBSET Load, LoadsFit(L), NEW l \in L
    PROVE  /\ LoadsFit(L \ {l}) /\ L \ {l} \in SUBSET Load
           /\ LoadsFit((L \ {l}) \cup {[l EXCEPT !.fetched = FALSE]})
           /\ l.folder \in used
           /\ LoadsFit((L \ {l}) \cup {[l EXCEPT !.fetched = TRUE, !.got = record[l.folder]]})
<1>1. l \in Load /\ l.folder \in used
  BY DEF LoadsFit
<1>2. [l EXCEPT !.fetched = FALSE].folder = l.folder /\ [l EXCEPT !.fetched = FALSE].fetched = FALSE
  BY <1>1 DEF Load
<1>3. PICK got : got = record[l.folder]
  OBVIOUS
<1>4. PICK m : m = [l EXCEPT !.fetched = TRUE, !.got = got]
  OBVIOUS
<1>5. m.folder = l.folder /\ m.got = got
  BY <1>1, <1>4 DEF Load
<1> QED
  BY <1>1, <1>2, <1>3, <1>4, <1>5 DEF LoadsFit

LEMMA NavigateLoadFits ==
    ASSUME OneCarefulTab, Inv, CarefulInv, NEW t \in Tabs, NEW f \in Folders,
           NEW p \in Folders, NavigateLoad(t, f, p)
    PROVE  CarefulInv'
<1> DEFINE node == [NoNode EXCEPT !.state = "loading", !.parent = p]
           new == [folder |-> f, parent |-> p, fetched |-> FALSE, got |-> NoRecord,
                   wanted |-> TRUE]
<1>1. /\ ~Busy(t) /\ f # Root
      /\ store' = [store EXCEPT ![t][f] = node]
      /\ loads' = [loads EXCEPT ![t] = Towards(loads[t], f) \cup {new}]
      /\ UNCHANGED <<record, filed, flows, polls, synced, used, kept>>
  BY DEF NavigateLoad, MayStart, OneCarefulTab
<1>2. f \in used
  BY DEF NavigateLoad, CarefulInv, ListsFit, Listable
<1>3. node.state = "loading" /\ node.children = {}
  BY DEF NoNode
<1>4. LoadsFit(Towards(loads[t], f) \cup {new})
  <2>1. LoadsFit(Towards(loads[t], f))
    BY TabParts, TowardsFits
  <2>2. LoadsFit({new})
    BY <1>2 DEF LoadsFit
  <2> QED
    BY <2>1, <2>2 DEF LoadsFit
<1> HIDE DEF node, new
<1>5. TurnsFit'
  BY <1>1, <1>4, LoadsTurn DEF Busy
<1>6. /\ \A g \in Folders \ {f} : store'[t][g] = store[t][g]
      /\ Root \in Folders
  BY <1>1, TabParts, NodeFacts DEF Inv, TypeOK
<1>7. \A g \in Folders \ {f} : Editable(t, g)' => Editable(t, g)
  BY <1>1, <1>6 DEF Editable, Usable
<1>8. ~synced'[t] => ~synced[t] /\ store'[t][Root].seq = 0
  BY <1>1, <1>6 DEF CarefulInv, NoughtsFit
<1> QED
  BY <1>1, <1>2, <1>3, <1>5, <1>7, <1>8, NodeFits DEF Busy

(* A load ends with a node in the store *)
LEMMA LoadEndsFit ==
    ASSUME OneCarefulTab, Inv, CarefulInv, NEW t \in Tabs, NEW l \in loads[t], NEW node,
           \/ node.state = "none" /\ node.children = {}
           \/ node.children = record[l.folder].children /\ node.seq = record[l.folder].seq,
           store' = [store EXCEPT ![t][l.folder] = node], NEW L, LoadsFit(L),
           loads' = [loads EXCEPT ![t] = L],
           UNCHANGED <<record, filed, flows, polls, synced, used, kept>>
    PROVE  CarefulInv'
<1> DEFINE f == l.folder
<1>1. flows[t] = {} /\ f \in used /\ f # Root /\ f \in Folders
  BY TabParts DEF LoadsFit, Load
<1>2. TurnsFit'
  BY <1>1, LoadsTurn
<1>3. /\ \A g \in Folders \ {f} : store'[t][g] = store[t][g]
      /\ Root \in Folders
  BY <1>1, TabParts, NodeFacts DEF Inv, TypeOK
<1>4. store' = [store EXCEPT ![t][f] = node]
  OBVIOUS
<1>5. \/ node.state \in {"none", "loading"} /\ node.children = {}
      \/ node.children = record[f].children /\ node.seq = record[f].seq
  OBVIOUS
<1> HIDE DEF f
<1>6. \A g \in Folders \ {f} : Editable(t, g)' => Editable(t, g)
  BY <1>3 DEF Editable, Usable
<1>7. ~synced'[t] => ~synced[t] /\ store'[t][Root].seq = 0
  BY <1>1, <1>3 DEF CarefulInv, NoughtsFit
<1> QED
  BY <1>1, <1>2, <1>4, <1>5, <1>6, <1>7, NodeFits

LEMMA OpeningFits ==
    ASSUME OneCarefulTab, Inv, CarefulInv, NEW t \in Tabs, Opening(t)
    PROVE  CarefulInv'
<1>1. LoadsFit(loads[t]) /\ loads[t] \in SUBSET Load
  BY TabParts
<1>2. ASSUME NEW f \in Folders, Navigate(t, f) PROVE CarefulInv'
  <2>1. LoadsFit(Towards(loads[t], f)) /\ flows[t] = {}
    BY <1>1, <1>2, TowardsFits, TabParts DEF Navigate
  <2>2. TurnsFit'
    BY <1>2, <2>1, LoadsTurn DEF Navigate
  <2> QED
    BY <1>2, <2>2, SameFits DEF Navigate
<1>3. ASSUME NEW l \in loads[t] PROVE flows[t] = {}
  BY TabParts
<1>4. ASSUME NEW l \in loads[t], NEW L, LoadsFit(L), loads' = [loads EXCEPT ![t] = L],
             UNCHANGED <<record, filed, store, flows, polls, synced, used, kept>>
      PROVE  CarefulInv'
  BY <1>3, <1>4, LoadsTurn, SameFits
<1>5. ASSUME NEW l \in loads[t], LoadResolve(t, l) PROVE CarefulInv'
  <2> PICK L : L = (loads[t] \ {l}) \cup {[l EXCEPT !.fetched = TRUE, !.got = record[l.folder]]}
    OBVIOUS
  <2>1. LoadsFit(L)
    BY <1>1, LoadPartsFit
  <2> QED
    BY <1>4, <1>5, <2>1 DEF LoadResolve
<1>6. ASSUME NEW l \in loads[t], LoadRetry(t, l) PROVE CarefulInv'
  <2> PICK L : L = (loads[t] \ {l}) \cup {[l EXCEPT !.fetched = FALSE]}
    OBVIOUS
  <2>1. LoadsFit(L)
    BY <1>1, LoadPartsFit
  <2> QED
    BY <1>4, <1>6, <2>1 DEF LoadRetry
<1>7. ASSUME NEW l \in loads[t], LoadDropped(t, l) PROVE CarefulInv'
  BY <1>1, <1>4, <1>7, LoadPartsFit DEF LoadDropped
<1>8. ASSUME NEW l \in loads[t], LoadDone(t, l) PROVE CarefulInv'
  <2>1. l.fetched /\ l.got = record[l.folder]
    BY <1>1, <1>8 DEF LoadDone, LoadsFit
  <2>2. LoadedNode(l).children = record[l.folder].children
        /\ LoadedNode(l).seq = record[l.folder].seq
    BY <2>1 DEF LoadedNode
  <2>3. LoadsFit(loads[t] \ {l})
    BY <1>1, LoadPartsFit
  <2> QED
    BY <1>8, <2>2, <2>3, LoadEndsFit DEF LoadDone
<1>9. ASSUME NEW l \in loads[t], LoadFails(t, l) PROVE CarefulInv'
  <2>1. LoadsFit(Towards(loads[t] \ {l}, l.parent))
    BY <1>1, LoadPartsFit, TowardsFits
  <2> PICK node, L : node = NoNode /\ L = Towards(loads[t] \ {l}, l.parent)
    OBVIOUS
  <2>2. node.state = "none" /\ node.children = {} /\ LoadsFit(L)
    BY <2>1, FreshFacts
  <2>3. /\ store' = [store EXCEPT ![t][l.folder] = node] /\ loads' = [loads EXCEPT ![t] = L]
        /\ UNCHANGED <<record, filed, flows, polls, synced, used, kept>>
    BY <1>9 DEF LoadFails
  <2> QED
    BY <2>2, <2>3, LoadEndsFit
<1> QED
  BY <1>2, <1>5, <1>6, <1>7, <1>8, <1>9, NavigateLoadFits DEF Opening

(* The poll of a tab with no operation under way changes *)
LEMMA PollTurns ==
    ASSUME OneCarefulTab, Inv, CarefulInv, NEW t \in Tabs, flows[t] = {},
           UNCHANGED <<record, flows, loads, used>>,
           NEW poll, poll.stage # "idle" => poll.got = record[Root],
           polls' = [polls EXCEPT ![t] = poll]
    PROVE  TurnsFit'
  BY TabParts DEF OneCarefulTab, Inv, TypeOK, CarefulInv, TurnsFit

(* The first poll finds that the root has never been published *)
LEMMA FirstPollFits ==
    ASSUME OneCarefulTab, Inv, CarefulInv, NEW t \in Tabs, PollUpToDate(t), ~synced[t]
    PROVE  CarefulInv'
<1>1. /\ flows[t] = {} /\ polls' = [polls EXCEPT ![t] = NoPoll]
      /\ UNCHANGED <<record, filed, store, flows, loads, used, kept>>
      /\ synced' = [synced EXCEPT ![t] = TRUE]
  BY TabParts DEF PollUpToDate
<1>2. TurnsFit'
  BY <1>1, PollTurns, FreshFacts
<1>3. record[Root].seq = 0 /\ record[Root].children = {} /\ store[t][Root].seq = 0
  <2>1. store[t][Root].seq = 0 /\ record[Root].seq <= store[t][Root].seq
    BY TabParts DEF PollUpToDate, NoNews, CarefulInv, NoughtsFit
  <2>2. record[Root].seq \in Nat /\ Root \in Folders
    BY NodeFacts, TabParts
  <2> QED
    BY <2>1, <2>2 DEF CarefulInv, NoughtsFit
<1>4. \A u \in Tabs : u = t
  BY DEF OneCarefulTab
<1>5. \A g \in Folders \ {Root} : Editable(t, g)' <=> Editable(t, g)
  BY <1>1 DEF Editable, Usable
<1>6. UnusedFit'
  BY <1>1 DEF CarefulInv, UnusedFit
<1>7. ListsFit'
  BY <1>1 DEF CarefulInv, ListsFit, Listable
<1>8. NoughtsFit'
  BY <1>1, <1>4 DEF Inv, TypeOK, CarefulInv, NoughtsFit
<1>9. NumbersFit'
  BY <1>1, <1>3, <1>4, <1>5 DEF CarefulInv, NumbersFit
<1>10. SavedFits' /\ FlowsFit' /\ FiledFits'
  BY <1>1, <1>4 DEF CarefulInv, SavedFits, FlowsFit, FiledFits
<1>11. KeptFits'
  <2> SUFFICES ASSUME NEW e \in kept PROVE \E g \in Folders : ListedAt(t, e, g)'
    BY <1>1, <1>4 DEF KeptFits
  <2>1. PICK g \in Folders : ListedAt(t, e, g)
    BY DEF CarefulInv, KeptFits
  <2>2. g # Root
    BY <1>3, <2>1 DEF ListedAt, IdsIn
  <2> QED
    BY <1>1, <1>5, <2>1, <2>2 DEF ListedAt
<1> QED
  BY <1>2, <1>6, <1>7, <1>8, <1>9, <1>10, <1>11 DEF CarefulInv

LEMMA PollApplyFits ==
    ASSUME OneCarefulTab, Inv, CarefulInv, NEW t \in Tabs, PollApply(t)
    PROVE  CarefulInv'
<1>1. PICK node : node = Given(store[t][Root], record[Root].children, "loaded", record[Root].seq)
  OBVIOUS
<1>2. /\ flows[t] = {} /\ polls' = [polls EXCEPT ![t] = NoPoll]
      /\ polls[t].got = record[Root]
      /\ UNCHANGED <<record, filed, flows, loads, used, kept>>
      /\ synced' = [synced EXCEPT ![t] = TRUE]
  BY TabParts DEF PollApply
<1>3. store' = [store EXCEPT ![t][Root] = node]
  BY <1>1, <1>2 DEF PollApply, Given
<1>4. node.children = record[Root].children /\ node.seq = record[Root].seq
  BY <1>1, NodeFacts, TabParts, FieldsOfNode
<1>5. TurnsFit'
  BY <1>2, PollTurns, FreshFacts
<1>6. /\ \A g \in Folders \ {Root} : store'[t][g] = store[t][g]
      /\ synced'[t]
  BY <1>2, <1>3, TabParts, NodeFacts DEF Inv, TypeOK
<1>7. \A g \in Folders \ {Root} : Editable(t, g)' => Editable(t, g)
  BY <1>6 DEF Editable, Usable
<1>8. Root \in used \cup {Root} /\ Root \in Folders
  BY TabParts
<1> QED
  BY <1>2, <1>3, <1>4, <1>5, <1>6, <1>7, <1>8, NodeFits

LEMMA PollingFits ==
    ASSUME OneCarefulTab, Inv, CarefulInv, NEW t \in Tabs, Polling(t)
    PROVE  CarefulInv'
<1>1. ASSUME NEW poll, poll.stage # "idle" => poll.got = record[Root], flows[t] = {},
             polls' = [polls EXCEPT ![t] = poll],
             UNCHANGED <<record, filed, store, flows, loads, synced, used, kept>>
      PROVE  CarefulInv'
  BY <1>1, PollTurns, SameFits
<1>2. CASE PollStart(t)
  BY <1>1, <1>2 DEF PollStart, MayStart, OneCarefulTab, Busy
<1>3. CASE PollUpToDate(t) /\ synced[t]
  <2>1. synced' = synced
    BY <1>3 DEF PollUpToDate, Inv, TypeOK
  <2>2. flows[t] = {}
    BY <1>3, TabParts DEF PollUpToDate
  <2> QED
    BY <1>1, <1>3, <2>1, <2>2, FreshFacts DEF PollUpToDate
<1>4. CASE PollNews(t)
  <2>1. PICK poll : poll = [polls[t] EXCEPT !.stage = "fetching"]
    OBVIOUS
  <2>2. polls' = [polls EXCEPT ![t] = poll] /\ flows[t] = {}
    BY <1>4, <2>1, TabParts DEF PollNews
  <2>3. poll.got = record[Root]
    BY <1>4, <2>1, TabParts DEF PollNews, Poll
  <2> QED
    BY <1>1, <1>4, <2>2, <2>3 DEF PollNews
<1>5. CASE PollFails(t)
  BY <1>1, <1>5, TabParts, FreshFacts DEF PollFails
<1> QED
  BY <1>2, <1>3, <1>4, <1>5, FirstPollFits, PollApplyFits DEF Polling

(* Of a tab that is opened again nothing is editable *)
LEMMA CloseFits ==
    ASSUME OneCarefulTab, Inv, CarefulInv, NEW t \in Tabs, Close(t)
    PROVE  CarefulInv'
<1>1. /\ store'[t] = FreshStore /\ flows'[t] = {} /\ polls'[t] = NoPoll
      /\ loads'[t] = {} /\ ~synced'[t]
      /\ UNCHANGED <<record, filed, used, kept>> /\ \A u \in Tabs : u = t
  BY DEF Close, Inv, TypeOK, OneCarefulTab
<1>2. \A f \in Folders : /\ ~Editable(t, f)' /\ FreshStore[f].children = {}
                         /\ f # Root => FreshStore[f] = NoNode
  BY <1>1, FreshFacts DEF Editable, Usable
<1>3. UnusedFit'
  BY <1>1, <1>2 DEF CarefulInv, UnusedFit
<1>4. ListsFit'
  BY <1>1, <1>2 DEF CarefulInv, ListsFit, Listable, IdsIn
<1>5. TurnsFit'
  BY <1>1, FreshFacts DEF TurnsFit
<1>6. NoughtsFit'
  BY <1>1, FreshFacts DEF CarefulInv, NoughtsFit
<1>7. NumbersFit' /\ SavedFits'
  BY <1>1, <1>2 DEF NumbersFit, SavedFits
<1>8. FlowsFit' /\ FiledFits'
  BY <1>1 DEF CarefulInv, FlowsFit, FiledFits
<1>9. KeptFits'
  BY <1>1, <1>2 DEF CarefulInv, KeptFits, ListedAt
<1> QED
  BY <1>3, <1>4, <1>5, <1>6, <1>7, <1>8, <1>9 DEF CarefulInv

LEMMA NextFits ==
    ASSUME OneCarefulTab, Inv, CarefulInv, [Next]_vars
    PROVE  CarefulInv'
<1>1. CASE UNCHANGED vars
  <2>1. TurnsFit'
    BY <1>1 DEF vars, CarefulInv, TurnsFit
  <2> QED
    BY <1>1, <2>1, SameFits DEF vars
<1> QED
  BY <1>1, EditFits, FlowStepFits, OpeningFits, PollingFits, CloseFits DEF Next

LEMMA CarefulHolds ==
    ASSUME OneCarefulTab
    PROVE  Spec => [](Inv /\ CarefulInv)
<1>1. Inv /\ CarefulInv /\ [Next]_vars => (Inv /\ CarefulInv)'
  BY NextInv, NextFits
<1> QED
  BY <1>1, InitInv, InitCareful, PTL DEF Spec

(* What an idle tab shows in a folder is published, for one tab of a user  *)
(* who waits, of whatever size and shape the tree, whatever the user does, *)
(* whatever publish, poll or load fails and whenever the tab is closed.    *)
THEOREM WhatIsShownIsSaved ==
    ASSUME OneCarefulTab
    PROVE  Spec => []ShownIsSaved
<1>1. Inv /\ CarefulInv => ShownIsSaved
  BY DEF CarefulInv, SavedFits, ShownIsSaved, Busy
<1> QED
  BY <1>1, CarefulHolds, PTL

(* An item whose creation was seen to succeed, and which was not deleted,  *)
(* is listed in some folder's record, and a file of that kind has its own  *)
(* record: from the store of one tab, of a user who waits, no operation    *)
(* ever publishes a folder without an item that is nowhere else.           *)
KeptIsListed ==
    /\ kept \subseteq UNION {Published[g] : g \in Folders}
    /\ kept \cap Files \subseteq filed

THEOREM KeptStaysListed ==
    ASSUME OneCarefulTab, Tabs # {}
    PROVE  Spec => []KeptIsListed
<1>1. CarefulInv => KeptIsListed
  BY DEF CarefulInv, KeptFits, FiledFits, ListedAt, KeptIsListed, Published
<1> QED
  BY <1>1, CarefulHolds, PTL

(* Only a deletion takes an item off the last record that lists it.        *)
THEOREM OnlyDeletionsUnlist ==
    ASSUME OneCarefulTab
    PROVE  Spec => OnlyDeletesUnlist
<1> DEFINE A == \A t \in Tabs : \A w \in flows[t] :
                  Publish(t, w) /\ w.op \notin {"delete", "deleteItems"}
                    => \A f \in Folders : Published[f] \cap kept
                                           \subseteq UNION {Published'[g] : g \in Folders}
<1>1. Inv /\ CarefulInv /\ [Next]_vars => [A]_vars
  <2> SUFFICES ASSUME Inv, CarefulInv, [Next]_vars, NEW t \in Tabs, NEW w \in flows[t],
                      Publish(t, w), NEW e \in kept
               PROVE  \E g \in Folders : e \in Published'[g]
    OBVIOUS
  <2>1. CarefulInv' /\ kept' = kept
    BY NextFits DEF Publish
  <2>2. PICK g \in Folders : e \in IdsIn(record'[g].children)
    BY <2>1 DEF CarefulInv, KeptFits, ListedAt
  <2> QED
    BY <2>2 DEF Published
<1> QED
  BY <1>1, CarefulHolds, PTL DEF Spec, OnlyDeletesUnlist
=============================================================================
