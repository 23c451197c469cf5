----------------------------- MODULE FileBrowser -----------------------------
(***************************************************************************)
(* The page a user browses the vault with: where it is, what is selected,  *)
(* the context menu, the dialogs and the dragging of items, and the        *)
(* operations of useFolder the page has asked for.  What those publish is  *)
(* in WebFolders; here an operation is asked and answered, and its success *)
(* edits the store the page renders.  Names are left out, and so are files *)
(* dragged in from outside (Uploads).                                      *)
(*                                                                         *)
(* A dialog covers the page, a drag and a finger on a row take the user's  *)
(* hands: one of them at a time.  Only the Back button is always there.    *)
(***************************************************************************)
EXTENDS Naturals, FiniteSets

CONSTANTS
    Dirs, Top,      \* folders, the root among them
    Docs,           \* files
    TextDocs,       \* files with the name of a text
    MediaDocs,      \* files with the name of something to look at or play
    RowBefore,      \* what sortItems puts first: pairs of items
    Vault,          \* item -> the folder that lists it at first
    DepthLimit,     \* MAX_FOLDER_DEPTH
    Slots,          \* bound: operations under way at once
    MaxAsked,       \* bound: operations asked
    MaxNews,        \* bound: items the poll or an upload adds or takes
    MaxVisits       \* bound: navigations

Items == (Dirs \ {Top}) \cup Docs
NoItem == "no item"
Gone == "gone"      \* not listed anywhere

(* No folders list each other in a ring                                    *)
Tree(p) == \A S \in SUBSET (Dirs \ {Top}) : S # {} => \E d \in S : p[d] \notin S

ASSUME BrowserAssumption ==
    /\ Top \in Dirs /\ Dirs \cap Docs = {} /\ IsFiniteSet(Dirs \cup Docs)
    /\ TextDocs \cup MediaDocs \subseteq Docs
    /\ NoItem \notin Items /\ Gone \notin Dirs
    /\ RowBefore \subseteq Items \X Items
    /\ Vault \in [Items -> Dirs \cup {Gone}] /\ Tree(Vault)
    /\ {DepthLimit, MaxAsked, MaxNews, MaxVisits} \subseteq Nat

VARIABLES
    store,      \* the folder store
    here,       \* currentFolderId, from the URL
    past,       \* folders the browser's history has
    heading,    \* latestNavTarget
    spinning,   \* isLoading of useFolderNavigation
    loading,    \* folder -> the parent its load found it in; bound: one load
    selected,   \* selectedIds
    anchor,     \* lastSelectedIdRef
    lapsed,     \* history: selected by a press on a row that was gone
    menu,       \* the item the context menu shows
    dialog,     \* the dialog that is open
    drag,       \* what is dragged
    press,      \* a finger rests on a row
    ops,        \* slot -> an operation asked for
    operating,  \* isLoading of useFolder
    fetching,   \* isDownloading
    rushed,     \* history: items were dropped during another operation
    budget      \* operations, news and navigations left

navVars   == <<here, past, heading, spinning, loading>>
handVars  == <<selected, anchor, lapsed, menu, drag, press>>
opVars    == <<ops, operating, fetching, rushed>>
browserVars == <<store, navVars, handVars, dialog, opVars, budget>>

Editing == {"rename", "delete", "move", "deleteMany", "moveMany", "create"}
Viewing == {"details", "share", "edit", "preview"}
NoDialog == [kind |-> "none", items |-> {}]
NoDrag   == [items |-> {}, from |-> Top]
NoPress  == [item |-> NoItem, selected |-> {}]

(* A node of the store is a placeholder while its folder loads; it is bare *)
(* with the keys and no children when the folder's record was not found,   *)
(* keyless when an operation filled the placeholder in.  What a folder     *)
(* lists is what its node has, when that is loaded, or what its record     *)
(* says.                                                                   *)
AtFirst == [lists |-> [f \in Dirs |-> {i \in Items : Vault[i] = f}],
            node  |-> [f \in Dirs |-> IF f = Top THEN "loaded" ELSE "none"],
            up    |-> [f \in Dirs |-> Top]]

(* An operation keeps the store it was asked in                            *)
NoOp == [kind |-> "none", items |-> {}, from |-> Top, to |-> Top, seen |-> AtFirst]

BrowserInit ==
    /\ store = AtFirst
    /\ here = Top /\ past = {Top} /\ heading = NoItem
    /\ spinning = FALSE /\ loading = [f \in Dirs |-> NoItem]
    /\ selected = {} /\ anchor = NoItem /\ lapsed = NoItem
    /\ menu = NoItem /\ dialog = NoDialog /\ drag = NoDrag /\ press = NoPress
    /\ ops = [s \in Slots |-> NoOp]
    /\ operating = FALSE /\ fetching = FALSE /\ rushed = FALSE
    /\ budget = [asked |-> MaxAsked, news |-> MaxNews, visits |-> MaxVisits]

-----------------------------------------------------------------------------
(* The store *)

InStore(st, f) == st.node[f] # "none"
IsLoaded(st, f) == st.node[f] \in {"loaded", "keyless"}
HasKeys(st, f) == st.node[f] \in {"bare", "loaded"}

(* The children a folder's node has                                        *)
Shown(st, f) == IF IsLoaded(st, f) THEN st.lists[f] ELSE {}

(* isDescendantOf: every set of folders that has a, and with a folder all  *)
(* those whose nodes name it their parent, has f                           *)
Inside(st, f, a) ==
    \A S \in SUBSET Dirs :
        (/\ a \in S
         /\ \A g \in Dirs \ {Top} : InStore(st, g) /\ st.up[g] \in S => g \in S) => f \in S

(* collectFolderIds: the same by what the nodes list                       *)
Below(st, f, a) ==
    \A S \in SUBSET Dirs :
        (a \in S /\ \A g \in S : Shown(st, g) \cap Dirs \subseteq S) => f \in S

(* getDepth counts the folder itself                                       *)
FolderDepth(st, f) == Cardinality({a \in Dirs : InStore(st, a) /\ Inside(st, f, a)})

(* destDepth + 1 + calculateSubtreeDepth does not exceed the limit: of all *)
(* chains from d down                                                      *)
FitsBelow(st, d, to) ==
    \A g \in Dirs :
        Below(st, g, d)
        => FolderDepth(st, to) + Cardinality({h \in Dirs : Below(st, h, d) /\ Below(st, g, h)})
           <= DepthLimit

-----------------------------------------------------------------------------
(* What the page shows *)

(* currentFolder.children, of the folder f                                 *)
Children(f) == Shown(store, f)

ListShown == ~spinning /\ Children(here) # {}
RowShown(i) == ListShown /\ i \in Children(here)

(* buildBreadcrumbs                                                        *)
Crumbs == {a \in Dirs : InStore(store, here) /\ InStore(store, a) /\ Inside(store, here, a)}

(* selectedItems: what the batch commands act on                           *)
SelectedItems == selected \cap Children(here)

(* The hand is free: nothing covers the page, nothing is held              *)
HandFree == menu = NoItem /\ dialog = NoDialog /\ drag = NoDrag /\ press = NoPress

(* Mistake: what is gone stays selected *)
PruneNothing == UNCHANGED selected

(* The effect on childIds: the selection keeps what is still listed        *)
Prune == selected' = selected \cap Children(here)'

-----------------------------------------------------------------------------
(* Selecting *)

SelectOnly(i) == selected' = {i} /\ anchor' = i

(* Ctrl+click, or the row's checkbox                                       *)
Toggle(i) ==
    /\ selected' = IF i \in selected THEN selected \ {i} ELSE selected \cup {i}
    /\ anchor' = i

(* The rows from one to the other as sorted, both included                 *)
RowsBetween(i, j) ==
    LET AtOrBefore(x, y) == x = y \/ <<x, y>> \in RowBefore
    IN  {x \in Children(here) : \/ AtOrBefore(i, x) /\ AtOrBefore(x, j)
                                \/ AtOrBefore(j, x) /\ AtOrBefore(x, i)}

(* Shift+click; an anchor that is no longer listed selects nothing         *)
SelectRange(i) ==
    /\ anchor # NoItem
    /\ selected' = IF anchor \in Children(here)
                   THEN selected \cup RowsBetween(anchor, i) ELSE selected
    /\ UNCHANGED anchor

Click(i) ==
    /\ HandFree /\ RowShown(i)
    /\ SelectOnly(i) \/ Toggle(i) \/ SelectRange(i)
    /\ UNCHANGED <<store, navVars, lapsed, menu, drag, press, dialog, opVars, budget>>

Deselect == selected' = {} /\ anchor' = NoItem

(* The checkbox of the header                                              *)
SelectAll ==
    /\ HandFree /\ ListShown
    /\ IF Cardinality(selected) = Cardinality(Children(here)) THEN Deselect
       ELSE selected' = Children(here) /\ UNCHANGED anchor
    /\ UNCHANGED <<store, navVars, lapsed, menu, drag, press, dialog, opVars, budget>>

(* [clear] of the bar that is shown over several selected items           *)
ClearSelection ==
    /\ HandFree /\ Cardinality(selected) > 1
    /\ Deselect
    /\ UNCHANGED <<store, navVars, lapsed, menu, drag, press, dialog, opVars, budget>>

-----------------------------------------------------------------------------
(* The context menu *)

(* handleContextMenu, as rendered when was was selected                    *)
ShowMenu(i, was) ==
    /\ IF i \in was THEN UNCHANGED <<selected, anchor>> ELSE SelectOnly(i)
    /\ menu' = i

CloseMenu == menu' = NoItem

RightClick(i) ==
    /\ HandFree /\ RowShown(i)
    /\ ShowMenu(i, selected)
    /\ UNCHANGED <<store, navVars, lapsed, drag, press, dialog, opVars, budget>>

(* A finger on a row starts the timer of the long press                    *)
Touch(i) ==
    /\ HandFree /\ RowShown(i)
    /\ press' = [item |-> i, selected |-> selected]
    /\ UNCHANGED <<store, navVars, selected, anchor, lapsed, menu, drag, dialog, opVars, budget>>

(* The finger is lifted or moves; a row that is gone hears of neither      *)
TouchEnds ==
    /\ press # NoPress /\ RowShown(press.item)
    /\ press' = NoPress
    /\ UNCHANGED <<store, navVars, selected, anchor, lapsed, menu, drag, dialog, opVars, budget>>

(* The timer is not cleared with the row                                   *)
LongPress ==
    /\ press # NoPress
    /\ ShowMenu(press.item, press.selected)
    /\ lapsed' = IF press.item \in Children(here) THEN lapsed ELSE press.item
    /\ press' = NoPress
    /\ UNCHANGED <<store, navVars, drag, dialog, opVars, budget>>

(* A press of the mouse anywhere else, or Escape                           *)
HideMenu ==
    /\ menu # NoItem
    /\ CloseMenu
    /\ UNCHANGED <<store, navVars, selected, anchor, lapsed, drag, press, dialog, opVars, budget>>

isTextFile(i) == i \in TextDocs
isPreviewableFile(i) == i \in MediaDocs

(* The commands of the menu on one item                                    *)
Offered(i) ==
    {"rename", "delete", "move", "details", "share"}
    \cup {c \in {"edit"} : isTextFile(i)} \cup {c \in {"preview"} : isPreviewableFile(i)}

OpenDialog(kind, items) == dialog' = [kind |-> kind, items |-> items]

ChooseCommand(kind) ==
    /\ menu # NoItem /\ Cardinality(selected) <= 1
    /\ kind \in Offered(menu)
    /\ OpenDialog(kind, {menu})
    /\ CloseMenu
    /\ UNCHANGED <<store, navVars, selected, anchor, lapsed, drag, press, opVars, budget>>

(* The commands on several items: of the menu, and of the bar              *)
InMenu == menu # NoItem
OnBar == HandFree /\ ~operating /\ ~fetching
BatchOffered == Cardinality(selected) > 1 /\ (InMenu \/ OnBar)

(* With nothing listed of what is selected the menu only closes            *)
ChooseBatch(kind) ==
    /\ BatchOffered
    /\ IF SelectedItems = {} THEN UNCHANGED dialog ELSE OpenDialog(kind, SelectedItems)
    /\ CloseMenu
    /\ UNCHANGED <<store, navVars, selected, anchor, lapsed, drag, press, opVars, budget>>

(* A file, or the selected files one after the other; bound: one such      *)
(* download at a time                                                      *)
Download ==
    /\ ~fetching /\ InStore(store, here)
    /\ \/ menu \in Docs /\ Cardinality(selected) <= 1
       \/ BatchOffered /\ SelectedItems \cap Docs # {}
    /\ fetching' = TRUE
    /\ CloseMenu
    /\ UNCHANGED <<store, navVars, selected, anchor, lapsed, drag, press, dialog,
                   ops, operating, rushed, budget>>

Downloaded ==
    /\ fetching
    /\ fetching' = FALSE
    /\ UNCHANGED <<store, navVars, handVars, dialog, ops, operating, rushed, budget>>

NewFolder ==
    /\ HandFree /\ ~operating
    /\ OpenDialog("create", {})
    /\ UNCHANGED <<store, navVars, handVars, opVars, budget>>

-----------------------------------------------------------------------------
(* Dialogs *)

(* Mistake: only the question before deleting knows of an operation *)
BlockedDeleting == dialog.kind = "delete" /\ (operating \/ fetching)

(* isLoading of the dialog that is open                                    *)
Blocked == dialog.kind \notin Viewing /\ (operating \/ (dialog.kind = "delete" /\ fetching))

Cancel ==
    /\ dialog # NoDialog /\ ~Blocked
    /\ dialog' = NoDialog
    /\ UNCHANGED <<store, navVars, handVars, opVars, budget>>

(* Every operation sets operating, whichever else is under way             *)
Ask(op) ==
    /\ budget.asked > 0
    /\ \E s \in Slots : ops[s] = NoOp /\ ops' = [ops EXCEPT ![s] = op]
    /\ operating' = TRUE
    /\ budget' = [budget EXCEPT !.asked = @ - 1]

(* isDisabled of buildFolderList: a folder that cannot take the items      *)
CannotTake(f, items) ==
    \/ f = here
    \/ f \in items
    \/ /\ f # Top /\ items \cap Dirs # {}
       /\ \/ \E d \in items \cap Dirs : Inside(store, f, d)
          \/ FolderDepth(store, f) >= DepthLimit - 1

(* The folders the dialog for moving accepts                               *)
Destinations(items) == {f \in Dirs : InStore(store, f) /\ ~CannotTake(f, items)}

(* What the dialog asks is asked of the folder the page is in by then      *)
Submit(to) ==
    /\ Ask([kind |-> dialog.kind, items |-> dialog.items, from |-> here, to |-> to,
            seen |-> store])
    /\ UNCHANGED <<store, navVars, handVars, dialog, fetching, rushed>>

ConfirmRename == dialog.kind = "rename" /\ ~Blocked /\ Submit(Top)
ConfirmDelete == dialog.kind \in {"delete", "deleteMany"} /\ ~Blocked /\ Submit(Top)
ConfirmCreate == dialog.kind = "create" /\ ~Blocked /\ Submit(Top)
ConfirmMove ==
    /\ dialog.kind \in {"move", "moveMany"} /\ ~Blocked
    /\ \E f \in Destinations(dialog.items) : Submit(f)

-----------------------------------------------------------------------------
(* Dragging *)

(* With one of several selected rows go all of them                        *)
DragStart(i) ==
    /\ HandFree /\ RowShown(i)
    /\ drag' = [items |-> IF i \in selected /\ Cardinality(selected) > 1
                          THEN SelectedItems ELSE {i},
                from |-> here]
    /\ UNCHANGED <<store, navVars, selected, anchor, lapsed, menu, press, dialog, opVars, budget>>

(* A drop looks neither at operating nor, but for this, at what is dropped: *)
(* a folder does not take itself, nor what comes out of it                 *)
Takes(f) == {i \in drag.items : i # f /\ drag.from # f}

DropTargets == Crumbs \cup {f \in Dirs : RowShown(f)}

DropOnFolder(items, f) ==
    Ask([kind |-> IF Cardinality(items) = 1 THEN "dropOne" ELSE "dropMany",
         items |-> items, from |-> drag.from, to |-> f, seen |-> store])

Drop(f) ==
    /\ drag # NoDrag /\ f \in DropTargets
    /\ Takes(f) # {}
    /\ DropOnFolder(Takes(f), f)
    /\ rushed' = (rushed \/ \E s \in Slots : ops[s] # NoOp)
    /\ drag' = NoDrag
    /\ UNCHANGED <<store, navVars, selected, anchor, lapsed, menu, press, dialog, fetching>>

(* Elsewhere, or where nothing is taken                                    *)
DropNowhere ==
    /\ drag # NoDrag
    /\ drag' = NoDrag
    /\ UNCHANGED <<store, navVars, selected, anchor, lapsed, menu, press, dialog, opVars, budget>>

-----------------------------------------------------------------------------
(* Answers *)

Moving(op) == op.kind \in {"move", "moveMany", "dropOne", "dropMany"}
Single(op) == op.kind \in {"rename", "delete", "move", "dropOne"}

(* Of several items those that are there are moved or deleted              *)
Affected(op) == op.items \cap Shown(op.seen, op.from)

(* A new folder goes to the root when the page's folder is not there       *)
CreatedIn(op) == IF InStore(op.seen, op.from) THEN op.from ELSE Top

(* What useFolder asks of the store it read: folders with keys, a single   *)
(* item to be there, no folder into itself or too deep                     *)
Possible(op) ==
    /\ HasKeys(op.seen, CreatedIn(op)) /\ (op.kind # "create" => HasKeys(op.seen, op.from))
    /\ Single(op) => op.items \subseteq Shown(op.seen, op.from)
    /\ op.kind = "create" => op.from = Top \/ FolderDepth(op.seen, op.from) < DepthLimit
    /\ Moving(op) =>
           /\ HasKeys(op.seen, op.to)
           /\ \A d \in Affected(op) \cap Dirs :
                  ~Inside(op.seen, op.to, d) /\ FitsBelow(op.seen, d, op.to)

(* updateFolderChildren                                                    *)
Opened(n) == CASE n = "loading" -> "keyless" [] n = "bare" -> "loaded" [] OTHER -> n

(* The children the operation read, edited, are what is published and what *)
(* the node gets                                                           *)
Relisted(st, f, items) ==
    [lists |-> [st.lists EXCEPT ![f] = items], node |-> [st.node EXCEPT ![f] = Opened(@)], up |-> st.up]

(* The node of a moved folder is put back as it was read, with its parent  *)
Replaced(st, op) ==
    LET moved == {d \in op.items \cap Dirs : InStore(op.seen, d)}
    IN  [lists |-> [f \in Dirs |-> IF f \in moved /\ IsLoaded(op.seen, f)
                                   THEN op.seen.lists[f] ELSE st.lists[f]],
         node  |-> [f \in Dirs |-> IF f \in moved THEN op.seen.node[f] ELSE st.node[f]],
         up    |-> [f \in Dirs |-> IF f \in moved THEN op.to ELSE st.up[f]]]

Moved(op) ==
    Replaced(Relisted(Relisted(store, op.from, Shown(op.seen, op.from) \ op.items),
                    op.to, Shown(op.seen, op.to) \cup Affected(op)), op)

(* A folder deleted alone leaves the nodes below it in the store           *)
Forgotten(op) ==
    IF op.kind = "delete" THEN op.items \cap Dirs
    ELSE {f \in Dirs \ {Top} : \E d \in op.items \cap Dirs : Below(op.seen, f, d)}

Deleted(op) ==
    LET st == Relisted(store, op.from, Shown(op.seen, op.from) \ op.items)
    IN  [st EXCEPT !.node = [f \in Dirs |-> IF f \in Forgotten(op) THEN "none" ELSE @[f]]]

(* A folder that is nowhere stands for the new one                         *)
New(f) == f # Top /\ ~InStore(store, f) /\ \A g \in Dirs : f \notin store.lists[g]

CreatedFolder(op, f) ==
    LET st == Relisted(store, CreatedIn(op), Shown(op.seen, CreatedIn(op)) \cup {f})
    IN  [lists |-> [st.lists EXCEPT ![f] = {}],
         node  |-> [st.node EXCEPT ![f] = "loaded"],
         up    |-> [st.up EXCEPT ![f] = CreatedIn(op)]]

Effect(op) ==
    \/ Moving(op) /\ store' = Moved(op)
    \/ op.kind \in {"delete", "deleteMany"} /\ store' = Deleted(op)
    \/ op.kind = "create" /\ \E f \in Dirs : New(f) /\ store' = CreatedFolder(op, f)
    \/ op.kind = "rename" /\ store' = Relisted(store, op.from, Shown(op.seen, op.from))

(* The handler closes the dialog of its kind, whatever it shows by now     *)
Closes(op) == dialog' = IF dialog.kind = op.kind THEN NoDialog ELSE dialog

AnswerTo(s) == ops' = [ops EXCEPT ![s] = NoOp]

Succeeds(s) ==
    /\ ops[s] # NoOp /\ Possible(ops[s])
    /\ Effect(ops[s])
    /\ Closes(ops[s]) /\ AnswerTo(s)
    /\ operating' = FALSE
    /\ UNCHANGED navVars
    /\ IF ops[s].kind \in {"deleteMany", "moveMany", "dropMany"} THEN Deselect
       ELSE Prune /\ UNCHANGED anchor
    /\ UNCHANGED <<lapsed, menu, drag, press, fetching, rushed, budget>>

(* The dialog stays open, but the one for a new folder                     *)
Refused(s) ==
    /\ ops[s] # NoOp
    /\ IF ops[s].kind = "create" THEN Closes(ops[s]) ELSE UNCHANGED dialog
    /\ AnswerTo(s)
    /\ operating' = FALSE
    /\ UNCHANGED <<store, navVars, handVars, fetching, rushed, budget>>

-----------------------------------------------------------------------------
(* Navigation *)

Visit(f) == here' = f /\ past' = past \cup {f}

(* A folder that is loaded, and the root, is shown at once                 *)
GoTo(f) ==
    /\ f = Top \/ IsLoaded(store, f)
    /\ heading' = f
    /\ Visit(f)
    /\ UNCHANGED <<store, spinning, loading>>

Unloaded(f) == f # Top /\ ~IsLoaded(store, f)

(* The loaded folders that list it                                         *)
Parents(f) == {g \in Dirs : f \in Shown(store, g)}

SetFolder(f, kind, parent) ==
    store' = [lists |-> store.lists, node |-> [store.node EXCEPT ![f] = kind],
              up |-> [store.up EXCEPT ![f] = parent]]

(* Another one gets a placeholder, and is loaded                           *)
GoAndLoad(f) ==
    /\ Unloaded(f) /\ loading[f] = NoItem
    /\ \E p \in Parents(f) :
           /\ SetFolder(f, "loading", p)
           /\ loading' = [loading EXCEPT ![f] = p]
    /\ heading' = f
    /\ Visit(f)
    /\ spinning' = TRUE

GoNowhere(f) ==
    /\ Unloaded(f) /\ Parents(f) = {}
    /\ heading' = f
    /\ UNCHANGED <<store, here, past, spinning, loading>>

NavigateTo(f) ==
    /\ budget.visits > 0
    /\ GoTo(f) \/ GoAndLoad(f) \/ GoNowhere(f)
    /\ budget' = [budget EXCEPT !.visits = @ - 1]

(* handleNavigate: a row, or a segment of the breadcrumbs                  *)
EnterFolder(f) ==
    /\ HandFree
    /\ f \in Crumbs \/ RowShown(f)
    /\ Deselect
    /\ NavigateTo(f)
    /\ UNCHANGED <<lapsed, menu, drag, press, dialog, opVars>>

(* navigateUp, from the row [..]                                           *)
Above == store.up[here]
GoUp ==
    /\ HandFree /\ ListShown /\ here # Top
    /\ NavigateTo(Above)
    /\ Prune
    /\ UNCHANGED <<anchor, lapsed, menu, drag, press, dialog, opVars>>

(* The browser's buttons change the URL alone                              *)
Back(f) ==
    /\ f \in past \ {here} /\ press = NoPress /\ drag = NoDrag
    /\ budget.visits > 0
    /\ here' = f
    /\ UNCHANGED store /\ Prune
    /\ budget' = [budget EXCEPT !.visits = @ - 1]
    /\ UNCHANGED <<past, heading, spinning, loading, anchor, lapsed, menu, drag,
                   press, dialog, opVars>>

(* The node the load made *)
LoadedAs(f, kind) ==
    /\ heading = f
    /\ SetFolder(f, kind, loading[f])
    /\ spinning' = FALSE
    /\ UNCHANGED <<here, past, heading>>

(* The record is found, or after all the retries it is not                 *)
LoadedFolder(f) == LoadedAs(f, "loaded")
UnresolvedFolder(f) == LoadedAs(f, "bare")

(* Back to the parent, without a click                                     *)
UnloadableFolder(f) ==
    /\ heading = f
    /\ store' = [store EXCEPT !.node = [@ EXCEPT ![f] = "none"]]
    /\ spinning' = FALSE
    /\ heading' = loading[f]
    /\ Visit(loading[f])

(* Of a load the user has gone on from nothing is kept, nor is the sign    *)
(* that the page is loading taken down                                     *)
OutdatedFolder(f) == heading # f /\ UNCHANGED <<store, here, past, heading, spinning>>

LoadEnds(f) ==
    /\ loading[f] # NoItem /\ loading' = [loading EXCEPT ![f] = NoItem]
    /\ LoadedFolder(f) \/ UnresolvedFolder(f) \/ UnloadableFolder(f) \/ OutdatedFolder(f)
    /\ Prune
    /\ UNCHANGED <<anchor, lapsed, menu, drag, press, dialog, opVars, budget>>

-----------------------------------------------------------------------------
(* What others do to the store *)

(* The poll takes an item out of the root, or adds one; an upload adds one *)
(* to any folder                                                           *)
Lists(f, items) == store' = [store EXCEPT !.lists = [@ EXCEPT ![f] = items]]
News(i) ==
    /\ budget.news > 0
    /\ \/ i \in store.lists[Top] /\ Lists(Top, store.lists[Top] \ {i})
       \/ \E f \in Dirs :
              /\ IsLoaded(store, f)
              /\ \A g \in Dirs : i \notin store.lists[g]
              /\ i \in Dirs => f = Top /\ (~InStore(store, i) \/ store.up[i] = Top)
              /\ Lists(f, store.lists[f] \cup {i})
    /\ UNCHANGED navVars /\ Prune
    /\ budget' = [budget EXCEPT !.news = @ - 1]
    /\ UNCHANGED <<anchor, lapsed, menu, drag, press, dialog, opVars>>

-----------------------------------------------------------------------------

Selecting == (\E i \in Items : Click(i)) \/ SelectAll \/ ClearSelection
Commanding ==
    \/ \E i \in Items : RightClick(i) \/ Touch(i)
    \/ TouchEnds \/ LongPress \/ HideMenu \/ Download \/ Downloaded \/ NewFolder
    \/ \E kind \in Editing \cup Viewing : ChooseCommand(kind)
    \/ \E kind \in {"deleteMany", "moveMany"} : ChooseBatch(kind)
Operating ==
    \/ Cancel \/ ConfirmRename \/ ConfirmDelete \/ ConfirmCreate \/ ConfirmMove
    \/ \E s \in Slots : Succeeds(s) \/ Refused(s)
Dragging == (\E i \in Items : DragStart(i)) \/ (\E f \in Dirs : Drop(f)) \/ DropNowhere
Navigating == GoUp \/ \E f \in Dirs : EnterFolder(f) \/ Back(f) \/ LoadEnds(f)

BrowserNext ==
    \/ Selecting \/ Commanding \/ Operating \/ Dragging \/ Navigating
    \/ \E i \in Items : News(i)

BrowserSpec == BrowserInit /\ [][BrowserNext]_browserVars

-----------------------------------------------------------------------------
(* Properties *)

Stores == [lists : [Dirs -> SUBSET Items],
           node : [Dirs -> {"none", "loading", "bare", "keyless", "loaded"}],
           up : [Dirs -> Dirs]]

BrowserTypeOK ==
    /\ store \in Stores
    /\ here \in Dirs /\ past \subseteq Dirs /\ heading \in Dirs \cup {NoItem}
    /\ loading \in [Dirs -> Dirs \cup {NoItem}]
    /\ {spinning, operating, fetching, rushed} \subseteq BOOLEAN
    /\ selected \subseteq Items /\ {anchor, lapsed, menu} \subseteq Items \cup {NoItem}
    /\ dialog \in [kind : Editing \cup Viewing \cup {"none"}, items : SUBSET Items]
    /\ drag \in [items : SUBSET Items, from : Dirs]
    /\ press \in [item : Items, selected : SUBSET Items] \cup {NoPress}
    /\ ops \in [Slots -> [kind : Editing \cup {"none", "dropOne", "dropMany"}, items : SUBSET Items,
                          from : Dirs, to : Dirs, seen : Stores]]
    /\ budget \in [asked : 0..MaxAsked, news : 0..MaxNews, visits : 0..MaxVisits]

(* What is selected is listed in the folder that is shown, whatever the    *)
(* poll, an operation, a failing load or the Back button took away under   *)
(* the selection.  The one exception is a row that went while a finger     *)
(* rested on it.                                                           *)
SelectionShown == selected \subseteq Children(here) \cup {lapsed}

(* The buttons of the page do not ask for an operation while another one   *)
(* is under way: what a dialog asks, it asks once.  Only dropping items    *)
(* while an operation is under way breaks this, as the end of the one then *)
(* hides the other.                                                        *)
ConfirmedOnce ==
    ~rushed => \A s, t \in Slots : ops[s] # NoOp /\ ops[t] # NoOp => s = t

(* What these rest on: a row that went while a finger rested on it took    *)
(* everything else that had gone out of the selection with it; and while   *)
(* an operation is under way the page knows of one                         *)
PressFits ==
    press # NoPress => press.item \in Children(here) \/ selected \subseteq Children(here)
OperatingFits == ~rushed => \A s \in Slots : ops[s] # NoOp => operating

BrowserInv == BrowserTypeOK /\ SelectionShown /\ PressFits /\ ConfirmedOnce /\ OperatingFits
=============================================================================
