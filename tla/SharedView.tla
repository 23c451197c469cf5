------------------------------ MODULE SharedView ------------------------------
(***************************************************************************)
(* The "Shared with me" view of a tab: the list of received shares, the     *)
(* folder being browsed with its breadcrumbs, and the stack of folders      *)
(* above it.  Every folder opened has its decrypted key in a buffer of its  *)
(* own, which leaving the folder overwrites with zeroes.                    *)
(*                                                                         *)
(* A folder is a place; the children shown are those of one place, and a    *)
(* buffer decrypts the metadata of one place.  Rows are hidden while a      *)
(* navigation is on its way; the breadcrumbs are not.                       *)
(***************************************************************************)
EXTENDS Naturals, Sequences, FiniteSets, SequencesExt

CONSTANTS
    FileShares, \* received shares of single files
    Roots,      \* received shares of folders, each the place it opens
    Subfolders, \* places inside the shared folders; what is also shared by itself is another
    Above,      \* subfolder -> the place that lists it
    WithFiles,  \* places that hold files
    MaxBuffers, \* bound: folder keys decrypted
    MaxReads    \* bound: file downloads under way

Places == Roots \cup Subfolders
Shares == FileShares \cup Roots
Nowhere == "nowhere"

ASSUME ViewAssumption ==
    /\ Above \in [Subfolders -> Places] /\ WithFiles \subseteq Places
    /\ MaxBuffers \in Nat /\ MaxReads \in Nat
    /\ Nowhere \notin Shares \cup Places
    /\ FileShares \cap Places = {} /\ Roots \cap Subfolders = {}

Buffers == 1..MaxBuffers
NoKey == 0

VARIABLES
    view,     \* "list", "folder", or "left" once the page is left
    offered,  \* the shares listed
    loading,  \* a spinner stands for the rows
    children, \* the place whose children are shown
    key,      \* the buffer with its key
    crumbs,   \* the places on the breadcrumb trail
    stack,    \* the folders above, with their keys
    nav,      \* the navigation on its way, at most one
    reads,    \* downloads of files under way
    used,     \* buffer -> the place its key decrypts
    zeroed,   \* buffers overwritten
    astray,   \* history: an overtaken answer has arrived since the root
    overtaken \* history: an overtaken answer has arrived

trail == <<children, key, crumbs, stack>>
viewVars == <<view, offered, loading, children, key, crumbs, stack, nav, reads, used,
          zeroed, astray, overtaken>>

Level == [children : Places, key : Buffers]

(* A navigation keeps the folder it was started from, as the callback's     *)
(* closure does; stale: the user has gone elsewhere meanwhile               *)
Nav == [to : Shares \cup Subfolders, from : Places \cup {Nowhere},
        key : Buffers \cup {NoKey}, stale : BOOLEAN]

Live(b) == b \in DOMAIN used /\ b \notin zeroed
StackKeys == {stack[i].key : i \in DOMAIN stack}
HasChildren(p) == p \in WithFiles \/ \E q \in Subfolders : Above[q] = p

ViewInit ==
    /\ view = "list" /\ offered = {} /\ loading = TRUE
    /\ children = Nowhere /\ key = NoKey /\ crumbs = <<>> /\ stack = <<>>
    /\ nav = {} /\ reads = {} /\ used = <<>> /\ zeroed = {}
    /\ astray = FALSE /\ overtaken = FALSE

-----------------------------------------------------------------------------
(* The list *)

(* The first answer fills the list; if it fails an error stands in its place *)
LoadShares ==
    /\ view = "list" /\ loading /\ nav = {} /\ offered = {}
    /\ offered' \in {Shares, {}}
    /\ loading' = FALSE
    /\ UNCHANGED <<view, trail, nav, reads, used, zeroed, astray, overtaken>>

ListShown == view = "list" /\ ~loading /\ offered # {}
FolderShown == view = "folder" /\ ~loading /\ HasChildren(children)

Navigates(to) ==
    /\ nav' = nav \cup {[to |-> to, from |-> children, key |-> key, stale |-> FALSE]}
    /\ loading' = TRUE
    /\ UNCHANGED <<view, offered, trail, reads, used, zeroed, astray, overtaken>>

(* navigateToShare, by a double click or the menu of a row                  *)
OpenShare(s) ==
    /\ ListShown /\ s \in offered
    /\ Navigates(s)

(* The share's key is decrypted into a new buffer                           *)
Decrypts(p) ==
    /\ Len(used) < MaxBuffers
    /\ used' = Append(used, p)

(* The answer replaces whatever was shown                                   *)
ShareArrived ==
    /\ \E n \in nav : n.to \in Roots /\ Decrypts(n.to)
                      /\ children' = n.to /\ crumbs' = <<n.to>>
                      /\ overtaken' = (overtaken \/ n.stale)
    /\ key' = Len(used')
    /\ stack' = <<>>
    /\ view' = IF view = "left" THEN "left" ELSE "folder"
    /\ nav' = {} /\ loading' = FALSE /\ astray' = FALSE
    /\ UNCHANGED <<offered, reads, zeroed>>

(* A file share is downloaded: the key decrypted first is zeroed at once,   *)
(* the one its metadata is opened with as soon as it has been read          *)
FileShareEnds ==
    /\ \E n \in nav : n.to \in FileShares
    /\ nav' = {} /\ loading' = FALSE
    /\ UNCHANGED <<view, offered, trail, reads, used, zeroed, astray, overtaken>>

(* hideSharedItem, once the API has answered                                *)
HideShare(s) ==
    /\ view # "left" /\ s \in offered
    /\ offered' = offered \ {s}
    /\ UNCHANGED <<view, loading, trail, nav, reads, used, zeroed, astray, overtaken>>

-----------------------------------------------------------------------------
(* Inside a shared folder *)

(* navigateToSubfolder                                                      *)
OpenSub(p) ==
    /\ FolderShown /\ Above[p] = children
    /\ Navigates(p)

(* What the click left behind goes on the stack, and the new place at the   *)
(* end of the trail as it is now                                            *)
Pushed(n) == IF n.key = NoKey THEN stack
             ELSE Append(stack, [children |-> n.from, key |-> n.key])

SubArrived ==
    /\ \E n \in nav :
        /\ n.to \in Subfolders /\ Decrypts(n.to)
        /\ stack' = Pushed(n)
        /\ children' = n.to /\ crumbs' = Append(crumbs, n.to)
        /\ astray' = (astray \/ n.stale) /\ overtaken' = (overtaken \/ n.stale)
    /\ key' = Len(used')
    /\ nav' = {} /\ loading' = FALSE
    /\ UNCHANGED <<view, offered, reads, zeroed>>

(* No key for the folder, no record, or metadata the key does not open: a   *)
(* key decrypted for it is zeroed                                           *)
NavFails ==
    /\ nav # {}
    /\ nav' = {} /\ loading' = FALSE
    /\ UNCHANGED <<view, offered, trail, reads, used, zeroed, astray, overtaken>>

Overtakes == nav' = {[n EXCEPT !.stale = TRUE] : n \in nav}

(* navigateToRoot, by the first breadcrumb                                  *)
Root ==
    /\ view = "folder"
    /\ zeroed' = zeroed \cup ({key} \ {NoKey}) \cup StackKeys
    /\ view' = "list"
    /\ children' = Nowhere /\ key' = NoKey /\ crumbs' = <<>> /\ stack' = <<>>
    /\ Overtakes
    /\ astray' = FALSE
    /\ UNCHANGED <<offered, loading, reads, used, overtaken>>

(* navigateUp, by the [..] row                                              *)
Up ==
    /\ FolderShown
    /\ IF stack = <<>> THEN Root
       ELSE /\ zeroed' = zeroed \cup ({key} \ {NoKey})
            /\ stack' = Front(stack)
            /\ children' = Last(stack).children /\ key' = Last(stack).key
            /\ crumbs' = Front(crumbs)
            /\ UNCHANGED <<view, offered, loading, nav, reads, used, astray, overtaken>>

(* Mistake: one level too many *)
PopsNeededMore(i) == Len(crumbs) - i + 1

(* navigateToBreadcrumb: the level to return to is popped last, the keys    *)
(* between it and the current one are discarded                             *)
PopsNeeded(i) == Len(crumbs) - i
Kept(n) == IF n > Len(stack) THEN 0 ELSE Len(stack) - n

Discarded(left) == {stack[j].key : j \in left + 1 .. Len(stack)}

Crumb(i) ==
    /\ view = "folder" /\ i < Len(crumbs)
    /\ LET left == Kept(PopsNeeded(i) - 1)       \* entries left when the last is popped
       IN  /\ zeroed' = zeroed \cup ({key} \ {NoKey}) \cup Discarded(left)
           /\ IF left = 0
              THEN stack' = <<>> /\ UNCHANGED <<children, key, crumbs>>
              ELSE /\ stack' = SubSeq(stack, 1, left - 1)
                   /\ children' = stack[left].children /\ key' = stack[left].key
                   /\ crumbs' = SubSeq(crumbs, 1, i)
    /\ Overtakes
    /\ UNCHANGED <<view, offered, loading, reads, used, astray, overtaken>>

(* downloadSharedFile keeps the buffer, and uses it when the metadata is here *)
Read ==
    /\ FolderShown /\ children \in WithFiles /\ key # NoKey
    /\ reads' = reads \cup {key} /\ Cardinality(reads') <= MaxReads
    /\ UNCHANGED <<view, offered, loading, trail, nav, used, zeroed, astray, overtaken>>

ReadEnds ==
    /\ \E b \in reads : reads' = reads \ {b}
    /\ UNCHANGED <<view, offered, loading, trail, nav, used, zeroed, astray, overtaken>>

(* The effect's cleanup: the keys the page holds are zeroed                 *)
Leave ==
    /\ view # "left"
    /\ view' = "left"
    /\ zeroed' = zeroed \cup ({key} \ {NoKey}) \cup StackKeys
    /\ key' = NoKey /\ stack' = <<>>
    /\ Overtakes
    /\ UNCHANGED <<offered, loading, children, crumbs, reads, used, astray, overtaken>>

ViewNext ==
    \/ LoadShares \/ ShareArrived \/ FileShareEnds \/ SubArrived \/ NavFails
    \/ Root \/ Up \/ Read \/ ReadEnds \/ Leave
    \/ \E s \in Shares : OpenShare(s) \/ HideShare(s)
    \/ \E p \in Subfolders : OpenSub(p)
    \/ \E i \in 1..Len(crumbs) : Crumb(i)

ViewSpec == ViewInit /\ [][ViewNext]_viewVars

-----------------------------------------------------------------------------
(* Properties *)

(* What the hook's state declarations say of their values                   *)
ViewTypeOK ==
    /\ view \in {"list", "folder", "left"} /\ loading \in BOOLEAN
    /\ offered \subseteq Shares
    /\ children \in Places \cup {Nowhere} /\ key \in Buffers \cup {NoKey}
    /\ crumbs \in Seq(Places) /\ stack \in Seq(Level)
    /\ nav \subseteq Nav /\ Cardinality(nav) <= 1
    /\ reads \subseteq Buffers
    /\ used \in Seq(Places) /\ Len(used) <= MaxBuffers
    /\ zeroed \subseteq DOMAIN used
    /\ astray \in BOOLEAN /\ overtaken \in BOOLEAN

OpensChildren(b, p) == Live(b) /\ used[b] = p

(* Wherever the user has gone in a shared folder, by rows, [..] or          *)
(* breadcrumbs (navigateToSubfolder, navigateUp, navigateToBreadcrumb), the *)
(* trail ends at what is shown, its key opens it, and so does every key on  *)
(* the stack what it will bring back - unless the answer to a click         *)
(* arrived after the user had gone elsewhere                                *)
PathMatches ==
    view = "folder" /\ ~astray =>
        /\ OpensChildren(key, children) /\ Len(crumbs) = Len(stack) + 1 /\ Last(crumbs) = children
        /\ \A i \in DOMAIN stack :
            stack[i].children = crumbs[i] /\ OpensChildren(stack[i].key, crumbs[i])

(* No key outlives its folder: whatever has been decrypted and not zeroed   *)
(* is the key of the folder shown or of one above it, and in the list or    *)
(* after the page is left there is none - but for overtaken answers         *)
KeysCleared ==
    overtaken \/ \A b \in DOMAIN used :
        Live(b) => view = "folder" /\ (b = key \/ b \in StackKeys)
=============================================================================
