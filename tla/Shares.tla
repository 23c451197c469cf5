-------------------------------- MODULE Shares --------------------------------
(***************************************************************************)
(* Sharing a folder: the API's shares and share keys, the owner's tabs     *)
(* that create, revoke and extend them, and the recipients who hide them.  *)
(*                                                                         *)
(* One folder of one owner.  A share row wraps the folder's key for its    *)
(* recipient; a share key wraps the key of one item of the folder.  Keys   *)
(* are numbered, a row says which one it wraps.  A handler of the API that *)
(* finds a row, changes it and saves it is two steps: save writes the      *)
(* whole row that was found, and inserts it again if it has gone.          *)
(*                                                                         *)
(* Rotation of the folder's key after a revocation (executeLazyRotation)   *)
(* is written but nothing calls it yet: Rotates says whether it is.        *)
(***************************************************************************)
EXTENDS Integers, FiniteSets

CONSTANTS
    Tabs,           \* the owner's browser tabs
    Recipients,
    Items,          \* the files and subfolders the folder may come to hold
    Deep,           \* those of them that are in a subfolder of the folder
    Rotates,        \* whether modifications rotate the key as they are meant to
    MaxShares,      \* bound: share rows
    MaxKeys,        \* bound: keys of the folder
    MaxShareMishaps \* bound: calls that fail half way or are not answered

ASSUME SharesAssumption ==
    /\ Deep \subseteq Items /\ Rotates \in BOOLEAN
    /\ {MaxShares, MaxKeys, MaxShareMishaps} \subseteq Nat
    /\ Tabs \cap Recipients = {}

Ids == 1..MaxShares
Keys == 0..MaxKeys
Actors == Tabs \cup Recipients
Nobody == 0     \* no share id

VARIABLES
    shares,      \* shares: id -> row
    itemKeys,    \* share_keys: id -> items it has the key of
    made,        \* rows inserted so far
    folder,      \* items published in the folder
    sealed,      \* key its published metadata is encrypted with
    newest,      \* the last key generated
    sentShares,  \* tab -> the share store: shares known as sent, once fetched
    dialog,      \* tab -> the share it is creating
    call,        \* actor -> row its call of the API has found, to change and save
    job,         \* item -> the re-wrapping of its key for the recipients
    rotation,    \* tab -> rotation under way
    given,       \* history: who was given which key of the folder
    gaps,        \* history: shares and items known to miss each other
    raced,       \* history: something came between the steps of a rotation
    shareMishaps

sharesVars == <<shares, itemKeys, made, folder, sealed, newest, sentShares, dialog, call,
                job, rotation, given, gaps, raced, shareMishaps>>
shareTables == <<shares, itemKeys, made>>
shareHistory == <<given, gaps, raced, shareMishaps>>

Row == [state : {"none", "active", "revoked"}, to : Recipients \cup {Nobody},
        key : Keys, hidden : BOOLEAN]
NoRow == [state |-> "none", to |-> Nobody, key |-> 0, hidden |-> FALSE]

Call == [kind : {"none", "revoke", "hide", "update", "complete"}, id : Ids \cup {Nobody},
         was : Row]
NoCall == [kind |-> "none", id |-> Nobody, was |-> NoRow]

Dialog == [step : {"closed", "traversed", "looked", "checked", "saved"},
           to : Recipients \cup {Nobody}, items : SUBSET Items, key : Keys,
           id : Ids \cup {Nobody}]
NoDialog == [step |-> "closed", to |-> Nobody, items |-> {}, key |-> 0, id |-> Nobody]

Job == [step : {"none", "find", "asked", "serve"}, tab : Tabs \cup {Nobody}, list : SUBSET Ids]

Rotation == [step : {"none", "update", "complete", "publish"}, key : Keys,
             left : SUBSET Ids, revoked : SUBSET Ids, failed : BOOLEAN]
NoRotation == [step |-> "none", key |-> 0, left |-> {}, revoked |-> {}, failed |-> FALSE]

Active == {s \in Ids : shares[s].state = "active"}
Revoked == {s \in Ids : shares[s].state = "revoked"}
Fetched == {t \in Tabs : sentShares[t].fetched}
Rotating == \E t \in Tabs : rotation[t].step # "none"

(* The partial unique index: one active share of the folder for a recipient *)
Taken(r, s) == \E o \in Active \ {s} : shares[o].to = r

SharesInit ==
    /\ shares = [s \in Ids |-> NoRow] /\ itemKeys = [s \in Ids |-> {}] /\ made = 0
    /\ folder = {} /\ sealed = 0 /\ newest = 0
    /\ sentShares = [t \in Tabs |-> [known |-> {}, fetched |-> FALSE]]
    /\ dialog = [t \in Tabs |-> NoDialog]
    /\ call = [a \in Actors |-> NoCall]
    /\ job = [i \in Items |-> [step |-> "none", tab |-> Nobody, list |-> {}]]
    /\ rotation = [t \in Tabs |-> NoRotation]
    /\ given = {} /\ gaps = {} /\ raced = FALSE /\ shareMishaps = 0

-----------------------------------------------------------------------------
(* Creating a share *)

(* What collectChildKeys reaches *)
Traversed == folder

(* The dialog wraps the folder's key and those of everything it finds in it *)
ShareStart(t, r) ==
    /\ dialog[t].step = "closed"
    /\ dialog' = [dialog EXCEPT ![t] = [step |-> "traversed", to |-> r, items |-> Traversed,
                                        key |-> sealed, id |-> Nobody]]
    /\ UNCHANGED <<shareTables, folder, sealed, newest, sentShares, call, job, rotation,
                   shareHistory>>

(* The dialog is closed, or shows the conflict *)
Shut(t) == dialog' = [dialog EXCEPT ![t] = NoDialog]

(* Mistake: everybody's revoked rows go *)
CleanedAll(r) == Revoked

(* Revoked rows of the recipient make way for the new one, with their keys *)
Cleaned(r) == {s \in Revoked : shares[s].to = r}
RowsWithout(gone) ==
    /\ shares' = [s \in Ids |-> IF s \in gone THEN NoRow ELSE shares[s]]
    /\ itemKeys' = [s \in Ids |-> IF s \in gone THEN {} ELSE itemKeys[s]]

(* An active share of the recipient is a conflict *)
CreateCheck(t) ==
    /\ dialog[t].step = "traversed"
    /\ IF Taken(dialog[t].to, Nobody) THEN Shut(t)
       ELSE dialog' = [dialog EXCEPT ![t].step = "looked"]
    /\ UNCHANGED <<shareTables, folder, sealed, newest, sentShares, call, job, rotation,
                   shareHistory>>

(* Found and removed in one step: a row that is revoked between the two     *)
(* stays beside the new one in the code                                     *)
CreateClean(t) ==
    /\ dialog[t].step = "looked"
    /\ RowsWithout(Cleaned(dialog[t].to))
    /\ dialog' = [dialog EXCEPT ![t].step = "checked"]
    /\ UNCHANGED <<made, folder, sealed, newest, sentShares, call, job, rotation,
                   shareHistory>>

(* Items published since the traversal whose own job has looked already    *)
Overlooked(t) == {i \in folder \ dialog[t].items : job[i].step # "find"}

(* The row, refused if there is an active one by now, then the share keys;  *)
(* these may fail with the row saved                                        *)
CreateSave(t) ==
    LET d == dialog[t]
        s == made + 1
    IN
    /\ d.step = "checked"
    /\ IF Taken(d.to, Nobody)
       THEN Shut(t) /\ UNCHANGED <<shareTables, given, gaps, raced, shareMishaps>>
       ELSE /\ made < MaxShares /\ made' = s
            /\ shares' = [shares EXCEPT ![s] = [state |-> "active", to |-> d.to, key |-> d.key,
                                            hidden |-> FALSE]]
            /\ given' = given \cup {<<d.to, d.key>>}
            /\ raced' = (raced \/ Rotating \/ d.key # sealed)
            /\ \/ /\ itemKeys' = [itemKeys EXCEPT ![s] = d.items]
                  /\ dialog' = [dialog EXCEPT ![t].step = "saved", ![t].id = s]
                  /\ gaps' = gaps \cup ({s} \X Overlooked(t))
                  /\ UNCHANGED shareMishaps
               \/ /\ shareMishaps < MaxShareMishaps /\ shareMishaps' = shareMishaps + 1
                  /\ gaps' = gaps \cup ({s} \X Items)
                  /\ Shut(t) /\ UNCHANGED itemKeys
    /\ UNCHANGED <<folder, sealed, newest, sentShares, call, job, rotation>>

(* The answer: the dialog adds the share to the store *)
Created(t) ==
    /\ dialog[t].step = "saved"
    /\ sentShares' = [sentShares EXCEPT ![t].known = @ \cup {dialog[t].id}]
    /\ Shut(t)
    /\ UNCHANGED <<shareTables, folder, sealed, newest, call, job, rotation,
                   shareHistory>>

(* The call fails before the row is saved, or its answer is lost *)
CreateFails(t) ==
    /\ dialog[t].step \in {"looked", "checked", "saved"}
    /\ shareMishaps < MaxShareMishaps /\ shareMishaps' = shareMishaps + 1
    /\ Shut(t)
    /\ raced' = TRUE
    /\ UNCHANGED <<shareTables, folder, sealed, newest, sentShares, call, job, rotation,
                   given, gaps>>

-----------------------------------------------------------------------------
(* Revoking and hiding: find, then save *)

Finds(a, kind, s) ==
    /\ call[a] = NoCall
    /\ call' = [call EXCEPT ![a] = [kind |-> kind, id |-> s, was |-> shares[s]]]

(* The dialog lists the active shares, the recipient's list what is not hidden *)
Revoke(t, s) ==
    /\ shares[s].state = "active"
    /\ Finds(t, "revoke", s)
    /\ UNCHANGED <<shareTables, folder, sealed, newest, sentShares, dialog, job, rotation,
                   shareHistory>>

HideRow(r, s) ==
    /\ shares[s].state # "none" /\ shares[s].to = r /\ ~shares[s].hidden
    /\ Finds(r, "hide", s)
    /\ UNCHANGED <<shareTables, folder, sealed, newest, sentShares, dialog, job, rotation,
                   shareHistory>>

(* save: refused by the unique index, or the whole row is written *)
RowRefused(row, s) == row.state = "active" /\ Taken(row.to, s)
Written(row, s) == shares' = IF RowRefused(row, s) THEN shares ELSE [shares EXCEPT ![s] = row]

(* The row has changed since it was found: the change is undone.  A share   *)
(* that comes back so has missed what was added meanwhile                   *)
Overtaken(c) == shares[c.id] # c.was
Undone(c) ==
    /\ gaps' = IF Overtaken(c) THEN gaps \cup ({c.id} \X Items) ELSE gaps
    /\ raced' = (raced \/ Overtaken(c) \/ (Rotating /\ c.kind # "update"))

SaveRow(a) ==
    LET c == call[a] IN
    /\ \/ c.kind = "revoke" /\ Written([c.was EXCEPT !.state = "revoked"], c.id)
                            /\ sentShares' = [sentShares EXCEPT ![a].known = @ \ {c.id}]
       \/ c.kind = "hide" /\ Written([c.was EXCEPT !.hidden = TRUE], c.id) /\ UNCHANGED sentShares
    /\ call' = [call EXCEPT ![a] = NoCall]
    /\ Undone(c)
    /\ UNCHANGED <<itemKeys, made, folder, sealed, newest, dialog, job, rotation, given,
                   shareMishaps>>

-----------------------------------------------------------------------------
(* An item added to the folder: its key is wrapped for every recipient *)

AddItem(t, i) ==
    /\ i \notin folder /\ job[i].step = "none"
    /\ folder' = folder \cup {i}
    /\ job' = [job EXCEPT ![i] = [step |-> "find", tab |-> t, list |-> {}]]
    /\ UNCHANGED <<shareTables, sealed, newest, sentShares, dialog, call, rotation,
                   shareHistory>>

(* Mistake: only the item's own folder is looked at *)
CoveringOwn(i, list) == IF i \in Deep THEN {} ELSE list

(* findCoveringShares: the folder of the item, or one above it, is shared   *)
Covering(i, list) == list

Serve(i, list) ==
    LET known == Covering(i, list) IN
    /\ job' = [job EXCEPT ![i].step = IF known = {} THEN "none" ELSE "serve", ![i].list = known]
    /\ gaps' = gaps \cup ((Active \ list) \X {i})

(* The sent shares are asked for unless they were fetched in the last 30 s: *)
(* that may be at any time                                                  *)
JobFind(i) ==
    LET known == sentShares[job[i].tab] IN
    /\ job[i].step = "find"
    /\ \/ known.fetched /\ Serve(i, known.known)
       \/ /\ job' = [job EXCEPT ![i].step = "asked", ![i].list = Active]
          /\ UNCHANGED gaps
    /\ UNCHANGED <<shareTables, folder, sealed, newest, sentShares, dialog, call,
                   rotation, given, raced, shareMishaps>>

SentShares(i) ==
    /\ job[i].step = "asked"
    /\ sentShares' = [sentShares EXCEPT ![job[i].tab] = [known |-> job[i].list, fetched |-> TRUE]]
    /\ Serve(i, job[i].list)
    /\ UNCHANGED <<shareTables, folder, sealed, newest, dialog, call, rotation, given,
                   raced, shareMishaps>>

(* They cannot be fetched: that is logged, and nobody is served *)
SentSharesFail(i) ==
    /\ job[i].step = "asked"
    /\ shareMishaps < MaxShareMishaps /\ shareMishaps' = shareMishaps + 1
    /\ Serve(i, {})
    /\ UNCHANGED <<shareTables, folder, sealed, newest, sentShares, dialog, call,
                   rotation, given, raced>>

(* addShareKeys for one share; it may have been revoked, or removed *)
Served(i, s) ==
    job' = [job EXCEPT ![i].list = @ \ {s},
                       ![i].step = IF job[i].list = {s} THEN "none" ELSE @]

AddShareKeys(i, s) ==
    /\ job[i].step = "serve" /\ s \in job[i].list
    /\ itemKeys' = IF shares[s].state = "none" THEN itemKeys
                   ELSE [itemKeys EXCEPT ![s] = @ \cup {i}]
    /\ Served(i, s)
    /\ UNCHANGED <<shares, made, folder, sealed, newest, sentShares, dialog, call,
                   rotation, shareHistory>>

(* A failure is logged, and the next recipient is served *)
AddKeysFails(i, s) ==
    /\ job[i].step = "serve" /\ s \in job[i].list
    /\ shareMishaps < MaxShareMishaps /\ shareMishaps' = shareMishaps + 1
    /\ gaps' = gaps \cup {<<s, i>>}
    /\ Served(i, s)
    /\ UNCHANGED <<shareTables, folder, sealed, newest, sentShares, dialog, call,
                   rotation, given, raced>>

-----------------------------------------------------------------------------
(* Rotation *)

(* Where a rotation stands once its first list, then its second, is empty: *)
(* it is given up after the first if an update failed, and leaves the rows  *)
(* that it has changed                                                      *)
RotationStage(r) ==
    IF r.left = {} /\ r.failed THEN NoRotation
    ELSE [r EXCEPT !.step = IF r.left # {} THEN "update"
                            ELSE IF r.revoked # {} THEN "complete" ELSE "publish"]

(* The pending rotations and the sent shares; the key is changed only if    *)
(* one is pending                                                           *)
RotateStart(t) == \E list \in {Active} \cup {sentShares[o].known : o \in {t} \cap Fetched} :
    /\ Rotates /\ rotation[t] = NoRotation /\ call[t] = NoCall
    /\ Revoked # {} /\ newest < MaxKeys
    /\ newest' = newest + 1
    /\ rotation' = [rotation EXCEPT ![t] = RotationStage([step |-> "update", key |-> newest + 1,
                                                  left |-> list \ Revoked, revoked |-> Revoked,
                                                  failed |-> FALSE])]
    /\ sentShares' = [sentShares EXCEPT ![t] = [known |-> list, fetched |-> TRUE]]
    /\ raced' = (raced \/ Rotating \/ Active # list
                       \/ \E o \in Tabs : dialog[o].step # "closed")
    /\ UNCHANGED <<shareTables, folder, sealed, dialog, call, job, given, gaps,
                   shareMishaps>>

(* updateShareEncryptedKey and completeRotation, each found and then saved  *)
RotateFinds(t, s) ==
    LET r == rotation[t] IN
    /\ \/ /\ r.step = "update" /\ s \in r.left /\ shares[s].state # "none"
          /\ Finds(t, "update", s)
       \/ /\ r.step = "complete" /\ s \in r.revoked /\ shares[s].state = "revoked"
          /\ Finds(t, "complete", s)
    /\ UNCHANGED <<shareTables, folder, sealed, newest, sentShares, dialog, job, rotation,
                   shareHistory>>

RotateUpdates(t) ==
    LET c == call[t] IN
    /\ c.kind = "update"
    /\ Written([c.was EXCEPT !.key = rotation[t].key], c.id)
    /\ call' = [call EXCEPT ![t] = NoCall]
    /\ rotation' = [rotation EXCEPT ![t] = RotationStage([rotation[t] EXCEPT !.left = @ \ {c.id}])]
    /\ given' = given \cup {<<c.was.to, rotation[t].key>>}
    /\ Undone(c)
    /\ UNCHANGED <<itemKeys, made, folder, sealed, newest, sentShares, dialog, job,
                   shareMishaps>>

RotateCompletes(t) ==
    LET c == call[t] IN
    /\ c.kind = "complete"
    /\ RowsWithout({c.id})
    /\ call' = [call EXCEPT ![t] = NoCall]
    /\ rotation' = [rotation EXCEPT ![t] = RotationStage([rotation[t] EXCEPT !.revoked = @ \ {c.id}])]
    /\ UNCHANGED <<made, folder, sealed, newest, sentShares, dialog, job, shareHistory>>

(* The row has gone (404), or the call fails.  The other updates are made   *)
(* nevertheless; a completion that fails is only logged                     *)
RotateMisses(t, s) ==
    LET r == rotation[t] IN
    /\ call[t] = NoCall
    /\ \/ /\ r.step = "update" /\ s \in r.left
          /\ rotation' = [rotation EXCEPT ![t] = RotationStage([r EXCEPT !.left = @ \ {s},
                                                                       !.failed = TRUE])]
       \/ /\ r.step = "complete" /\ s \in r.revoked
          /\ rotation' = [rotation EXCEPT ![t] = RotationStage([r EXCEPT !.revoked = @ \ {s}])]
    /\ \/ /\ shares[s].state = "none" \/ (r.step = "complete" /\ shares[s].state = "active")
          /\ UNCHANGED shareMishaps
       \/ shareMishaps < MaxShareMishaps /\ shareMishaps' = shareMishaps + 1
    /\ raced' = TRUE
    /\ UNCHANGED <<shareTables, folder, sealed, newest, sentShares, dialog, call, job,
                   given, gaps>>

(* The sent shares are emptied, and count as fetched now; the folder is     *)
(* published under the new key                                              *)
RotatePublish(t) ==
    /\ rotation[t].step = "publish"
    /\ sentShares' = [sentShares EXCEPT ![t] = [known |-> {}, fetched |-> TRUE]]
    /\ sealed' = rotation[t].key
    /\ rotation' = [rotation EXCEPT ![t] = NoRotation]
    /\ UNCHANGED <<shareTables, folder, newest, dialog, call, job, shareHistory>>

RotateFails(t) ==
    /\ rotation[t].step # "none" /\ call[t] = NoCall
    /\ shareMishaps < MaxShareMishaps /\ shareMishaps' = shareMishaps + 1
    /\ rotation' = [rotation EXCEPT ![t] = NoRotation]
    /\ raced' = TRUE
    /\ UNCHANGED <<shareTables, folder, sealed, newest, sentShares, dialog, call, job,
                   given, gaps>>

-----------------------------------------------------------------------------
SharesNext ==
    \/ \E t \in Tabs :
        \/ CreateCheck(t) \/ CreateClean(t) \/ CreateSave(t) \/ Created(t) \/ CreateFails(t)
        \/ RotateStart(t) \/ RotateUpdates(t) \/ RotateCompletes(t) \/ RotatePublish(t)
        \/ RotateFails(t)
        \/ \E r \in Recipients : ShareStart(t, r)
        \/ \E s \in Ids : Revoke(t, s) \/ RotateFinds(t, s) \/ RotateMisses(t, s)
        \/ \E i \in Items : AddItem(t, i)
    \/ \E r \in Recipients, s \in Ids : HideRow(r, s)
    \/ \E a \in Actors : SaveRow(a)
    \/ \E i \in Items :
        \/ JobFind(i) \/ SentShares(i) \/ SentSharesFail(i)
        \/ \E s \in Ids : AddShareKeys(i, s) \/ AddKeysFails(i, s)

SharesSpec == SharesInit /\ [][SharesNext]_sharesVars

-----------------------------------------------------------------------------
(* The types of the variables *)
SharesTypeOK ==
    /\ shares \in [Ids -> Row] /\ itemKeys \in [Ids -> SUBSET Items] /\ made \in 0..MaxShares
    /\ folder \subseteq Items /\ sealed \in Keys /\ newest \in Keys
    /\ sentShares \in [Tabs -> [known : SUBSET Ids, fetched : BOOLEAN]]
    /\ dialog \in [Tabs -> Dialog] /\ call \in [Actors -> Call]
    /\ job \in [Items -> Job] /\ rotation \in [Tabs -> Rotation]
    /\ given \subseteq (Recipients \cup {Nobody}) \X Keys /\ gaps \subseteq Ids \X Items
    /\ raced \in BOOLEAN /\ shareMishaps \in 0..MaxShareMishaps

(* Every active share has the key of every item of the folder, once the     *)
(* calls that bring it have ended; but for the shares the owner's tab could *)
(* not know of when the item was added, and for calls that failed.          *)
Covered ==
    \A s \in Active, i \in folder :
        \/ i \in itemKeys[s] \/ <<s, i>> \in gaps
        \/ job[i].step # "none"

(* Whoever was given the key the folder is encrypted with has a row, active *)
(* or waiting for a rotation: nobody is forgotten when rows are removed,    *)
(* unless a call failed or came between the steps of a rotation.            *)
Listed(r) == \E s \in Ids : shares[s].state # "none" /\ shares[s].to = r

HoldersListed ==
    \/ raced \/ Rotating
    \/ \A r \in Recipients :
        <<r, sealed>> \in given => Listed(r) \/ \E t \in Tabs :
            dialog[t].step = "checked" /\ dialog[t].to = r

(* A rotation that nothing disturbs leaves the active shares, all of them,  *)
(* with the key the folder is now encrypted with, and no other share.       *)
KeysFit ==
    \/ raced \/ Rotating
    \/ \A s \in Ids : shares[s].state = "active" => shares[s].key = sealed
=============================================================================
