----------------------------- MODULE FileVersions -----------------------------
(***************************************************************************)
(* The content of one file and its kept versions, in the file's own IPNS    *)
(* record: text editors that save new content, and details dialogs that     *)
(* restore or delete one of the versions they show, in several tabs.        *)
(*                                                                         *)
(* A content stands for its CID, key and initialisation vector.             *)
(***************************************************************************)
EXTENDS Naturals, Sequences, FiniteSets, SequencesExt

CONSTANTS
    Editors,     \* dialogs on the file, in one tab or in several
    Contents,    \* contents the file may have, each encrypted once
    MaxVersions, \* MAX_VERSIONS_PER_FILE
    MaxOps,      \* bound: saves, restores and deletes
    MaxFailures  \* bound: failing calls

ASSUME VersionsAssumption ==
    /\ Contents \subseteq Nat /\ Contents # {}
    /\ {MaxVersions, MaxOps, MaxFailures} \subseteq Nat /\ MaxVersions > 0

VARIABLES
    record, \* the file's record: its number, its content, its versions
    kept,   \* contents the IPFS node has pinned
    editor, \* editor -> its dialog and the operation it waits for
    counts, \* operations and failures so far
    past    \* history, see History

versionVars == <<record, kept, editor, counts, past>>

VersionRecord == [seq : Nat, cur : Contents, versions : Seq(Contents)]
Op == {"none", "save", "restore", "delete"}
(* shown: the record the dialog shows; meta: the one the operation read;    *)
(* next: the one it publishes; drop: the contents it then unpins            *)
Editor == [st : {"closed", "shown", "reading", "resolving", "publishing"}, op : Op,
           shown : VersionRecord, meta : VersionRecord, index : Nat, new : Contents,
           next : VersionRecord, drop : SUBSET Contents]

(* raced: two operations ran at once; deleted: contents a user deleted;     *)
(* overwritten: those replaced before the newest version was old enough;    *)
(* outdated: those that were the oldest of a full list; ever: those that    *)
(* were the file's content                                                  *)
VersionHistory == [raced : BOOLEAN, deleted : SUBSET Contents, overwritten : SUBSET Contents,
            outdated : SUBSET Contents, ever : SUBSET Contents]

First == CHOOSE c \in Contents : TRUE
FirstRecord == [seq |-> 1, cur |-> First, versions |-> <<>>]

VersionsInit ==
    /\ record = FirstRecord /\ kept = {First}
    /\ editor = [e \in Editors |-> [st |-> "closed", op |-> "none", shown |-> FirstRecord,
                    meta |-> FirstRecord, index |-> 0, new |-> First, next |-> FirstRecord, drop |-> {}]]
    /\ counts = [ops |-> 0, failures |-> 0]
    /\ past = [raced |-> FALSE, deleted |-> {}, overwritten |-> {}, outdated |-> {}, ever |-> {First}]

-----------------------------------------------------------------------------
(* What the operations make of a record *)

Without(s, i) == SubSeq(s, 1, i - 1) \o SubSeq(s, i + 1, Len(s))
Upto(s) == SubSeq(s, 1, IF Len(s) < MaxVersions THEN Len(s) ELSE MaxVersions)
Beyond(s) == ToSet(SubSeq(s, MaxVersions + 1, Len(s)))

(* updateFileMetadata: what was there becomes the newest version            *)
WithCurrent(m) == <<m.cur>> \o m.versions
Saved(m, new, createVersion) ==
    [cur |-> new, versions |-> IF createVersion THEN Upto(WithCurrent(m)) ELSE m.versions,
     drop |-> IF createVersion THEN Beyond(WithCurrent(m)) ELSE {}]

(* Mistake: the content does not become a version *)
ExchangedLosing(m, i) == Without(m.versions, i)

(* restoreVersion: the list loses one version and gains the content         *)
Exchanged(m, i) == <<m.cur>> \o Without(m.versions, i)

(* Mistake: the version restored stays in the list *)
RestoredSwapped(m, i) ==
    [cur |-> m.versions[i], versions |-> Upto(<<m.cur>> \o m.versions),
     drop |-> Beyond(<<m.cur>> \o m.versions)]

Restored(m, i) ==
    [cur |-> m.versions[i], versions |-> Upto(Exchanged(m, i)), drop |-> Beyond(Exchanged(m, i))]

(* deleteVersion                                                            *)
Deleted(m, i) ==
    [cur |-> m.cur, versions |-> Without(m.versions, i), drop |-> {m.versions[i]}]

-----------------------------------------------------------------------------
Busy(e) == editor[e].st \in {"reading", "resolving", "publishing"}
Edits(e, w) == editor' = [editor EXCEPT ![e] = w]
NotBusy(e) == [editor[e] EXCEPT !.st = "shown", !.op = "none", !.drop = {}]

(* The dialog opens, or shows the file anew                                 *)
Show(e) ==
    /\ editor[e].st \in {"closed", "shown"}
    /\ editor[e].st = "closed" \/ editor[e].shown # record
    /\ Edits(e, [NotBusy(e) EXCEPT !.shown = record])
    /\ UNCHANGED <<record, kept, counts, past>>

Starts(e, w) ==
    /\ editor[e].st = "shown" /\ counts.ops < MaxOps
    /\ counts' = [counts EXCEPT !.ops = @ + 1]
    /\ Edits(e, w)
    /\ past' = [past EXCEPT !.raced = @ \/ \E d \in Editors \ {e} : Busy(d)]
    /\ UNCHANGED record

Fresh == Contents \ (kept \cup past.ever)

(* handleSave: the new content is uploaded before the record is read        *)
Save(e) ==
    \E c \in Fresh :
        /\ \A d \in Fresh : c <= d
        /\ Starts(e, [editor[e] EXCEPT !.st = "reading", !.op = "save", !.new = c])
        /\ kept' = kept \cup {c}

(* Confirmed on one of the rows shown                                       *)
Confirm(e, op, i) ==
    /\ i \in 1..Len(editor[e].shown.versions)
    /\ Starts(e, [editor[e] EXCEPT !.st = "reading", !.op = op, !.index = i])
    /\ UNCHANGED kept

Fails(e) ==
    /\ Busy(e) /\ counts.failures < MaxFailures
    /\ counts' = [counts EXCEPT !.failures = @ + 1]
    /\ Edits(e, NotBusy(e))
    /\ UNCHANGED <<record, kept, past>>

(* resolveFileMetadata: an operation works on the record as it is now       *)
Proceeds(e, m, r, h) ==
    /\ Edits(e, [editor[e] EXCEPT !.st = "resolving", !.meta = m, !.drop = r.drop,
                    !.next = [seq |-> 0, cur |-> r.cur, versions |-> r.versions]])
    /\ past' = h
    /\ UNCHANGED <<record, kept, counts>>
Reads(e, op) == editor[e].st = "reading" /\ editor[e].op = op

(* shouldCreateVersion: always the first, later ones after the cooldown     *)
MayCreateVersion(m) == IF m.versions = <<>> THEN {TRUE} ELSE BOOLEAN
Pruned(m) == IF Len(m.versions) = MaxVersions THEN {Last(m.versions)} ELSE {}
ReadForSave(e) ==
    /\ Reads(e, "save")
    /\ \E createVersion \in MayCreateVersion(record) :
        Proceeds(e, record, Saved(record, editor[e].new, createVersion),
            IF createVersion THEN [past EXCEPT !.outdated = @ \cup Pruned(record)]
            ELSE [past EXCEPT !.overwritten = @ \cup {record.cur}])

(* 'Invalid version index'                                                  *)
NoSuchVersion(e) ==
    /\ Reads(e, "restore") \/ Reads(e, "delete")
    /\ editor[e].index > Len(record.versions)
    /\ Edits(e, NotBusy(e)) /\ UNCHANGED <<record, kept, counts, past>>
ReadForRestore(e) ==
    /\ Reads(e, "restore") /\ editor[e].index <= Len(record.versions)
    /\ Proceeds(e, record, Restored(record, editor[e].index), past)
ReadForDelete(e) ==
    LET i == editor[e].index IN
    /\ Reads(e, "delete") /\ i <= Len(record.versions)
    /\ Proceeds(e, record, Deleted(record, i), [past EXCEPT !.deleted = @ \cup {record.versions[i]}])

(* The number is resolved after the record's content was read               *)
Resolve(e) ==
    /\ editor[e].st = "resolving"
    /\ Edits(e, [editor[e] EXCEPT !.st = "publishing", !.next.seq = record.seq + 1])
    /\ UNCHANGED <<record, kept, counts, past>>

Unpinned(w) == kept \ w.drop

(* Published and answered: onRestored reads the record again, or the editor *)
(* closes; what was pruned or deleted is unpinned                           *)
Publish(e) ==
    LET w == editor[e] accepted == w.next.seq >= record.seq IN
    /\ w.st = "publishing"
    /\ record' = IF accepted THEN w.next ELSE record
    /\ past' = [past EXCEPT !.ever = IF accepted THEN @ \cup {w.next.cur} ELSE @]
    /\ \/ /\ kept' = Unpinned(w) /\ UNCHANGED counts
          /\ Edits(e, [NotBusy(e) EXCEPT !.st = IF w.op = "save" THEN "closed" ELSE "shown", !.shown = record'])
       \/ /\ counts.failures < MaxFailures /\ counts' = [counts EXCEPT !.failures = @ + 1]
          /\ UNCHANGED kept /\ Edits(e, NotBusy(e))

VersionsNext ==
    \E e \in Editors :
        \/ Show(e) \/ Save(e) \/ Resolve(e) \/ Publish(e) \/ Fails(e)
        \/ ReadForSave(e) \/ ReadForRestore(e) \/ ReadForDelete(e) \/ NoSuchVersion(e)
        \/ \E op \in {"restore", "delete"}, i \in 1..MaxVersions : Confirm(e, op, i)

VersionsSpec == VersionsInit /\ [][VersionsNext]_versionVars

-----------------------------------------------------------------------------
VersionsTypeOK ==
    /\ record \in VersionRecord /\ Len(record.versions) <= MaxVersions
    /\ kept \subseteq Contents /\ editor \in [Editors -> Editor]
    /\ counts \in [ops : 0..MaxOps, failures : 0..MaxFailures] /\ past \in VersionHistory

InRecord == {record.cur} \cup ToSet(record.versions)

(* Everything the file's record lists can be fetched: no save, restore or   *)
(* delete, in whatever order, unpins a content the record still names,      *)
(* unless two of them overlapped.                                           *)
VersionsReadable == past.raced \/ InRecord \subseteq kept

(* "Old CIDs are preserved as version history": what was once the content   *)
(* still is, or is a version, unless the user deleted it, it was replaced   *)
(* within the cooldown, it was the oldest of a full list when one more came *)
(* in, or operations overlapped.                                            *)
VersionsKept ==
    past.raced \/ past.ever \ (past.deleted \cup past.overwritten \cup past.outdated) \subseteq InRecord
=============================================================================
