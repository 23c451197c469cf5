------------------------------ MODULE MountFiles ------------------------------
(***************************************************************************)
(* One file of the desktop's mounted vault: the handles it is read and      *)
(* written through, the uploads its releases start, the caches reads are    *)
(* served from, its versions and the record that other devices read.        *)
(* Files share nothing but a bounded cache, so one file stands for all;     *)
(* the folder that lists it is in MountFolders.                             *)
(*                                                                         *)
(* A text is the set of the writes it holds.  The n-th content uploaded has *)
(* CID n and is encrypted under key n; it opens only with that key.         *)
(***************************************************************************)
EXTENDS Integers, Sequences, FiniteSets

CONSTANTS
    Handles,       \* file handles
    MaxUploads,    \* bound: contents of the file
    MaxEdits,      \* bound: writes
    MaxVersions,   \* versions kept (MAX_VERSIONS_PER_FILE, 10 in the code)
    MaxFileMishaps \* bound: failures, lost answers and ends of the process

ASSUME FileAssumption ==
    /\ {MaxUploads, MaxEdits, MaxFileMishaps} \subseteq Nat
    /\ MaxVersions \in Nat \ {0} /\ MaxUploads > 0

Cids == 0..MaxUploads
NoCid == 0                     \* the empty CID of a file not uploaded
Stored == 1                    \* the content a file has before it is mounted
Edits == 0..MaxEdits
Text == SUBSET Edits
Empty == {}

Version == [cid : Cids, key : Cids]
Versions == UNION {[1..n -> Version] : n \in 0..MaxVersions}

VARIABLES
    file,         \* the file's inode
    text,         \* CID -> the text encrypted under it
    pins,         \* CIDs the API keeps
    pending,      \* the text of a release not uploaded yet, at most one
    cache,        \* content cache: CIDs with their text
    fetching,     \* contents being prefetched
    handle,       \* handle -> what is open through it
    uploads,      \* upload threads
    done,         \* completed uploads, to be drained
    fileRecord,   \* what the file's IPNS name resolves to
    fileSeqCache, \* the coordinator's number, -1 if none
    newest,       \* the last CID given out
    edits,        \* writes made
    latest,       \* history: the text last released
    hurried,      \* history: something was not given the time it needs
    fileMishaps

session == <<pending, cache, fetching, handle, uploads, done, fileSeqCache>>
filesVars == <<file, text, pins, pending, cache, fetching, handle, uploads, done,
              fileRecord, fileSeqCache, newest, edits, latest, hurried, fileMishaps>>

State == {"none", "unresolved", "live", "deleted"}
FileInode == [st : State, cid : Cids, key : Cids, versions : Versions]
NoInode == [st |-> "none", cid |-> NoCid, key |-> NoCid, versions |-> <<>>]

FileRecord == [seq : Int, cid : Cids, key : Cids, versions : Versions]
NeverPublished == [seq |-> -1, cid |-> NoCid, key |-> NoCid, versions |-> <<>>]

(* cached: the plaintext a read handle keeps, at most one *)
(* "lost": the temporary file of a write handle is gone *)
Handle == [mode : {"closed", "read", "write", "lost"}, text : Text, dirty : BOOLEAN,
           cached : SUBSET Text]
Closed == [mode |-> "closed", text |-> Empty, dirty |-> FALSE, cached |-> {}]

(* new_write, write_at and truncate, on a handle's temporary file           *)
WriteHandle(t) == [Closed EXCEPT !.mode = "write", !.text = t]
Written(hd, edit) == [hd EXCEPT !.text = @ \cup {edit}, !.dirty = TRUE]
Truncated(hd) == [hd EXCEPT !.text = Empty, !.dirty = TRUE]

(* named: the file has a record of its own to be published *)
Upload == [nth : Cids, named : BOOLEAN, versions : Versions, pruned : SUBSET Cids,
           stage : {"upload", "resolve", "publish"}, seq : Int]

(* The inode of a file whose pointer has been resolved to record r *)
Resolved(r) == [st |-> "live", cid |-> r.cid, key |-> r.key, versions |-> r.versions]
Unresolved == [NoInode EXCEPT !.st = "unresolved"]

FilesInit ==
    /\ \/ file = NoInode /\ fileRecord = NeverPublished /\ newest = 0 /\ latest = Empty
       \/ /\ fileRecord = [seq |-> 0, cid |-> Stored, key |-> Stored, versions |-> <<>>]
          /\ file = Resolved(fileRecord)
          /\ newest = Stored /\ latest = {0}
    /\ text = [c \in Cids |-> IF c = Stored THEN latest ELSE Empty]
    /\ pins = {newest} \ {NoCid}
    /\ pending = {} /\ cache = {} /\ fetching = {} /\ uploads = {} /\ done = <<>>
    /\ handle = [h \in Handles |-> Closed]
    /\ fileSeqCache = -1 /\ edits = 0 /\ hurried = FALSE /\ fileMishaps = 0

-----------------------------------------------------------------------------
(* Reading *)

IsThere == file.st \in {"unresolved", "live"}
Outstanding == uploads # {} \/ done # <<>>
Cached(c) == {e \in cache : e.cid = c}
Opens(c, k) == c \in pins /\ k = c

(* The cache replaces an entry, and may evict others to make room *)
Remember(c, t) ==
    \E left \in SUBSET (cache \ Cached(c)) : cache' = left \cup {[cid |-> c, text |-> t]}

(* A prefetch is started unless the content is here or on its way          *)
Prefetch ==
    fetching' = IF file.cid = NoCid \/ Cached(file.cid) # {}
                     \/ \E f \in fetching : f.cid = file.cid
                THEN fetching ELSE fetching \cup {[cid |-> file.cid, key |-> file.key]}

OpenRead(h) ==
    /\ IsThere /\ handle[h].mode = "closed"
    /\ handle' = [handle EXCEPT ![h].mode = "read"]
    /\ Prefetch
    /\ UNCHANGED <<file, text, pins, pending, cache, uploads, done, fileRecord,
                   fileSeqCache, newest, edits, latest, hurried, fileMishaps>>

(* drain_content_prefetches: the content, or nothing if it does not open   *)
ContentFetched(f) ==
    /\ fetching' = fetching \ {f}
    /\ IF Opens(f.cid, f.key) THEN Remember(f.cid, text[f.cid]) ELSE UNCHANGED cache
    /\ UNCHANGED <<file, text, pins, pending, handle, uploads, done, fileRecord,
                   fileSeqCache, newest, edits, latest, hurried, fileMishaps>>

FetchFails(f) ==
    /\ fetching' = fetching \ {f}
    /\ UNCHANGED <<file, text, pins, pending, cache, handle, uploads, done, fileRecord,
                   fileSeqCache, newest, edits, latest, hurried, fileMishaps>>

(* A read through a read handle keeps what it found in the cache           *)
Read(h) ==
    /\ IsThere /\ handle[h].mode = "read" /\ file.cid # NoCid
    /\ handle[h].cached = {}
    /\ IF Cached(file.cid) # {}
         THEN /\ handle' = [handle EXCEPT ![h].cached = {e.text : e \in Cached(file.cid)}]
              /\ UNCHANGED fetching
         ELSE Prefetch /\ UNCHANGED handle
    /\ UNCHANGED <<file, text, pins, pending, cache, uploads, done, fileRecord,
                   fileSeqCache, newest, edits, latest, hurried, fileMishaps>>

-----------------------------------------------------------------------------
(* Writing *)

CreateFile(h) ==
    /\ file.st = "none"
    /\ file' = [NoInode EXCEPT !.st = "live"]
    /\ handle' = [handle EXCEPT ![h] = WriteHandle(Empty)]
    /\ UNCHANGED <<text, pins, pending, cache, fetching, uploads, done, fileRecord,
                   fileSeqCache, newest, edits, latest, hurried, fileMishaps>>

(* The temporary file starts from the file's text, from the cache or       *)
(* fetched; with no CID it starts empty, whatever is pending               *)
OpenToWrite(h) ==
    /\ IsThere /\ handle[h].mode = "closed"
    /\ file.cid # NoCid => Cached(file.cid) # {} \/ Opens(file.cid, file.key)
    /\ \E t \in IF file.cid = NoCid THEN {Empty}
                ELSE IF Cached(file.cid) # {} THEN {e.text : e \in Cached(file.cid)}
                ELSE {text[file.cid]} :
         /\ handle' = [handle EXCEPT ![h] = WriteHandle(t)]
         /\ hurried' = (hurried \/ (file.cid = NoCid /\ latest # Empty))
    /\ UNCHANGED <<file, text, pins, pending, cache, fetching, uploads, done, fileRecord,
                   fileSeqCache, newest, edits, latest, fileMishaps>>

Write(h) ==
    /\ handle[h].mode = "write" /\ edits < MaxEdits
    /\ edits' = edits + 1
    /\ handle' = [handle EXCEPT ![h] = Written(@, edits + 1)]
    /\ UNCHANGED <<file, text, pins, pending, cache, fetching, uploads, done, fileRecord,
                   fileSeqCache, newest, latest, hurried, fileMishaps>>

(* setattr to size 0 *)
Truncate(h) ==
    /\ handle[h].mode = "write"
    /\ handle' = [handle EXCEPT ![h] = Truncated(@)]
    /\ UNCHANGED <<file, text, pins, pending, cache, fetching, uploads, done, fileRecord,
                   fileSeqCache, newest, edits, latest, hurried, fileMishaps>>

(* A first version is always made, a later one if the newest is 15 minutes *)
(* old; a file not uploaded yet has nothing to keep                        *)
AllVersions(aged) ==
    IF file.cid # NoCid /\ (file.versions = <<>> \/ aged)
      THEN <<[cid |-> file.cid, key |-> file.key]>> \o file.versions
      ELSE file.versions

(* Mistake: one version too many is unpinned *)
PrunedEarly(all) == {all[i].cid : i \in MaxVersions..Len(all)}

Pruned(all) == {all[i].cid : i \in (MaxVersions + 1)..Len(all)}
Kept(all) == SubSeq(all, 1, IF Len(all) > MaxVersions THEN MaxVersions ELSE Len(all))

(* Written to, or never uploaded *)
NeedsUpload(h) == handle[h].dirty \/ (IsThere /\ file.cid = NoCid)

Close(h) ==
    /\ \/ handle[h].mode \in {"read", "lost"}
       \/ handle[h].mode = "write" /\ ~NeedsUpload(h)
    /\ handle' = [handle EXCEPT ![h] = Closed]
    /\ UNCHANGED <<file, text, pins, pending, cache, fetching, uploads, done, fileRecord,
                   fileSeqCache, newest, edits, latest, hurried, fileMishaps>>

(* Mistake: the inode keeps the CID under the new key *)
AwaitingOld(r, all) == [st |-> "live", cid |-> file.cid, key |-> r, versions |-> Kept(all)]

(* The inode until its upload is drained, and the upload's thread          *)
Awaiting(r, all) == [st |-> "live", cid |-> NoCid, key |-> r, versions |-> Kept(all)]
Started(r, all) == [nth |-> r, named |-> IsThere, versions |-> Kept(all),
                    pruned |-> Pruned(all), stage |-> "upload", seq |-> -1]

(* release of a write handle.  The file is encrypted under a new key, its  *)
(* inode loses its CID until the upload is drained, and a thread uploads.  *)
ReleaseFile(h) ==
    LET r == newest + 1 IN
    /\ handle[h].mode = "write" /\ NeedsUpload(h)
    /\ r \in Cids
    /\ newest' = r
    /\ text' = [text EXCEPT ![r] = handle[h].text]
    /\ pending' = {handle[h].text}
    /\ \E aged \in BOOLEAN :
         LET all == IF IsThere THEN AllVersions(aged) ELSE <<>> IN
         /\ file' = IF IsThere THEN Awaiting(r, all) ELSE file
         /\ uploads' = uploads \cup {Started(r, all)}
    /\ handle' = [handle EXCEPT ![h] = Closed]
    /\ latest' = handle[h].text
    /\ hurried' = (hurried \/ Outstanding)
    /\ UNCHANGED <<pins, cache, fetching, done, fileRecord, fileSeqCache, edits,
                   fileMishaps>>

Unlink ==
    /\ IsThere
    /\ file' = [file EXCEPT !.st = "deleted"]
    /\ pins' = pins \ {file.cid}
    /\ UNCHANGED <<text, pending, cache, fetching, handle, uploads, done, fileRecord,
                   fileSeqCache, newest, edits, latest, hurried, fileMishaps>>

-----------------------------------------------------------------------------
(* The upload thread, and what the file system thread makes of it *)

Uploaded(u) ==
    /\ u.stage = "upload"
    /\ pins' = pins \cup {u.nth}
    /\ done' = Append(done, [cid |-> u.nth, pruned |-> u.pruned])
    /\ uploads' = (uploads \ {u}) \cup (IF u.named THEN {[u EXCEPT !.stage = "resolve"]} ELSE {})
    /\ UNCHANGED <<file, text, pending, cache, fetching, handle, fileRecord, fileSeqCache,
                   newest, edits, latest, hurried, fileMishaps>>

(* drain_upload_completions, one completion *)
Drain ==
    LET c == Head(done).cid IN
    /\ done # <<>>
    /\ done' = Tail(done)
    /\ file' = IF IsThere /\ file.cid = NoCid THEN [file EXCEPT !.cid = c] ELSE file
    /\ pending' = {}
    /\ IF pending = {} THEN UNCHANGED cache ELSE \E t \in pending : Remember(c, t)
    /\ pins' = pins \ Head(done).pruned
    /\ UNCHANGED <<text, fetching, handle, uploads, fileRecord, fileSeqCache, newest,
                   edits, latest, hurried, fileMishaps>>

(* publish_file_metadata: the number is resolved without a lock, and may be *)
(* an old one                                                              *)
ResolveFile(u) ==
    /\ u.stage = "resolve"
    /\ \E n \in 0..fileRecord.seq \cup ({fileSeqCache} \ {-1}) :
         LET seq == IF n > fileSeqCache THEN n ELSE fileSeqCache IN
         /\ uploads' = (uploads \ {u}) \cup {[u EXCEPT !.stage = "publish", !.seq = seq]}
         /\ fileSeqCache' = seq
         /\ hurried' = (hurried \/ (fileSeqCache = -1 /\ n < fileRecord.seq))
    /\ UNCHANGED <<file, text, pins, pending, cache, fetching, handle, done, fileRecord,
                   newest, edits, latest, fileMishaps>>

(* A name never published does not resolve: the publish is given up        *)
NameNotFound(u) ==
    /\ u.stage = "resolve" /\ fileRecord.seq = -1 /\ fileSeqCache = -1
    /\ uploads' = uploads \ {u}
    /\ UNCHANGED <<file, text, pins, pending, cache, fetching, handle, done, fileRecord,
                   fileSeqCache, newest, edits, latest, hurried, fileMishaps>>

AcceptFile(u) ==
    fileRecord' = IF u.seq + 1 >= fileRecord.seq
                THEN [seq |-> u.seq + 1, cid |-> u.nth, key |-> u.nth, versions |-> u.versions]
                ELSE fileRecord

RecordFilePublish(n) == IF n > fileSeqCache THEN n ELSE fileSeqCache

PublishFile(u) ==
    /\ u.stage = "publish"
    /\ AcceptFile(u)
    /\ fileSeqCache' = RecordFilePublish(u.seq + 1)
    /\ uploads' = uploads \ {u}
    /\ UNCHANGED <<file, text, pins, pending, cache, fetching, handle, done,
                   newest, edits, latest, hurried, fileMishaps>>

(* An upload, a resolve or a publish fails, logged and not tried again; or *)
(* the publish takes effect and its answer is lost                         *)
ThreadFails(u) ==
    /\ fileMishaps < MaxFileMishaps
    /\ fileMishaps' = fileMishaps + 1
    /\ uploads' = uploads \ {u}
    /\ UNCHANGED fileRecord \/ (u.stage = "publish" /\ AcceptFile(u))
    /\ hurried' = TRUE
    /\ UNCHANGED <<file, text, pins, pending, cache, fetching, handle, done, fileSeqCache,
                   newest, edits, latest>>

-----------------------------------------------------------------------------
(* The process ends and the vault is mounted again: the file's pointer is  *)
(* resolved, or not yet.  The folder is taken to list what it listed.      *)
Remount ==
    /\ fileMishaps < MaxFileMishaps
    /\ fileMishaps' = fileMishaps + 1
    /\ IF ~IsThere THEN UNCHANGED file
       ELSE file' \in {Unresolved} \cup (IF fileRecord.seq >= 0 THEN {Resolved(fileRecord)} ELSE {})
    /\ pending' = {} /\ cache' = {} /\ fetching' = {} /\ uploads' = {} /\ done' = <<>>
    /\ handle' = [h \in Handles |-> Closed]
    /\ fileSeqCache' = -1
    /\ hurried' = (hurried \/ uploads # {} \/ fileRecord.seq = -1)
    /\ UNCHANGED <<text, pins, fileRecord, newest, edits, latest>>

(* unmount_filesystem removes the temporary files before it unmounts, and  *)
(* the mount goes on when that fails                                       *)
CleanTemp ==
    /\ fileMishaps < MaxFileMishaps
    /\ fileMishaps' = fileMishaps + 1
    /\ handle' = [h \in Handles |-> IF handle[h].mode = "write"
                     THEN [Closed EXCEPT !.mode = "lost"] ELSE handle[h]]
    /\ UNCHANGED <<file, text, pins, pending, cache, fetching, uploads, done, fileRecord,
                   fileSeqCache, newest, edits, latest, hurried>>

(* A later merge of the folder resolves the pointer *)
ResolvePointer ==
    /\ file.st = "unresolved" /\ fileRecord.seq >= 0
    /\ file' = Resolved(fileRecord)
    /\ UNCHANGED <<text, pins, session, fileRecord, newest, edits, latest, hurried,
                   fileMishaps>>

-----------------------------------------------------------------------------
Calls ==
    \/ \E h \in Handles : \/ OpenRead(h) \/ Read(h) \/ CreateFile(h) \/ OpenToWrite(h)
                          \/ Write(h) \/ Truncate(h) \/ Close(h) \/ ReleaseFile(h)
    \/ Unlink
Background ==
    \/ \E f \in fetching : ContentFetched(f) \/ FetchFails(f)
    \/ \E u \in uploads : \/ Uploaded(u) \/ ResolveFile(u) \/ NameNotFound(u)
                         \/ PublishFile(u) \/ ThreadFails(u)
    \/ Drain
Mounting == Remount \/ CleanTemp \/ ResolvePointer

FilesNext == Calls \/ Background \/ Mounting

FilesSpec == FilesInit /\ [][FilesNext]_filesVars
-----------------------------------------------------------------------------
(* Properties *)

(* Every variable holds values of its type.                                *)
FilesTypeOK ==
    /\ file \in FileInode
    /\ text \in [Cids -> Text]
    /\ pins \subseteq Cids \ {NoCid}
    /\ pending \subseteq Text
    /\ cache \subseteq [cid : Cids, text : Text]
    /\ fetching \subseteq Version
    /\ handle \in [Handles -> Handle]
    /\ uploads \subseteq Upload
    /\ done \in Seq([cid : Cids, pruned : SUBSET Cids])
    /\ fileRecord \in FileRecord
    /\ fileSeqCache \in Int
    /\ newest \in Cids
    /\ edits \in Edits
    /\ latest \in Text
    /\ hurried \in BOOLEAN
    /\ fileMishaps \in Nat

(* What a reader of a resolved file gets is the text last released, from   *)
(* the pending texts while its upload is under way, from the cache or from *)
(* the API afterwards, and after a restart: unless two releases overlap, a *)
(* call fails or resolves an old number, the process ends with an upload   *)
(* under way, or the file is opened for writing before it is drained.      *)
ReadsLatest ==
    file.st = "live" /\ ~hurried =>
        /\ file.cid = NoCid => pending = {latest} \/ (pending = {} /\ latest = Empty)
        /\ file.cid # NoCid => text[file.cid] = latest /\ file.key = file.cid
        /\ \A e \in cache : e.text = text[e.cid]

(* The current content and every version the inode keeps can be opened:    *)
(* it is pinned and its key is the one it was encrypted under; so can the  *)
(* current content of the record.  What is unpinned has been pruned.       *)
KeptReadable ==
    file.st = "live" /\ ~hurried =>
        /\ file.cid # NoCid => Opens(file.cid, file.key)
        /\ \A i \in 1..Len(file.versions) : Opens(file.versions[i].cid, file.versions[i].key)
        /\ fileRecord.seq >= 0 => Opens(fileRecord.cid, fileRecord.key)

(* Once the uploads of a file that has a record are drained and published, *)
(* the record names the text last released and the versions of the inode.  *)
SettledIsPublished ==
    file.st = "live" /\ ~hurried /\ fileRecord.seq >= 0 /\ ~Outstanding =>
        /\ text[fileRecord.cid] = latest
        /\ fileRecord.cid = file.cid /\ fileRecord.versions = file.versions

(* A file's upload that ends without a failure leaves the file published.  *)
ReleasedIsPublished ==
    file.st = "live" /\ file.cid # NoCid /\ ~Outstanding => fileRecord.seq >= 0
=============================================================================
