------------------------------- MODULE Uploads -------------------------------
(***************************************************************************)
(* Files dropped on the web client: batches encrypted and sent one file     *)
(* after the other, the server's quota check, pin and row for each, and the *)
(* one publication that lists a batch's files in their folder.  The tab has *)
(* one upload store, whichever batches run in it.                           *)
(*                                                                         *)
(* A file stands for its ciphertext too: every drop encrypts afresh, every  *)
(* attempt to send a file sends the same bytes.                             *)
(***************************************************************************)
EXTENDS Naturals, Sequences, FiniteSets, SequencesExt

CONSTANTS
    Batches,         \* drops of files in one tab
    FilesOf,         \* batch -> the sequence of files dropped
    Size,            \* bytes the server checks the quota for (file.size)
    StoredSize,      \* bytes the IPFS node reports, and the row holds
    Limit,           \* QUOTA_LIMIT_BYTES
    MaxTries,        \* MAX_RETRIES
    MaxUploadMishaps \* bound: lost answers, failing stores, presses of buttons

Files == UNION {ToSet(FilesOf[b]) : b \in Batches}
BatchOf(f) == CHOOSE b \in Batches : f \in ToSet(FilesOf[b])

NoBatch == "none"

(* A drop without files is not taken up                                     *)
ASSUME UploadAssumption ==
    /\ FilesOf \in [Batches -> Seq(Files) \ {<<>>}] /\ NoBatch \notin Batches
    /\ \A b, c \in Batches : b # c => ToSet(FilesOf[b]) \cap ToSet(FilesOf[c]) = {}
    /\ \A b \in Batches : IsInjective(FilesOf[b])
    /\ {Size, Limit, MaxTries, MaxUploadMishaps} \subseteq Nat /\ MaxTries # 0
    /\ StoredSize \in Nat /\ Size <= StoredSize

VARIABLES
    pinned,        \* files the IPFS node keeps
    rows,          \* files with a row in pinned_cids
    requests,      \* uploads the server works on
    batch,         \* batch -> how far handleFileDrop is
    store,         \* the tab's upload store
    usedSeen,      \* the tab's quota store
    cancelled,     \* batches whose cancel token was used
    closing,       \* the upload modal's close timer runs
    listed,        \* files published in their folder
    cleanup,       \* unpin requests under way
    uploadHistory, \* what excuses what went wrong: see below
    uploadMishaps

uploadTables == <<pinned, rows, requests>>
uploadsVars == <<uploadTables, batch, store, usedSeen, cancelled, closing, listed,
                 cleanup, uploadHistory, uploadMishaps>>

Request == [file : Files, try : 1..MaxTries, st : {"sent", "pinning", "recording", "accepted", "refused"}]
Stage == {"idle", "asking", "encrypting", "sending", "waiting", "failing", "stopping",
          "finishing", "registering", "done", "failed", "stopped", "unlisted"}
Status == {"idle", "encrypting", "uploading", "registering", "success", "error", "cancelled"}
IdleStore == [status |-> "idle", source |-> NoBatch]

(* crowded: two uploads were between check and row; retried: files an       *)
(* attempt to send was given up for; undone: files a row could not be saved *)
(* for; muddled: batches published in part or whose answer was lost;        *)
(* mislaid: files whose unpin request was lost; mixed: batches that ran     *)
(* beside another, or whose store was reset; stopped: batches cancelled     *)
(* while being sent                                                         *)
History == [crowded : BOOLEAN, retried : SUBSET Files, undone : SUBSET Files,
            muddled : SUBSET Batches, mislaid : SUBSET Files,
            mixed : SUBSET Batches, stopped : SUBSET Batches]

UploadsInit ==
    /\ pinned = {} /\ rows = {} /\ requests = {}
    /\ batch = [b \in Batches |-> [st |-> "idle", at |-> 1, try |-> 1, source |-> NoBatch]]
    /\ store = IdleStore /\ usedSeen = 0 /\ cancelled = {} /\ closing = FALSE
    /\ listed = {} /\ cleanup = {} /\ uploadMishaps = 0
    /\ uploadHistory = [crowded |-> FALSE, retried |-> {}, undone |-> {}, muddled |-> {},
                  mislaid |-> {}, mixed |-> {}, stopped |-> {}]

UploadMishap == uploadMishaps < MaxUploadMishaps /\ uploadMishaps' = uploadMishaps + 1

-----------------------------------------------------------------------------
(* The server *)

Used == StoredSize * Cardinality(rows)

(* getQuota, checkQuota                                                     *)
HasQuota(bytes) == Used + bytes <= Limit

Awaited(r) ==
    LET b == BatchOf(r.file) w == batch[b]
    IN  w.st = "sending" /\ FilesOf[b][w.at] = r.file /\ w.try = r.try

Becomes(r, st) == requests' = (requests \ {r}) \cup {[r EXCEPT !.st = st]}

(* The answer to an attempt nobody waits for is dropped                     *)
Answers(r, st) == IF Awaited(r) THEN Becomes(r, st) ELSE requests' = requests \ {r}

Check(r) ==
    /\ r \in requests /\ r.st = "sent"
    /\ IF HasQuota(Size) THEN Becomes(r, "pinning") ELSE Answers(r, "refused")
    /\ uploadHistory' = [uploadHistory EXCEPT !.crowded = @ \/ \E q \in requests : q.st \in {"pinning", "recording"}]
    /\ UNCHANGED <<pinned, rows, batch, store, usedSeen, cancelled, closing, listed,
                   cleanup, uploadMishaps>>

Pin(r) ==
    /\ r \in requests /\ r.st = "pinning"
    /\ pinned' = pinned \cup {r.file} /\ Becomes(r, "recording")
    /\ UNCHANGED <<rows, batch, store, usedSeen, cancelled, closing, listed, cleanup,
                   uploadHistory, uploadMishaps>>

PinFails(r) ==
    /\ r \in requests /\ r.st = "pinning" /\ UploadMishap
    /\ Answers(r, "refused")
    /\ UNCHANGED <<pinned, rows, batch, store, usedSeen, cancelled, closing, listed,
                   cleanup, uploadHistory>>

(* Mistake: a row that is there already is an error *)
RecordOnce(r) ==
    /\ r \in requests /\ r.st = "recording"
    /\ IF r.file \in rows
       THEN pinned' = pinned \ {r.file} /\ rows' = rows /\ Answers(r, "refused")
       ELSE pinned' = pinned /\ rows' = rows \cup {r.file} /\ Answers(r, "accepted")
    /\ UNCHANGED <<batch, store, usedSeen, cancelled, closing, listed, cleanup,
                   uploadHistory, uploadMishaps>>

(* recordPin: a row that is there already is left alone                     *)
Record(r) ==
    /\ r \in requests /\ r.st = "recording"
    /\ rows' = rows \cup {r.file} /\ Answers(r, "accepted")
    /\ UNCHANGED <<pinned, batch, store, usedSeen, cancelled, closing, listed, cleanup,
                   uploadHistory, uploadMishaps>>

(* The row cannot be saved: the pin is taken back, which may fail too       *)
RecordFails(r) ==
    /\ r \in requests /\ r.st = "recording" /\ UploadMishap
    /\ \E kept \in SUBSET {r.file} :
        /\ pinned' = pinned \ ({r.file} \ kept)
        /\ uploadHistory' = [uploadHistory EXCEPT !.undone = @ \cup {r.file}, !.mislaid = @ \cup kept]
    /\ Answers(r, "refused")
    /\ UNCHANGED <<rows, batch, store, usedSeen, cancelled, closing, listed, cleanup>>

(* The body of a request the client gave up may never have arrived          *)
Vanishes(r) ==
    /\ r \in requests /\ r.st = "sent" /\ ~Awaited(r)
    /\ requests' = requests \ {r}
    /\ UNCHANGED <<pinned, rows, batch, store, usedSeen, cancelled, closing, listed,
                   cleanup, uploadHistory, uploadMishaps>>

(* The unpin endpoint leaves the row, and the quota it counts for           *)
Unpin(f) ==
    /\ f \in cleanup /\ cleanup' = cleanup \ {f}
    /\ \/ pinned' = pinned \ {f} /\ UNCHANGED <<uploadHistory, uploadMishaps>>
       \/ /\ UploadMishap
          /\ uploadHistory' = [uploadHistory EXCEPT !.mislaid = @ \cup {f}]
          /\ UNCHANGED pinned
    /\ UNCHANGED <<rows, requests, batch, store, usedSeen, cancelled, closing, listed>>

-----------------------------------------------------------------------------
(* A batch *)

Running(b) == batch[b].st \notin {"idle", "done", "failed", "stopped", "unlisted"}
BeingSent(b) == batch[b].st \in {"encrypting", "sending", "waiting"}
GoesOn(b, st) == batch' = [batch EXCEPT ![b].st = st]
Shows(status) == store' = [store EXCEPT !.status = status]

CanUpload(b) == usedSeen + Size * Len(FilesOf[b]) <= Limit

(* Files are dropped: too little space, or a name that is there already, is *)
(* shown in the store, even while another batch is being sent               *)
Drop(b) ==
    /\ batch[b].st = "idle"
    /\ \/ /\ CanUpload(b) /\ GoesOn(b, "asking")
          /\ uploadHistory' = [uploadHistory EXCEPT !.mixed =
                @ \cup (IF \E c \in Batches : Running(c)
                        THEN {b} \cup {c \in Batches : Running(c)} ELSE {})]
          /\ UNCHANGED <<store, uploadMishaps>>
       \/ ~CanUpload(b) /\ store.status # "error" /\ Shows("error")
          /\ UNCHANGED <<batch, uploadHistory, uploadMishaps>>
       \/ UploadMishap /\ Shows("error") /\ UNCHANGED <<batch, uploadHistory>>
    /\ UNCHANGED <<uploadTables, usedSeen, cancelled, closing, listed, cleanup>>

(* The loop's head, for the at-th file: its token is the store's            *)
Heads(b, at, source, status) ==
    IF status = "cancelled"
    THEN /\ batch' = [batch EXCEPT ![b].st = "stopping"]
         /\ store' = [store EXCEPT !.source = source]
    ELSE /\ batch' = [batch EXCEPT ![b] = [st |-> "encrypting", at |-> at, try |-> 1, source |-> source]]
         /\ store' = [status |-> "encrypting", source |-> source]

(* The quota is answered, or cannot be had: uploadFiles starts              *)
Asked(b) ==
    /\ batch[b].st = "asking"
    /\ \/ usedSeen' = Used /\ UNCHANGED uploadMishaps
       \/ UploadMishap /\ UNCHANGED usedSeen
    /\ IF usedSeen' + Size * Len(FilesOf[b]) <= Limit
       THEN Heads(b, 1, b, "encrypting")
       ELSE GoesOn(b, "failed") /\ Shows("error")
    /\ UNCHANGED <<uploadTables, cancelled, closing, listed, cleanup, uploadHistory>>

SendsFile(b, try) == requests' = requests \cup {[file |-> FilesOf[b][batch[b].at], try |-> try, st |-> "sent"]}

(* addToIpfs, first or again: a token already used stops it                 *)
Send(b) ==
    /\ batch[b].st \in {"encrypting", "waiting"}
    /\ LET try == IF batch[b].st = "waiting" THEN batch[b].try + 1 ELSE 1 IN
       IF batch[b].source \in cancelled THEN GoesOn(b, "stopping") /\ UNCHANGED requests
       ELSE /\ batch' = [batch EXCEPT ![b].st = "sending", ![b].try = try]
            /\ SendsFile(b, try)
    /\ UNCHANGED <<pinned, rows, store, usedSeen, cancelled, closing, listed, cleanup,
                   uploadHistory, uploadMishaps>>

(* onUploadProgress writes the store, whoever it shows                      *)
Progress(b) ==
    /\ batch[b].st = "sending" /\ store.status # "uploading" /\ Shows("uploading")
    /\ UNCHANGED <<uploadTables, batch, usedSeen, cancelled, closing, listed, cleanup,
                   uploadHistory, uploadMishaps>>

Accepted(b, r) ==
    /\ r \in requests /\ r.st = "accepted" /\ BatchOf(r.file) = b /\ Awaited(r)
    /\ requests' = requests \ {r}
    /\ IF batch[b].at < Len(FilesOf[b])
       THEN Heads(b, batch[b].at + 1, store.source, store.status)
       ELSE GoesOn(b, "finishing") /\ Shows("success")
    /\ UNCHANGED <<pinned, rows, usedSeen, cancelled, closing, listed, cleanup,
                   uploadHistory, uploadMishaps>>

(* withRetry: after a wait, or not at all; uploadFiles then gives up        *)
Retries(b) ==
    IF batch[b].try < MaxTries THEN GoesOn(b, "waiting") /\ UNCHANGED store
    ELSE GoesOn(b, "failing") /\ Shows("error")

Refused(b, r) ==
    /\ r \in requests /\ r.st = "refused" /\ BatchOf(r.file) = b /\ Awaited(r)
    /\ requests' = requests \ {r} /\ Retries(b)
    /\ UNCHANGED <<pinned, rows, usedSeen, cancelled, closing, listed, cleanup,
                   uploadHistory, uploadMishaps>>

(* The answer is lost, while the server may still be at work                *)
Lost(b) ==
    /\ batch[b].st = "sending" /\ UploadMishap /\ Retries(b)
    /\ requests' = {r \in requests : ~(Awaited(r) /\ r.st \in {"accepted", "refused"})}
    /\ uploadHistory' = [uploadHistory EXCEPT !.retried = @ \cup {FilesOf[b][batch[b].at]}]
    /\ UNCHANGED <<pinned, rows, usedSeen, cancelled, closing, listed, cleanup>>

(* encryptFile throws: nothing of the file was sent                         *)
EncryptFails(b) ==
    /\ batch[b].st = "encrypting" /\ UploadMishap /\ GoesOn(b, "failing") /\ Shows("error")
    /\ UNCHANGED <<uploadTables, usedSeen, cancelled, closing, listed, cleanup, uploadHistory>>

(* fetchQuota of the finally clause: what it cannot learn stays as it was   *)
Settles(b) ==
    /\ \/ usedSeen' = Used /\ UNCHANGED uploadMishaps
       \/ UploadMishap /\ UNCHANGED usedSeen
    /\ \/ batch[b].st = "stopping" /\ GoesOn(b, "stopped") /\ UNCHANGED store
       \/ batch[b].st = "failing" /\ GoesOn(b, "failed") /\ Shows("error")
       \/ batch[b].st = "finishing" /\ GoesOn(b, "registering") /\ Shows("registering")
    /\ UNCHANGED <<uploadTables, cancelled, closing, listed, cleanup, uploadHistory>>

Registered(b) ==
    /\ batch[b].st = "registering" /\ GoesOn(b, "done") /\ Shows("success")
    /\ listed' = listed \cup ToSet(FilesOf[b])
    /\ UNCHANGED <<uploadTables, usedSeen, cancelled, closing, cleanup, uploadHistory,
                   uploadMishaps>>

(* The catch clause: what was uploaded is unpinned                          *)
CleanUp(b) == cleanup' = cleanup \cup ToSet(FilesOf[b])

(* Registering fails: nothing is published, or part of it, or the answer    *)
(* that says all of it is gets lost                                         *)
RegisterFails(b) ==
    /\ batch[b].st = "registering" /\ GoesOn(b, "unlisted") /\ Shows("error") /\ UploadMishap
    /\ \E part \in SUBSET ToSet(FilesOf[b]) :
        /\ listed' = listed \cup part
        /\ uploadHistory' = IF part = {} THEN uploadHistory
                      ELSE [uploadHistory EXCEPT !.muddled = @ \cup {b}]
    /\ CleanUp(b)
    /\ UNCHANGED <<uploadTables, usedSeen, cancelled, closing>>

-----------------------------------------------------------------------------
(* The upload modal *)

(* Mistake: only the modal says cancelled *)
CancelShown ==
    /\ store.status \in {"encrypting", "uploading"} /\ Shows("cancelled")
    /\ uploadHistory' = [uploadHistory EXCEPT !.stopped = @ \cup {b \in Batches : BeingSent(b)}]
    /\ UNCHANGED <<uploadTables, batch, usedSeen, cancelled, closing, listed, cleanup,
                   uploadMishaps>>

(* cancel: the store's token, and the requests that carry it                *)
Cancel ==
    /\ store.status \in {"encrypting", "uploading"} /\ Shows("cancelled")
    /\ cancelled' = cancelled \cup ({store.source} \ {NoBatch})
    /\ batch' = [b \in Batches |->
                    IF batch[b].st = "sending" /\ batch[b].source \in cancelled'
                    THEN [batch[b] EXCEPT !.st = "stopping"] ELSE batch[b]]
    /\ uploadHistory' = [uploadHistory EXCEPT !.stopped = @ \cup {b \in Batches : BeingSent(b)}]
    /\ UNCHANGED <<uploadTables, usedSeen, closing, listed, cleanup, uploadMishaps>>

Resets ==
    /\ store' = IdleStore
    /\ uploadHistory' = [uploadHistory EXCEPT !.mixed = @ \cup {b \in Batches : Running(b)}]

(* A success that stays shown hides itself                                  *)
AutoHide ==
    /\ store.status = "success" /\ Resets
    /\ UNCHANGED <<uploadTables, batch, usedSeen, cancelled, closing, listed, cleanup,
                   uploadMishaps>>

(* handleClose: its timer is not cleared by what happens next               *)
Close ==
    /\ store.status \in {"success", "error", "cancelled"} /\ ~closing /\ closing' = TRUE
    /\ UNCHANGED <<uploadTables, batch, store, usedSeen, cancelled, listed, cleanup,
                   uploadHistory, uploadMishaps>>
Closed ==
    /\ closing /\ closing' = FALSE /\ Resets
    /\ UNCHANGED <<uploadTables, batch, usedSeen, cancelled, listed, cleanup,
                   uploadMishaps>>

-----------------------------------------------------------------------------
UploadsNext ==
    \/ \E r \in requests :
        \/ Check(r) \/ Pin(r) \/ PinFails(r) \/ Record(r) \/ RecordFails(r) \/ Vanishes(r)
        \/ Accepted(BatchOf(r.file), r) \/ Refused(BatchOf(r.file), r)
    \/ \E f \in cleanup : Unpin(f)
    \/ \E b \in Batches :
        \/ Drop(b) \/ Asked(b) \/ Send(b) \/ Progress(b) \/ Lost(b)
        \/ EncryptFails(b) \/ Settles(b) \/ Registered(b) \/ RegisterFails(b)
    \/ Cancel \/ AutoHide \/ Close \/ Closed

UploadsSpec == UploadsInit /\ [][UploadsNext]_uploadsVars

-----------------------------------------------------------------------------
UploadsTypeOK ==
    /\ pinned \subseteq Files /\ rows \subseteq Files /\ requests \subseteq Request
    /\ batch \in [Batches -> [st : Stage, at : Nat, try : Nat, source : Batches \cup {NoBatch}]]
    /\ store \in [status : Status, source : Batches \cup {NoBatch}]
    /\ usedSeen \in Nat /\ cancelled \subseteq Batches /\ closing \in BOOLEAN
    /\ listed \subseteq Files /\ cleanup \subseteq Files
    /\ uploadHistory \in History /\ uploadMishaps \in 0..MaxUploadMishaps

(* A file its folder lists can be read: its content is pinned, though an    *)
(* attempt was repeated while the server still worked on the one before,    *)
(* unless the folder was published in part or without an answer, and the    *)
(* clean-up of useDropUpload took the content for an orphan, or the row of  *)
(* a repeated attempt failed to save.                                       *)
ListedReadable ==
    \A f \in listed :
        \/ f \in pinned
        \/ BatchOf(f) \in uploadHistory.muddled
        \/ f \in uploadHistory.retried \cap uploadHistory.undone

(* Content nobody lists is not kept: once a batch that was uploaded whole   *)
(* could not be registered, every file of it is unpinned, unless a request  *)
(* to unpin it was lost or an attempt to send it was repeated.              *)
NoOrphans ==
    \A f \in pinned \ (listed \cup cleanup) :
        batch[BatchOf(f)].st \in {"done", "unlisted"} =>
            f \in uploadHistory.mislaid \cup uploadHistory.retried

(* The rows stay within the quota, up to the bytes one file's blocks add,   *)
(* unless two uploads were between the check and the row at once.           *)
QuotaWithin == uploadHistory.crowded \/ Used <= Limit + (StoredSize - Size)

(* A batch that ran alone and was cancelled while it was being sent is      *)
(* never listed.                                                            *)
CancelHeeded ==
    \A b \in uploadHistory.stopped \ uploadHistory.mixed : ToSet(FilesOf[b]) \cap listed = {}
=============================================================================
