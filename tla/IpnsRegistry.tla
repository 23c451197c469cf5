---------------------------- MODULE IpnsRegistry ----------------------------
(***************************************************************************)
(* The IPNS pipeline of the CipherBox API: publish requests write the      *)
(* folder_ipns table, enrol the name for republishing in the background    *)
(* and PUT the client's record to delegated routing; a six-hourly job      *)
(* reads the due rows of ipns_republish_schedule, has the TEE worker sign  *)
(* fresh records, PUTs them and saves the rows back.                       *)
(*                                                                         *)
(* Every await on the database, the TEE or routing ends a step, so a row   *)
(* read in one step may be stale when a later step saves it.  The k-th     *)
(* metadata object a client publishes under a name has the CID k; 0 is     *)
(* SQL NULL.  One user owns a name, so the key (userId, ipnsName) is the   *)
(* name.  Key columns of folder_ipns are never read back and are left out. *)
(***************************************************************************)
EXTENDS Integers, FiniteSets

CONSTANTS
    Names,          \* IPNS names (folders, files, device registries)
    Roots,          \* the names vault initialisation creates a row for
    Requests,       \* publish requests the API can serve at a time
    NoRow,          \* no database row, no routing record
    KeyPolicy,      \* clients send the TEE key on the "first" publish only
                    \* (as they do), on "any" publish they like (as the DTO
                    \* allows) or "always"
    MaxFailures,    \* MAX_CONSECUTIVE_FAILURES, 10 in the code
    MaxPub,         \* bound: publishes per name
    MaxTicks,       \* bound: how often an active row falls due, per behaviour
    MaxEpoch,       \* bound: TEE key epochs (1: no rotation ever happens)
    MaxOutages,     \* bound: how often the TEE or routing goes down
    MaxCrashes,     \* bound: API restarts
    MaxDbErrors     \* bound: statements the database refuses

ASSUME RegistryAssumption ==
    /\ Roots \subseteq Names
    /\ KeyPolicy \in {"first", "any", "always"}
    /\ MaxFailures \in Nat \ {0}
    /\ MaxPub \in Nat
    /\ MaxEpoch \in Nat \ {0}
    /\ NoRow \notin Names

VARIABLES
    folder,     \* folder_ipns: name -> [cid, seq] or NoRow
    sched,      \* ipns_republish_schedule: name -> row or NoRow
    tee,        \* tee_key_state, a singleton: [cur, prev] or NoRow (prev 0: NULL)
    reqs,       \* publish requests in flight
    job,        \* the republish job
    routing,    \* delegated routing: name -> best record [cid, seq] or NoRow
    teeUp,      \* the TEE worker answers
    routingUp,  \* delegated routing answers
    known,      \* name -> sequence number the owner's client holds
    pubs,       \* name -> number of publishes started (also the last CID)
    saved,      \* history: name -> CIDs written to folder_ipns
    before,     \* history: name -> CID -> CIDs saved when that publish began
    acked,      \* history: name -> CIDs whose publish was answered "success"
    budget      \* what is left of the bounds on ticks, outages, crashes, errors

tables == <<folder, sched, tee>>
world  == <<routing, teeUp, routingUp>>
client == <<known, pubs, before>>
hist   == <<saved, acked>>
vars   == <<folder, sched, tee, reqs, job, routing, teeUp, routingUp,
            known, pubs, saved, before, acked, budget>>

Cids   == 1 .. MaxPub
Epochs == 1 .. MaxEpoch

-----------------------------------------------------------------------------
(* Rows, requests and the job *)

FolderRow == [cid : 0 .. MaxPub, seq : Nat]

Status == {"active", "retrying", "stale"}

SchedRow == [cid : Cids, seq : Nat, epoch : Epochs,
             failures : Nat, status : Status, due : BOOLEAN]

Record == [cid : Cids, seq : Nat]

TeeState == [cur : Epochs, prev : 0 .. MaxEpoch]

(* put: where publishRecord is; enr: where its enrollFolder promise is *)
Request == [put : {"save", "route", "done"}, enr : {"none", "find", "save"},
            name : Names, cid : Cids, rseq : Nat, key : 0 .. MaxEpoch,
            row : FolderRow \cup {NoRow}, srow : SchedRow \cup {NoRow},
            eseq : Nat]

(* NULL is not a row *)
ASSUME NoRowAssumption == NoRow \notin FolderRow \cup SchedRow \cup TeeState \cup Request

(* pc "state" .. "next": between the awaits of processRepublishBatch;      *)
(* at: the entry the loop is on; down: the TEE call threw                  *)
Job == [pc : {"idle", "state", "sign", "next", "put", "save", "sync", "fail"},
        todo : SUBSET Names, snap : [Names -> SchedRow \cup {NoRow}],
        ks : TeeState \cup {NoRow}, at : Names \cup {NoRow},
        down : BOOLEAN]

IdleJob == [pc |-> "idle", todo |-> {}, snap |-> [n \in Names |-> NoRow],
            ks |-> NoRow, at |-> NoRow, down |-> FALSE]

(* The row enrollFolder creates, and the one it updates *)
NewEnrollment(c, s, e) ==
    [cid |-> c, seq |-> s, epoch |-> e, failures |-> 0,
     status |-> "active", due |-> FALSE]

Reenrolled(row, c, s, e) ==
    [row EXCEPT !.cid = c, !.seq = s, !.epoch = e, !.due = FALSE]

(* handleEntryFailure *)
Failed(row) ==
    [row EXCEPT !.failures = row.failures + 1, !.due = FALSE,
                !.status = IF row.failures + 1 >= MaxFailures
                             THEN "stale" ELSE "retrying"]

(* Mistake: every epoch there has been is tried *)
DecryptableEver(row, ks) == row.epoch <= ks.cur

(* decryptWithFallback tries the current and then the previous epoch *)
Decryptable(row, ks) == row.epoch \in {ks.cur, ks.prev}

(* Mistake: the new number and the next republish time are not stored *)
RepublishedStillDue(row, ks) == [row EXCEPT !.failures = 0, !.status = "active"]

(* The entry after a successful publish; the key is re-encrypted for the   *)
(* current epoch if the previous one opened it                             *)
Republished(row, ks) ==
    [cid |-> row.cid, seq |-> row.seq + 1, failures |-> 0, status |-> "active",
     due |-> FALSE, epoch |-> ks.cur]

(* Routing keeps the record with the higher sequence number.  Equal        *)
(* numbers are decided by the expiry times, which are not modelled.        *)
Accepts(n, rec) ==
    \/ routing[n] = NoRow
    \/ routing[n] # NoRow /\ rec.seq >= routing[n].seq

Keeps(n, rec) ==
    \/ routing[n] # NoRow /\ rec.seq <= routing[n].seq

(* The record lands, or loses to the one routing holds *)
Routed(n, rec) ==
    \/ Accepts(n, rec) /\ routing' = [routing EXCEPT ![n] = rec]
    \/ Keeps(n, rec) /\ UNCHANGED routing

-----------------------------------------------------------------------------
Init ==
    /\ folder = [n \in Names |-> NoRow]
    /\ sched = [n \in Names |-> NoRow]
    /\ teeUp \in BOOLEAN
    /\ tee = IF teeUp THEN [cur |-> 1, prev |-> 0] ELSE NoRow
    /\ routingUp = TRUE
    /\ reqs = [r \in Requests |-> NoRow]
    /\ job = IdleJob
    /\ routing = [n \in Names |-> NoRow]
    /\ known = [n \in Names |-> 0]
    /\ pubs = [n \in Names |-> 0]
    /\ saved = [n \in Names |-> {}]
    /\ before = [n \in Names |-> [c \in Cids |-> {}]]
    /\ acked = [n \in Names |-> {}]
    /\ budget = [ticks |-> MaxTicks, outages |-> MaxOutages,
                 crashes |-> MaxCrashes, dbErrors |-> MaxDbErrors]

(* initializeVault: the root folder's row, before anything is published *)
CreateRootRow(n) ==
    /\ n \in Roots
    /\ folder[n] = NoRow
    /\ folder' = [folder EXCEPT ![n] = [cid |-> 0, seq |-> 0]]
    /\ UNCHANGED <<sched, tee, reqs, job, world, client, hist, budget>>

-----------------------------------------------------------------------------
(* Publish requests *)

(* The epochs a client may have wrapped the key for: its session's TEE     *)
(* keys may be older than the current ones.  0: no key is sent.            *)
KeyChoices(n) ==
    LET wrapped == IF tee = NoRow THEN {0} ELSE 1 .. tee.cur
    IN  CASE KeyPolicy = "any" -> {0} \cup wrapped
          [] KeyPolicy = "always" -> wrapped
          [] KeyPolicy = "first" /\ pubs[n] = 0 /\ n \notin Roots -> wrapped
          [] OTHER -> {0}

(* A publish arrives and upsertFolderIpns reads the row.  The record was   *)
(* signed with the client's sequence number plus one; some client handlers *)
(* then remember the new number and some do not.                           *)
Publish(r, n, k) ==
    /\ reqs[r] = NoRow
    /\ pubs[n] < MaxPub
    /\ k \in KeyChoices(n)
    /\ pubs' = [pubs EXCEPT ![n] = pubs[n] + 1]
    /\ before' = [before EXCEPT ![n][pubs[n] + 1] = saved[n]]
    /\ \E s \in {known[n], known[n] + 1} : known' = [known EXCEPT ![n] = s]
    /\ reqs' = [reqs EXCEPT ![r] =
                  [put |-> "save", enr |-> "none", name |-> n,
                   cid |-> pubs[n] + 1, rseq |-> known[n] + 1, key |-> k,
                   row |-> folder[n], srow |-> NoRow, eseq |-> 0]]
    /\ UNCHANGED <<tables, job, world, hist, budget>>

(* Mistake: the CID of an existing row is only written along with a key *)
UpsertedWithKey(req) ==
    [cid |-> IF req.row # NoRow /\ req.key = 0 THEN req.row.cid ELSE req.cid,
     seq |-> IF req.row = NoRow THEN 0 ELSE req.row.seq + 1]

(* The row upsertFolderIpns saves, whole, over whatever the table holds *)
Upserted(req) ==
    [cid |-> req.cid, seq |-> IF req.row = NoRow THEN 0 ELSE req.row.seq + 1]

Enrols(req) == req.key # 0

(* INSERT when the read found no row, else UPDATE; then enrollFolder is    *)
(* started, not awaited, if the request carried a key                      *)
SaveRow(r) ==
    LET req == reqs[r] IN
    /\ req # NoRow /\ req.put = "save"
    /\ req.row = NoRow => folder[req.name] = NoRow
    /\ folder' = [folder EXCEPT ![req.name] = Upserted(req)]
    /\ saved' = [saved EXCEPT ![req.name] = @ \cup {req.cid}]
    /\ reqs' = [reqs EXCEPT ![r] =
                  [req EXCEPT !.put = "route", !.eseq = Upserted(req).seq,
                              !.enr = IF Enrols(req) THEN "find" ELSE "none"]]
    /\ UNCHANGED <<sched, tee, job, world, client, acked, budget>>

(* A concurrent request inserted the row first: the unique constraint      *)
(* fails the INSERT and the request is answered with an error              *)
SaveConflict(r) ==
    LET req == reqs[r] IN
    /\ req # NoRow /\ req.put = "save"
    /\ req.row = NoRow /\ folder[req.name] # NoRow
    /\ reqs' = [reqs EXCEPT ![r] = NoRow]
    /\ UNCHANGED <<tables, job, world, client, hist, budget>>

(* The slot is free once the response is sent and no enrolment runs *)
Settled(req) == IF req.put = "done" /\ req.enr = "none" THEN NoRow ELSE req

(* publishToDelegatedRouting, up to three attempts; whatever comes of it   *)
(* the request is answered "success".  A PUT may land although its answer  *)
(* is lost, so a failure also has both effects.                            *)
RoutePut(r) ==
    LET req == reqs[r] IN
    /\ req # NoRow /\ req.put = "route"
    /\ \/ routingUp /\ Routed(req.name, [cid |-> req.cid, seq |-> req.rseq])
       \/ UNCHANGED routing
    /\ acked' = [acked EXCEPT ![req.name] = @ \cup {req.cid}]
    /\ reqs' = [reqs EXCEPT ![r] = Settled([req EXCEPT !.put = "done"])]
    /\ UNCHANGED <<tables, job, teeUp, routingUp, client, saved, budget>>

(* enrollFolder reads the schedule row *)
EnrollFind(r) ==
    LET req == reqs[r] IN
    /\ req # NoRow /\ req.enr = "find"
    /\ reqs' = [reqs EXCEPT ![r].enr = "save", ![r].srow = sched[req.name]]
    /\ UNCHANGED <<tables, job, world, client, hist, budget>>

(* enrollFolder saves: the row it read with the new key, CID and number    *)
(* (status and failures as read), or a new row                             *)
EnrollSave(r) ==
    LET req == reqs[r]
        row == IF req.srow = NoRow
                 THEN NewEnrollment(req.cid, req.eseq, req.key)
                 ELSE Reenrolled(req.srow, req.cid, req.eseq, req.key)
    IN
    /\ req # NoRow /\ req.enr = "save"
    /\ \/ /\ req.srow = NoRow => sched[req.name] = NoRow
          /\ sched' = [sched EXCEPT ![req.name] = row]
       \/ /\ req.srow = NoRow /\ sched[req.name] # NoRow  \* unique constraint
          /\ UNCHANGED sched
    /\ reqs' = [reqs EXCEPT ![r] = Settled([req EXCEPT !.enr = "none"])]
    /\ UNCHANGED <<folder, tee, job, world, client, hist, budget>>

(* Mistake: a refused save is logged and the record is PUT all the same *)
RoutesUnsaved(req) == [req EXCEPT !.put = "route"]

(* A save that throws ends the request *)
RefusedSave(req) == NoRow

(* The database refuses a statement: before the row is saved the request   *)
(* fails; an enrolment that fails is only logged                           *)
RequestDbError(r) ==
    LET req == reqs[r] IN
    /\ req # NoRow /\ budget.dbErrors > 0
    /\ budget' = [budget EXCEPT !.dbErrors = @ - 1]
    /\ \/ req.put = "save" /\ reqs' = [reqs EXCEPT ![r] = RefusedSave(req)]
       \/ /\ req.enr # "none"
          /\ reqs' = [reqs EXCEPT ![r] = Settled([req EXCEPT !.enr = "none"])]
    /\ UNCHANGED <<tables, job, world, client, hist>>

(* What resolveRecord can answer: routing's record if routing answers,     *)
(* else (down, 404, unparsable) the DB row if its CID is not NULL          *)
Resolvable(n) ==
    (IF routingUp /\ routing[n] # NoRow THEN {routing[n]} ELSE {})
      \cup (IF folder[n] # NoRow /\ folder[n].cid # 0 THEN {folder[n]} ELSE {})

(* A client opens or polls the name and adopts the resolved number *)
Resolve(n) ==
    /\ \E rec \in Resolvable(n) :
          /\ known[n] # rec.seq
          /\ known' = [known EXCEPT ![n] = rec.seq]
    /\ UNCHANGED <<tables, reqs, job, world, pubs, before, hist, budget>>

-----------------------------------------------------------------------------
(* The republish job *)

DueRows == {n \in Names : /\ sched[n] # NoRow
                          /\ sched[n].status \in {"active", "retrying"}
                          /\ sched[n].due}

(* getDueEntries: whole rows are read, to be saved back at the end *)
JobStart ==
    /\ job.pc = "idle"
    /\ DueRows # {}
    /\ job' = [IdleJob EXCEPT
                 !.pc = "state", !.todo = DueRows,
                 !.snap = [n \in Names |-> IF n \in DueRows THEN sched[n]
                                                            ELSE NoRow]]
    /\ UNCHANGED <<tables, reqs, world, client, hist, budget>>

(* getCurrentState; without a TEE key state the run ends *)
JobTeeState ==
    /\ job.pc = "state"
    /\ job' = IF tee = NoRow THEN IdleJob
              ELSE [job EXCEPT !.pc = "sign", !.ks = tee]
    /\ UNCHANGED <<tables, reqs, world, client, hist, budget>>

(* teeService.republish: the worker signs the batch, or the call throws *)
JobSign ==
    /\ job.pc = "sign"
    /\ job' = [job EXCEPT !.pc = "next", !.down = ~teeUp]
    /\ UNCHANGED <<tables, reqs, world, client, hist, budget>>

(* The loop takes the next entry: its result is a signed record, or the    *)
(* call threw or no epoch opened its key                                   *)
JobEntry(n) ==
    /\ job.pc = "next"
    /\ n \in job.todo
    /\ job' = [job EXCEPT
                 !.todo = @ \ {n}, !.at = n,
                 !.pc = IF ~job.down /\ Decryptable(job.snap[n], job.ks)
                          THEN "put" ELSE "fail"]
    /\ UNCHANGED <<tables, reqs, world, client, hist, budget>>

JobEnd ==
    /\ job.pc = "next"
    /\ job.todo = {}
    /\ job' = IdleJob
    /\ UNCHANGED <<tables, reqs, world, client, hist, budget>>

(* publishSignedRecord with its retries *)
JobPut ==
    LET n == job.at
        row == job.snap[n]
    IN
    /\ job.pc = "put"
    /\ \/ /\ routingUp
          /\ Routed(n, [cid |-> row.cid, seq |-> row.seq + 1])
          /\ job' = [job EXCEPT !.pc = "save",
                                !.snap[n] = Republished(row, job.ks)]
       \/ /\ ~routingUp            \* the last PUT may still have landed
          /\ \/ Routed(n, [cid |-> row.cid, seq |-> row.seq + 1])
             \/ UNCHANGED routing
          /\ job' = [job EXCEPT !.pc = "fail"]
    /\ UNCHANGED <<tables, reqs, teeUp, routingUp, client, hist, budget>>

(* scheduleRepository.save(entry): every column as read and updated above *)
JobSave ==
    /\ job.pc = "save"
    /\ sched' = [sched EXCEPT ![job.at] = job.snap[job.at]]
    /\ job' = [job EXCEPT !.pc = "sync"]
    /\ UNCHANGED <<folder, tee, reqs, world, client, hist, budget>>

(* A refused save is caught as a publish failure, the entry already being  *)
(* updated in memory                                                       *)
JobSaveError ==
    /\ job.pc = "save"
    /\ budget.dbErrors > 0
    /\ budget' = [budget EXCEPT !.dbErrors = @ - 1]
    /\ job' = [job EXCEPT !.pc = "fail"]
    /\ UNCHANGED <<tables, reqs, world, client, hist>>

(* Mistake: the row is saved whole, as the schedule knows it *)
SyncedWhole(row, entry) == [cid |-> entry.cid, seq |-> entry.seq]

(* UPDATE ... SET sequence_number, which a missing row makes a no-op *)
Synced(row, entry) ==
    IF row = NoRow THEN NoRow ELSE [row EXCEPT !.seq = entry.seq]

(* syncFolderIpnsSequence: one UPDATE of one column, whose error is logged *)
JobSync ==
    LET n == job.at IN
    /\ job.pc = "sync"
    /\ \/ /\ folder' = [folder EXCEPT ![n] = Synced(folder[n], job.snap[n])]
          /\ UNCHANGED budget
       \/ /\ budget.dbErrors > 0
          /\ budget' = [budget EXCEPT !.dbErrors = @ - 1]
          /\ UNCHANGED folder
    /\ job' = [job EXCEPT !.pc = "next"]
    /\ UNCHANGED <<sched, tee, reqs, world, client, hist>>

(* handleEntryFailure *)
JobFail ==
    LET n == job.at IN
    /\ job.pc = "fail"
    /\ sched' = [sched EXCEPT ![n] = Failed(job.snap[n])]
    /\ job' = [job EXCEPT !.pc = "next"]
    /\ UNCHANGED <<folder, tee, reqs, world, client, hist, budget>>

(* handleEntryFailure is not guarded: if its save throws the whole run ends *)
JobFailError ==
    /\ job.pc = "fail"
    /\ budget.dbErrors > 0
    /\ budget' = [budget EXCEPT !.dbErrors = @ - 1]
    /\ job' = IdleJob
    /\ UNCHANGED <<tables, reqs, world, client, hist>>

-----------------------------------------------------------------------------
(* TEE key epochs, restarts and the environment *)

(* initializeFromTee, which only runs when the module starts *)
InitializedTee == IF tee = NoRow /\ teeUp THEN [cur |-> 1, prev |-> 0] ELSE tee

(* The API process dies and starts again: requests, enrolments and the job *)
(* are lost where they stand; the database is not                          *)
Restart ==
    /\ budget.crashes > 0
    /\ budget' = [budget EXCEPT !.crashes = @ - 1]
    /\ reqs' = [r \in Requests |-> NoRow]
    /\ job' = IdleJob
    /\ tee' = InitializedTee
    /\ UNCHANGED <<folder, sched, world, client, hist>>

(* rotateEpoch: one transaction *)
RotateEpoch ==
    /\ tee # NoRow
    /\ tee.cur < MaxEpoch
    /\ tee' = [cur |-> tee.cur + 1, prev |-> tee.cur]
    /\ UNCHANGED <<folder, sched, reqs, job, world, client, hist, budget>>

(* deprecatePreviousEpoch, once the grace period is over (time is not modelled) *)
DeprecatePreviousEpoch ==
    /\ tee # NoRow
    /\ tee.prev # 0
    /\ tee' = [tee EXCEPT !.prev = 0]
    /\ UNCHANGED <<folder, sched, reqs, job, world, client, hist, budget>>

(* next_republish_at of a row passes: six hours after a success, the       *)
(* backoff after a failure.  A stale row's is a year away.                 *)
Due(n) ==
    /\ sched[n] # NoRow
    /\ ~sched[n].due
    /\ \/ sched[n].status = "active" /\ budget.ticks > 0
          /\ budget' = [budget EXCEPT !.ticks = @ - 1]
       \/ sched[n].status = "retrying" /\ UNCHANGED budget
    /\ sched' = [sched EXCEPT ![n].due = TRUE]
    /\ UNCHANGED <<folder, tee, reqs, job, world, client, hist>>

Outage ==
    /\ budget.outages > 0
    /\ budget' = [budget EXCEPT !.outages = @ - 1]
    /\ \/ teeUp /\ teeUp' = FALSE /\ UNCHANGED routingUp
       \/ routingUp /\ routingUp' = FALSE /\ UNCHANGED teeUp
    /\ UNCHANGED <<tables, reqs, job, routing, client, hist>>

Recovery ==
    /\ \/ ~teeUp /\ teeUp' = TRUE /\ UNCHANGED routingUp
       \/ ~routingUp /\ routingUp' = TRUE /\ UNCHANGED teeUp
    /\ UNCHANGED <<tables, reqs, job, routing, client, hist, budget>>

(* The last record published for a name outlives its validity *)
RecordExpires(n) ==
    /\ routing[n] # NoRow
    /\ routing' = [routing EXCEPT ![n] = NoRow]
    /\ UNCHANGED <<tables, reqs, job, teeUp, routingUp, client, hist, budget>>

-----------------------------------------------------------------------------
RequestStep(r) ==
    \/ \E n \in Names, k \in 0 .. MaxEpoch : Publish(r, n, k)
    \/ SaveRow(r) \/ SaveConflict(r) \/ RoutePut(r)
    \/ EnrollFind(r) \/ EnrollSave(r) \/ RequestDbError(r)

JobStep ==
    \/ JobStart \/ JobTeeState \/ JobSign \/ JobEnd
    \/ \E n \in Names : JobEntry(n)
    \/ JobPut \/ JobSave \/ JobSaveError \/ JobSync \/ JobFail \/ JobFailError

TeeStep == RotateEpoch \/ DeprecatePreviousEpoch

NameStep(n) == CreateRootRow(n) \/ Resolve(n) \/ Due(n) \/ RecordExpires(n)

Next ==
    \/ \E r \in Requests : RequestStep(r)
    \/ \E n \in Names : NameStep(n)
    \/ JobStep \/ TeeStep
    \/ Restart \/ Outage \/ Recovery

Spec == Init /\ [][Next]_vars

(* The cron keeps starting the job and a live process finishes what it     *)
(* began; time passes for a row in backoff; an outage ends.                *)
Progress ==
    /\ WF_vars(JobStep)
    /\ \A n \in Names : WF_vars(Due(n))
    /\ \A r \in Requests : WF_vars(SaveRow(r) \/ SaveConflict(r) \/ RoutePut(r))
    /\ \A r \in Requests : WF_vars(EnrollFind(r) \/ EnrollSave(r))
    /\ WF_vars(Recovery)

FairSpec == Spec /\ Progress

-----------------------------------------------------------------------------
(* Properties *)

(* The CID the database resolves a name to *)
DatabaseCid == [n \in Names |-> IF folder[n] = NoRow THEN 0 ELSE folder[n].cid]

Register == INSTANCE MetadataRegister
    WITH value <- DatabaseCid, begun <- pubs, effective <- saved, earlier <- before

(* folder_ipns implements the register: every publish takes effect once or *)
(* never, and the job, enrolments and restarts leave latest_cid alone.     *)
ImplementsRegister == Register!RegisterSpec

(* Every variable holds what the tables, requests and job can hold. *)
TypeOK ==
    /\ folder \in [Names -> FolderRow \cup {NoRow}]
    /\ sched \in [Names -> SchedRow \cup {NoRow}]
    /\ tee \in TeeState \cup {NoRow}
    /\ reqs \in [Requests -> Request \cup {NoRow}]
    /\ job \in Job
    /\ routing \in [Names -> Record \cup {NoRow}]
    /\ teeUp \in BOOLEAN /\ routingUp \in BOOLEAN
    /\ known \in [Names -> Nat]
    /\ pubs \in [Names -> 0 .. MaxPub]
    /\ saved \in [Names -> SUBSET Cids]
    /\ before \in [Names -> [Cids -> SUBSET Cids]]
    /\ acked \in [Names -> SUBSET Cids]

(* A row is active, retrying or stale exactly as its failure count says:   *)
(* none, some, or MaxFailures and more.                                    *)
RowConsistent(row) ==
    \/ row.status = "active" /\ row.failures = 0
    \/ row.status = "retrying" /\ 0 < row.failures /\ row.failures < MaxFailures
    \/ row.status = "stale" /\ row.failures >= MaxFailures

(* The status column never disagrees with consecutive_failures, whatever   *)
(* copies of a row enrollFolder and the job save over each other: a row    *)
(* with failures to spare is never given up, one without never retried.    *)
StatusMatchesFailures ==
    \A n \in Names : sched[n] # NoRow => RowConsistent(sched[n])

(* Once a publish under n was answered "success", resolveRecord has an     *)
(* answer from the database alone, with routing down, empty or expired     *)
(* ("Save to DB first so resolve always has a fallback").                  *)
AckedResolvable ==
    \A n \in Names : acked[n] # {} => folder[n] # NoRow /\ folder[n].cid # 0

(* Routing and the schedule never name metadata that folder_ipns has not   *)
(* held: nobody resolves or republishes a CID the database never knew.     *)
NothingAheadOfDatabase ==
    \A n \in Names :
        /\ routing[n] # NoRow => routing[n].cid \in saved[n]
        /\ sched[n] # NoRow => sched[n].cid \in saved[n]

(* folder_ipns.latest_cid is a regular register: it never shows a publish  *)
(* that was already saved when a publish saved since began.  Overlapping   *)
(* requests may land in either order; finished ones are never undone, by   *)
(* late requests or by the job's own writes.                               *)
DatabaseNotOvertaken ==
    \A n \in Names : folder[n] # NoRow =>
        \A c \in saved[n] : folder[n].cid \notin before[n][c]

(* No request for n is in flight and the job is between two runs *)
Quiet(n) == job.pc = "idle" /\ \A r \in Requests : reqs[r] # NoRow => reqs[r].name # n

(* "Most recent metadata CID to republish": once requests and the job are  *)
(* done, latest_cid of the schedule is not a publish that was over when a  *)
(* later one, saved since, began.                                          *)
ScheduleNotOvertaken ==
    \A n \in Names : Quiet(n) /\ sched[n] # NoRow =>
        \A c \in saved[n] : sched[n].cid \notin before[n][c]

(* Clients enrolling a name once, a row's key is re-encrypted only from an *)
(* epoch that the key state the job read still has, and for a later one:   *)
(* rotations in the middle of the job, a refused save and a restart leave  *)
(* no key wrapped for an older epoch than before, and a row two rotations  *)
(* behind is not taken for upgraded.                                       *)
EpochNeverDowngraded ==
    [][\A n \in Names : sched[n] # NoRow =>
          /\ sched'[n] # NoRow /\ sched'[n].epoch >= sched[n].epoch
          /\ sched'[n].epoch # sched[n].epoch
                => job.ks # NoRow /\ sched[n].epoch \in {job.ks.cur, job.ks.prev}]_vars

(* Under a TEE key state a due row does not wait for ever: the job gets to *)
(* it and it is republished, put off or given up.                          *)
DueRowsServed ==
    \A n \in Names : (n \in DueRows /\ tee # NoRow) ~> (n \notin DueRows)

(* A row that failed is not left behind: it becomes active again or is     *)
(* declared stale, whatever the TEE worker and routing do.                 *)
RetryingIsSettled ==
    \A n \in Names :
        (sched[n] # NoRow /\ sched[n].status = "retrying" /\ tee # NoRow)
            ~> (sched[n] # NoRow /\ sched[n].status # "retrying")

-----------------------------------------------------------------------------
(* The inductive invariant *)

(* The job works on rows it read, under a key state it read *)
JobShape ==
    /\ \A n \in job.todo : job.snap[n] # NoRow
    /\ job.pc \in {"put", "save", "sync", "fail"} =>
          job.at # NoRow /\ job.snap[job.at] # NoRow
    /\ job.pc \in {"sign", "next", "put", "save", "sync", "fail"} => job.ks # NoRow

(* Only keyed publishes enrol *)
EnrolledHasKey ==
    \A r \in Requests : reqs[r] # NoRow /\ reqs[r].enr # "none" => reqs[r].key # 0

TypeInv == TypeOK /\ JobShape /\ EnrolledHasKey

(* Every copy of a schedule row, also those about to be saved, is          *)
(* consistent                                                              *)
CopiesConsistent ==
    /\ StatusMatchesFailures
    /\ \A r \in Requests : reqs[r] # NoRow /\ reqs[r].srow # NoRow
                               => RowConsistent(reqs[r].srow)
    /\ \A n \in Names : job.snap[n] # NoRow => RowConsistent(job.snap[n])

(* A publish is saved by its own request and once; copies of schedule      *)
(* rows name saved publishes                                               *)
RequestsOwnPublishes ==
    \A r \in Requests : reqs[r] # NoRow =>
        LET req == reqs[r] IN
        /\ req.cid <= pubs[req.name]
        /\ req.put = "save" <=> req.cid \notin saved[req.name]
        /\ req.enr # "none" => req.put # "save"
        /\ req.srow # NoRow => req.srow.cid \in saved[req.name]
        /\ \A q \in Requests \ {r} :
              reqs[q] # NoRow /\ reqs[q].name = req.name => reqs[q].cid # req.cid

SnapshotsSaved ==
    \A n \in Names : job.snap[n] # NoRow => job.snap[n].cid \in saved[n]

(* What is saved has begun, and was not saved before it began *)
HistoryOrdered ==
    \A n \in Names :
        /\ saved[n] \subseteq 1 .. pubs[n]
        /\ acked[n] \subseteq saved[n]
        /\ \A c \in Cids : before[n][c] \subseteq saved[n]

(* A name with a saved publish has a row that shows one *)
SavedHasRow ==
    \A n \in Names : saved[n] # {} => folder[n] # NoRow /\ folder[n].cid # 0

Inv ==
    /\ TypeInv
    /\ CopiesConsistent
    /\ RequestsOwnPublishes
    /\ SnapshotsSaved
    /\ HistoryOrdered
    /\ SavedHasRow
    /\ NothingAheadOfDatabase
    /\ DatabaseNotOvertaken
=============================================================================
