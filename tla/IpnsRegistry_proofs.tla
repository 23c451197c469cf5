------------------------ MODULE IpnsRegistry_proofs ------------------------
(* Theorems about IpnsRegistry for every set of names and requests and     *)
(* every bound, and their proofs.                                          *)
EXTENDS IpnsRegistry, TLAPS


-----------------------------------------------------------------------------
(* Type correctness *)

(* What the row operators return *)
LEMMA RowTypes ==
    ASSUME NEW row \in SchedRow
    PROVE  /\ Failed(row) \in SchedRow
           /\ \A ks \in TeeState : Republished(row, ks) \in SchedRow
           /\ \A c \in Cids, s \in Nat, e \in Epochs : Reenrolled(row, c, s, e) \in SchedRow
  <1> USE DEF SchedRow, Status
  <1>1. Failed(row) \in SchedRow
    <2>1. PICK k \in Nat : k = row.failures + 1
      BY row.failures \in Nat
    <2>2. PICK st \in Status : st = IF row.failures + 1 >= MaxFailures
                                   THEN "stale" ELSE "retrying"
      OBVIOUS
    <2>3. Failed(row) = [row EXCEPT !.failures = k, !.due = FALSE, !.status = st]
      BY <2>1, <2>2 DEF Failed
    <2> QED BY <2>3
  <1>2. ASSUME NEW ks \in TeeState PROVE Republished(row, ks) \in SchedRow
    <2>1. row.seq + 1 \in Nat /\ row.cid \in Cids /\ ks.cur \in Epochs
      BY DEF TeeState
    <2> QED BY <2>1 DEF Republished
  <1>3. ASSUME NEW c \in Cids, NEW s \in Nat, NEW e \in Epochs
        PROVE  Reenrolled(row, c, s, e) \in SchedRow
    BY DEF Reenrolled
  <1> QED BY <1>1, <1>2, <1>3

LEMMA EnrollmentType ==
    ASSUME NEW c \in Cids, NEW s \in Nat, NEW e \in Epochs
    PROVE  NewEnrollment(c, s, e) \in SchedRow
  BY DEF SchedRow, Status, NewEnrollment

LEMMA RoutedType ==
    ASSUME NEW n \in Names, NEW rec \in Record, Routed(n, rec),
           routing \in [Names -> Record \cup {NoRow}]
    PROVE  routing' \in [Names -> Record \cup {NoRow}]
  BY DEF Routed

LEMMA UpsertedType ==
    ASSUME NEW req \in Request
    PROVE  Upserted(req) \in FolderRow
  <1>1. req.cid \in 0 .. MaxPub
    BY DEF Request, Cids
  <1>2. PICK s \in Nat : s = IF req.row = NoRow THEN 0 ELSE req.row.seq + 1
    <2>1. CASE req.row = NoRow
      BY <2>1
    <2>2. CASE req.row # NoRow
      <3>1. req.row \in FolderRow
        BY <2>2 DEF Request
      <3>2. req.row.seq \in Nat
        BY <3>1 DEF FolderRow
      <3> QED BY <2>2, <3>2
    <2> QED BY <2>1, <2>2
  <1>3. Upserted(req) = [cid |-> req.cid, seq |-> s]
    BY <1>2 DEF Upserted
  <1> QED BY <1>1, <1>3 DEF FolderRow

LEMMA IdleJobType == IdleJob \in Job
  BY DEF IdleJob, Job

LEMMA FirstEpoch == [cur |-> 1, prev |-> 0] \in TeeState
  BY RegistryAssumption DEF TeeState, Epochs

LEMMA InitType == Init => TypeInv
  <1> SUFFICES ASSUME Init PROVE TypeInv
    OBVIOUS
  <1> USE DEF Init
  <1>1. TypeOK
    <2>1. pubs \in [Names -> 0 .. MaxPub]
      BY RegistryAssumption
    <2>2. tee \in TeeState \cup {NoRow} /\ job \in Job
      BY FirstEpoch, IdleJobType
    <2> QED BY <2>1, <2>2 DEF TypeOK
  <1>2. JobShape
    BY DEF JobShape, IdleJob
  <1>3. EnrolledHasKey
    BY DEF EnrolledHasKey
  <1> QED BY <1>1, <1>2, <1>3 DEF TypeInv

LEMMA RequestStepType ==
    ASSUME TypeInv, NEW r \in Requests, RequestStep(r)
    PROVE  TypeInv'
  <1> USE DEF TypeInv, TypeOK, JobShape, EnrolledHasKey,
              tables, world, client, hist
  <1>1. ASSUME NEW n \in Names, NEW k \in 0 .. MaxEpoch, Publish(r, n, k)
        PROVE  TypeInv'
    <2> DEFINE c == pubs[n] + 1
               req == [put |-> "save", enr |-> "none", name |-> n, cid |-> c,
                       rseq |-> known[n] + 1, key |-> k, row |-> folder[n],
                       srow |-> NoRow, eseq |-> 0]
    <2>1. c \in Cids /\ pubs' \in [Names -> 0 .. MaxPub]
      BY <1>1, RegistryAssumption DEF Publish, Cids
    <2>2. req \in Request
      BY <2>1 DEF Request
    <2>3. known' \in [Names -> Nat]
      BY <1>1 DEF Publish
    <2>4. before' \in [Names -> [Cids -> SUBSET Cids]]
      BY <1>1 DEF Publish
    <2>5. reqs' = [reqs EXCEPT ![r] = req] /\ req.enr = "none"
      BY <1>1 DEF Publish
    <2>6. TypeOK'
      BY <1>1, <2>1, <2>2, <2>3, <2>4, <2>5 DEF Publish
    <2> QED BY <1>1, <2>5, <2>6 DEF Publish
  <1>2. CASE SaveRow(r)
    <2>1. reqs[r] \in Request /\ Upserted(reqs[r]) \in FolderRow
      BY <1>2, UpsertedType DEF SaveRow
    <2> QED BY <1>2, <2>1 DEF SaveRow, Request, FolderRow, Enrols
  <1>3. CASE SaveConflict(r)
    BY <1>3 DEF SaveConflict
  <1>4. CASE RoutePut(r)
    <2>1. reqs[r] \in Request
      BY <1>4 DEF RoutePut
    <2>2. [cid |-> reqs[r].cid, seq |-> reqs[r].rseq] \in Record
      BY <2>1 DEF Request, Record
    <2>3. routing' \in [Names -> Record \cup {NoRow}]
      BY <1>4, <2>1, <2>2, RoutedType DEF RoutePut, Request
    <2> QED BY <1>4, <2>1, <2>3 DEF RoutePut, Request, Settled
  <1>5. CASE EnrollFind(r)
    <2> DEFINE req == [reqs[r] EXCEPT !.enr = "save", !.srow = sched[reqs[r].name]]
    <2>1. reqs[r] \in Request
      BY <1>5 DEF EnrollFind
    <2>2. req \in Request /\ req.key = reqs[r].key
      BY <2>1 DEF Request
    <2>3. reqs' = [reqs EXCEPT ![r] = req]
      BY <1>5, <2>1 DEF EnrollFind
    <2> QED BY <1>5, <2>2, <2>3 DEF EnrollFind
  <1>6. CASE EnrollSave(r)
    <2>0. reqs[r] \in Request /\ reqs[r].key # 0
      BY <1>6 DEF EnrollSave
    <2>1. reqs[r] \in Request /\ reqs[r].key \in Epochs
      BY <2>0 DEF Request, Epochs
    <2> DEFINE req == reqs[r]
               row == IF req.srow = NoRow
                        THEN NewEnrollment(req.cid, req.eseq, req.key)
                        ELSE Reenrolled(req.srow, req.cid, req.eseq, req.key)
    <2>2. row \in SchedRow
      BY <2>1, RowTypes, EnrollmentType DEF Request
    <2>3. sched' \in [Names -> SchedRow \cup {NoRow}]
      BY <1>6, <2>2 DEF EnrollSave
    <2> QED BY <1>6, <2>1, <2>3 DEF EnrollSave, Request, Settled
  <1>7. CASE RequestDbError(r)
    <2>1. reqs[r] \in Request
      BY <1>7 DEF RequestDbError
    <2>2. [reqs[r] EXCEPT !.enr = "none"] \in Request
      BY <2>1 DEF Request
    <2>3. PICK q \in Request \cup {NoRow} :
             /\ reqs' = [reqs EXCEPT ![r] = q]
             /\ q # NoRow => q.enr = "none"
      <3>1. CASE reqs' = [reqs EXCEPT ![r] = RefusedSave(reqs[r])]
        BY <3>1 DEF RefusedSave
      <3>2. CASE reqs' = [reqs EXCEPT ![r] = Settled([reqs[r] EXCEPT !.enr = "none"])]
        <4>1. [reqs[r] EXCEPT !.enr = "none"].enr = "none"
          BY <2>1 DEF Request
        <4> QED BY <2>2, <3>2, <4>1 DEF Settled
      <3> QED BY <1>7, <3>1, <3>2 DEF RequestDbError
    <2> QED BY <1>7, <2>3 DEF RequestDbError
  <1> QED BY <1>1, <1>2, <1>3, <1>4, <1>5, <1>6, <1>7 DEF RequestStep

LEMMA JobStepType ==
    ASSUME TypeInv, JobStep
    PROVE  TypeInv'
  <1> USE DEF TypeInv, TypeOK, JobShape, EnrolledHasKey, Job,
              tables, world, client, hist
  <1>0. IdleJob \in Job /\ IdleJob.pc = "idle" /\ IdleJob.todo = {}
    BY DEF IdleJob
  <1>1. CASE JobStart
    BY <1>1 DEF JobStart, IdleJob, DueRows
  <1>2. CASE JobTeeState
    BY <1>0, <1>2 DEF JobTeeState
  <1>3. CASE JobSign
    BY <1>3 DEF JobSign
  <1>4. CASE JobEnd
    BY <1>0, <1>4 DEF JobEnd
  <1>5. ASSUME NEW n \in Names, JobEntry(n)
        PROVE  TypeInv'
    <2>1. job' = [job EXCEPT !.todo = job.todo \ {n}, !.at = n, !.pc = job'.pc]
      BY <1>5 DEF JobEntry
    <2>2. job'.pc \in {"put", "fail"} /\ job.pc = "next" /\ n \in job.todo
      BY <1>5 DEF JobEntry
    <2>3. job' \in Job
      BY <2>1, <2>2
    <2>4. /\ job'.todo = job.todo \ {n} /\ job'.at = n
          /\ job'.snap = job.snap /\ job'.ks = job.ks
      BY <2>1
    <2>5. JobShape'
      BY <2>2, <2>4, RegistryAssumption
    <2> QED BY <1>5, <2>3, <2>5 DEF JobEntry
  <1>6. CASE JobPut
    <2>1. job.at \in Names /\ job.snap[job.at] \in SchedRow /\ job.ks \in TeeState
      BY <1>6 DEF JobPut
    <2>2. [cid |-> job.snap[job.at].cid, seq |-> job.snap[job.at].seq + 1] \in Record
      BY <2>1 DEF SchedRow, Record
    <2>3. routing' \in [Names -> Record \cup {NoRow}]
      BY <1>6, <2>1, <2>2, RoutedType DEF JobPut
    <2>4. Republished(job.snap[job.at], job.ks) \in SchedRow
      BY <2>1, RowTypes
    <2> DEFINE row == Republished(job.snap[job.at], job.ks)
    <2>a. ASSUME job' = [job EXCEPT !.pc = "save", !.snap[job.at] = row]
          PROVE  job' \in Job /\ JobShape'
      <3>0. row \in SchedRow
        BY <2>4
      <3> HIDE DEF row
      <3>1. job' \in Job
        BY <2>1, <3>0, <2>a
      <3>2. /\ job'.todo = job.todo /\ job'.at = job.at /\ job'.ks = job.ks
            /\ job'.snap = [job.snap EXCEPT ![job.at] = row]
        BY <2>1, <2>a
      <3>3. row # NoRow
        BY <3>0, NoRowAssumption
      <3>4. JobShape'
        <4>1. job.pc = "put" /\ job.at # NoRow /\ job.ks # NoRow
          BY <1>6 DEF JobPut
        <4>2. job.snap \in [Names -> SchedRow \cup {NoRow}] /\ job.todo \subseteq Names
          OBVIOUS
        <4>3. \A n \in Names : job'.snap[n] = IF n = job.at THEN row ELSE job.snap[n]
          BY <3>2, <4>2
        <4>4. \A n \in job.todo : job'.snap[n] # NoRow
          BY <3>3, <4>2, <4>3
        <4>5. job'.snap[job.at] # NoRow
          BY <2>1, <3>3, <4>3
        <4> QED BY <3>2, <4>1, <4>4, <4>5
      <3> QED BY <3>1, <3>4
    <2>b. ASSUME job' = [job EXCEPT !.pc = "fail"]
          PROVE  job' \in Job /\ JobShape'
      <3>1. /\ job'.todo = job.todo /\ job'.at = job.at /\ job'.ks = job.ks
            /\ job'.snap = job.snap /\ job.pc = "put" /\ job'.pc = "fail"
        BY <1>6, <2>b DEF JobPut
      <3>2. job' \in Job
        BY <2>b
      <3> QED BY <3>1, <3>2
    <2>5. job' \in Job /\ JobShape'
      BY <1>6, <2>a, <2>b DEF JobPut
    <2> QED BY <1>6, <2>3, <2>5 DEF JobPut
  <1>7. CASE JobSave
    BY <1>7 DEF JobSave
  <1>8. CASE JobSaveError
    BY <1>8 DEF JobSaveError
  <1>9. CASE JobSync
    <2>1. job.at \in Names /\ job.snap[job.at] \in SchedRow
      BY <1>9 DEF JobSync
    <2>2. Synced(folder[job.at], job.snap[job.at]) \in FolderRow \cup {NoRow}
      BY <2>1 DEF Synced, FolderRow, SchedRow
    <2> QED BY <1>9, <2>1, <2>2 DEF JobSync
  <1>10. CASE JobFail
    <2>1. job.at \in Names /\ Failed(job.snap[job.at]) \in SchedRow
      BY <1>10, RowTypes DEF JobFail
    <2> QED BY <1>10, <2>1 DEF JobFail
  <1>11. CASE JobFailError
    BY <1>0, <1>11 DEF JobFailError
  <1> QED BY <1>1, <1>2, <1>3, <1>4, <1>5, <1>6, <1>7, <1>8, <1>9, <1>10, <1>11
          DEF JobStep

LEMMA OtherStepType ==
    ASSUME TypeInv,
           \/ \E n \in Names : NameStep(n)
           \/ TeeStep \/ Restart \/ Outage \/ Recovery
    PROVE  TypeInv'
  <1> USE DEF TypeInv, TypeOK, JobShape, EnrolledHasKey, tables, world, client, hist
  <1>1. ASSUME NEW n \in Names, CreateRootRow(n)
        PROVE  TypeInv'
    <2>1. [cid |-> 0, seq |-> 0] \in FolderRow
      BY RegistryAssumption DEF FolderRow
    <2> QED BY <1>1, <2>1 DEF CreateRootRow
  <1>2. ASSUME NEW n \in Names, Resolve(n)
        PROVE  TypeInv'
    BY <1>2 DEF Resolve, Resolvable, FolderRow, Record
  <1>3. ASSUME NEW n \in Names, Due(n)
        PROVE  TypeInv'
    <2>1. sched[n] \in SchedRow /\ sched' = [sched EXCEPT ![n] = [sched[n] EXCEPT !.due = TRUE]]
      BY <1>3 DEF Due
    <2>2. [sched[n] EXCEPT !.due = TRUE] \in SchedRow
      BY <2>1 DEF SchedRow
    <2> QED BY <1>3, <2>1, <2>2 DEF Due
  <1>4. ASSUME NEW n \in Names, RecordExpires(n)
        PROVE  TypeInv'
    BY <1>4 DEF RecordExpires
  <1>5. CASE RotateEpoch
    <2>1. [cur |-> tee.cur + 1, prev |-> tee.cur] \in TeeState
      BY <1>5, RegistryAssumption DEF RotateEpoch, TeeState, Epochs
    <2> QED BY <1>5, <2>1 DEF RotateEpoch
  <1>6. CASE DeprecatePreviousEpoch
    <2>1. tee \in TeeState /\ 0 \in 0 .. MaxEpoch
      BY <1>6, RegistryAssumption DEF DeprecatePreviousEpoch
    <2>2. [tee EXCEPT !.prev = 0] \in TeeState
      BY <2>1 DEF TeeState
    <2> QED BY <1>6, <2>2 DEF DeprecatePreviousEpoch
  <1>7. CASE Restart
    <2>1. tee' \in TeeState \cup {NoRow} /\ job' \in Job
      BY <1>7, FirstEpoch, IdleJobType DEF Restart, InitializedTee
    <2>2. JobShape'
      BY <1>7 DEF Restart, IdleJob
    <2> QED BY <1>7, <2>1, <2>2 DEF Restart
  <1>8. CASE Outage
    BY <1>8 DEF Outage
  <1>9. CASE Recovery
    BY <1>9 DEF Recovery
  <1> QED BY <1>1, <1>2, <1>3, <1>4, <1>5, <1>6, <1>7, <1>8, <1>9
          DEF NameStep, TeeStep

LEMMA StutterType == TypeInv /\ UNCHANGED vars => TypeInv'
  BY DEF vars, TypeInv, TypeOK, JobShape, EnrolledHasKey

(* The tables, the requests in flight and the job are always well formed:  *)
(* the job never touches a row it did not read, and nothing enrols a name  *)
(* without a wrapped key.                                                  *)
THEOREM TypeCorrect == Spec => []TypeInv
  <1>1. TypeInv /\ [Next]_vars => TypeInv'
    BY RequestStepType, JobStepType, OtherStepType, StutterType DEF Next
  <1> QED BY <1>1, InitType, PTL DEF Spec

-----------------------------------------------------------------------------
(* The status column and the failure count *)

(* Every way of writing a row leaves status and count in agreement *)
LEMMA RowOperatorsConsistent ==
    ASSUME NEW row \in SchedRow
    PROVE  /\ RowConsistent(row) => RowConsistent(Failed(row))
           /\ \A ks : RowConsistent(Republished(row, ks))
           /\ \A c, s, e : /\ RowConsistent(NewEnrollment(c, s, e))
                           /\ RowConsistent(row) =>
                                 RowConsistent(Reenrolled(row, c, s, e))
           /\ RowConsistent(row) => RowConsistent([row EXCEPT !.due = TRUE])
  <1>1. RowConsistent(row) => RowConsistent(Failed(row))
    <2>1. PICK k \in Nat : k = row.failures
      BY DEF SchedRow
    <2>2. /\ Failed(row).failures = k + 1
          /\ Failed(row).status = IF k + 1 >= MaxFailures THEN "stale" ELSE "retrying"
      BY <2>1 DEF Failed, SchedRow
    <2> QED BY <2>1, <2>2, RegistryAssumption DEF RowConsistent
  <1>2. \A ks : RowConsistent(Republished(row, ks))
    BY DEF RowConsistent, Republished
  <1>3. \A c, s, e : RowConsistent(NewEnrollment(c, s, e))
    BY DEF RowConsistent, NewEnrollment
  <1>4. \A c, s, e : RowConsistent(row) => RowConsistent(Reenrolled(row, c, s, e))
    BY DEF RowConsistent, Reenrolled, SchedRow
  <1>5. RowConsistent(row) => RowConsistent([row EXCEPT !.due = TRUE])
    BY DEF RowConsistent, SchedRow
  <1> QED BY <1>1, <1>2, <1>3, <1>4, <1>5

LEMMA RequestStepConsistent ==
    ASSUME TypeInv, CopiesConsistent, NEW r \in Requests, RequestStep(r)
    PROVE  CopiesConsistent'
  <1> USE DEF TypeInv, TypeOK, CopiesConsistent, StatusMatchesFailures,
              tables, world, client, hist
  <1>1. ASSUME NEW n \in Names, NEW k \in 0 .. MaxEpoch, Publish(r, n, k)
        PROVE  CopiesConsistent'
    BY <1>1 DEF Publish
  <1>2. CASE SaveRow(r)
    BY <1>2 DEF SaveRow, Request
  <1>3. CASE SaveConflict(r)
    BY <1>3 DEF SaveConflict
  <1>4. CASE RoutePut(r)
    BY <1>4 DEF RoutePut, Request, Settled
  <1>5. CASE EnrollFind(r)
    BY <1>5 DEF EnrollFind, Request
  <1>6. CASE EnrollSave(r)
    <2> DEFINE req == reqs[r]
               row == IF req.srow = NoRow
                        THEN NewEnrollment(req.cid, req.eseq, req.key)
                        ELSE Reenrolled(req.srow, req.cid, req.eseq, req.key)
    <2>1. req \in Request /\ req.srow \in SchedRow \cup {NoRow}
      BY <1>6 DEF EnrollSave, Request
    <2>2. RowConsistent(row)
      <3>1. CASE req.srow = NoRow
        BY <3>1 DEF RowConsistent, NewEnrollment
      <3>2. CASE req.srow # NoRow
        <4>1. req # NoRow /\ RowConsistent(req.srow)
          BY <1>6, <3>2 DEF EnrollSave
        <4> QED BY <2>1, <3>2, <4>1, RowOperatorsConsistent
      <3> QED BY <3>1, <3>2
    <2>3. StatusMatchesFailures'
      <3> HIDE DEF row
      <3>1. sched' = [sched EXCEPT ![req.name] = row] \/ UNCHANGED sched
        BY <1>6 DEF EnrollSave, row
      <3> QED BY <2>2, <3>1
    <2>4. PICK q \in {NoRow, [req EXCEPT !.enr = "none"]} :
             reqs' = [reqs EXCEPT ![r] = q]
      BY <1>6 DEF EnrollSave, Settled
    <2>5. q # NoRow => q.srow = req.srow /\ req # NoRow
      BY <1>6, <2>1 DEF Request, EnrollSave
    <2> QED BY <1>6, <2>3, <2>4, <2>5 DEF EnrollSave
  <1>7. CASE RequestDbError(r)
    <2>1. reqs[r] \in Request /\ reqs[r] # NoRow
      BY <1>7 DEF RequestDbError
    <2>2. PICK q \in {NoRow, [reqs[r] EXCEPT !.enr = "none"]} :
             reqs' = [reqs EXCEPT ![r] = q]
      BY <1>7 DEF RequestDbError, RefusedSave, Settled
    <2>3. q # NoRow => q.srow = reqs[r].srow
      BY <2>1 DEF Request
    <2> QED BY <1>7, <2>1, <2>2, <2>3 DEF RequestDbError
  <1> QED BY <1>1, <1>2, <1>3, <1>4, <1>5, <1>6, <1>7 DEF RequestStep

LEMMA JobStepConsistent ==
    ASSUME TypeInv, CopiesConsistent, JobStep
    PROVE  CopiesConsistent'
  <1> USE DEF TypeInv, TypeOK, JobShape, Job, CopiesConsistent,
              StatusMatchesFailures, tables, world, client, hist
  <1>0. \A n \in Names : IdleJob.snap[n] = NoRow
    BY DEF IdleJob
  <1>1. CASE JobStart
    BY <1>1 DEF JobStart, IdleJob, DueRows
  <1>2. CASE JobTeeState
    BY <1>0, <1>2 DEF JobTeeState
  <1>3. CASE JobSign
    BY <1>3 DEF JobSign
  <1>4. CASE JobEnd
    BY <1>0, <1>4 DEF JobEnd
  <1>5. ASSUME NEW n \in Names, JobEntry(n)
        PROVE  CopiesConsistent'
    BY <1>5 DEF JobEntry
  <1>6. CASE JobPut
    <2>1. job.at \in Names /\ job.snap[job.at] \in SchedRow
      BY <1>6 DEF JobPut
    <2>2. PICK row : RowConsistent(row) /\ row = Republished(job.snap[job.at], job.ks)
      BY <2>1, RowOperatorsConsistent
    <2>3. \/ job'.snap = [job.snap EXCEPT ![job.at] = row]
          \/ job'.snap = job.snap
      BY <1>6, <2>2 DEF JobPut
    <2> QED BY <1>6, <2>2, <2>3 DEF JobPut
  <1>7. CASE JobSave
    BY <1>7 DEF JobSave
  <1>8. CASE JobSaveError
    BY <1>8 DEF JobSaveError
  <1>9. CASE JobSync
    BY <1>9 DEF JobSync
  <1>10. CASE JobFail
    <2>1. job.at \in Names /\ job.snap[job.at] \in SchedRow
      BY <1>10 DEF JobFail
    <2>2. RowConsistent(Failed(job.snap[job.at]))
      BY <1>10, <2>1, RowOperatorsConsistent DEF JobFail
    <2> QED BY <1>10, <2>1, <2>2 DEF JobFail
  <1>11. CASE JobFailError
    BY <1>0, <1>11 DEF JobFailError
  <1> QED BY <1>1, <1>2, <1>3, <1>4, <1>5, <1>6, <1>7, <1>8, <1>9, <1>10, <1>11
          DEF JobStep

LEMMA OtherStepConsistent ==
    ASSUME TypeInv, CopiesConsistent,
           \/ \E n \in Names : NameStep(n)
           \/ TeeStep \/ Restart \/ Outage \/ Recovery
    PROVE  CopiesConsistent'
  <1> USE DEF TypeInv, TypeOK, CopiesConsistent, StatusMatchesFailures,
              tables, world, client, hist
  <1>1. ASSUME NEW n \in Names, CreateRootRow(n) \/ Resolve(n) \/ RecordExpires(n)
        PROVE  CopiesConsistent'
    BY <1>1 DEF CreateRootRow, Resolve, RecordExpires
  <1>2. ASSUME NEW n \in Names, Due(n)
        PROVE  CopiesConsistent'
    <2>1. sched[n] \in SchedRow /\ RowConsistent(sched[n])
      BY <1>2 DEF Due
    <2>2. RowConsistent([sched[n] EXCEPT !.due = TRUE])
      BY <2>1, RowOperatorsConsistent
    <2>3. sched' = [sched EXCEPT ![n] = [sched[n] EXCEPT !.due = TRUE]]
      BY <1>2 DEF Due
    <2> QED BY <1>2, <2>2, <2>3 DEF Due
  <1>3. CASE TeeStep
    BY <1>3 DEF TeeStep, RotateEpoch, DeprecatePreviousEpoch
  <1>4. CASE Restart
    BY <1>4 DEF Restart, IdleJob
  <1>5. CASE Outage \/ Recovery
    BY <1>5 DEF Outage, Recovery
  <1> QED BY <1>1, <1>2, <1>3, <1>4, <1>5 DEF NameStep

(* A schedule row is active, retrying or stale exactly as its failure      *)
(* count says, although enrollFolder and the job save whole rows they read *)
(* several awaits earlier.                                                 *)
THEOREM StatusCorrect == Spec => []StatusMatchesFailures
  <1>1. Init => CopiesConsistent
    BY DEF Init, CopiesConsistent, StatusMatchesFailures, IdleJob
  <1>2. TypeInv /\ CopiesConsistent /\ UNCHANGED vars => CopiesConsistent'
    BY DEF vars, CopiesConsistent, StatusMatchesFailures
  <1>3. TypeInv /\ CopiesConsistent /\ [Next]_vars => CopiesConsistent'
    BY <1>2, RequestStepConsistent, JobStepConsistent, OtherStepConsistent DEF Next
  <1>4. CopiesConsistent => StatusMatchesFailures
    BY DEF CopiesConsistent
  <1> QED BY <1>1, <1>3, <1>4, TypeCorrect, PTL DEF Spec

-----------------------------------------------------------------------------
(* The database is a regular register *)

PublishInv ==
    /\ RequestsOwnPublishes
    /\ SnapshotsSaved
    /\ HistoryOrdered
    /\ SavedHasRow
    /\ NothingAheadOfDatabase
    /\ DatabaseNotOvertaken

(* A step that changes no table, request, copy of a row or history          *)
LEMMA PublishFrame ==
    ASSUME PublishInv,
           UNCHANGED <<folder, sched, reqs, routing, pubs, saved, before, acked>>,
           \A n \in Names : job'.snap[n] \in {NoRow, job.snap[n]}
    PROVE  PublishInv'
  BY DEF PublishInv, RequestsOwnPublishes, SnapshotsSaved, HistoryOrdered,
         SavedHasRow, NothingAheadOfDatabase, DatabaseNotOvertaken

(* A step that ends a request, or moves it along after its row was saved *)
LEMMA RequestFrame ==
    ASSUME TypeInv, RequestsOwnPublishes, NEW r \in Requests, NEW q,
           reqs[r] # NoRow,
           reqs' = [reqs EXCEPT ![r] = q],
           UNCHANGED <<pubs, saved>>,
           q # NoRow =>
              /\ q.name = reqs[r].name /\ q.cid = reqs[r].cid
              /\ q.put = "save" <=> reqs[r].put = "save"
              /\ q.enr # "none" => reqs[r].enr # "none"
              /\ q.srow # NoRow => q.srow.cid \in saved[q.name]
    PROVE  RequestsOwnPublishes'
  BY DEF TypeInv, TypeOK, RequestsOwnPublishes

LEMMA RequestStepPublish ==
    ASSUME TypeInv, PublishInv, NEW r \in Requests, RequestStep(r)
    PROVE  PublishInv'
  <1> USE DEF TypeInv, TypeOK, tables, world, client, hist
  <1>1. ASSUME NEW n \in Names, NEW k \in 0 .. MaxEpoch, Publish(r, n, k)
        PROVE  PublishInv'
    <2> USE DEF PublishInv
    <2> DEFINE c == pubs[n] + 1
    <2>1. /\ c \in Cids /\ c \notin saved[n]
          /\ \A q \in Requests : reqs[q] # NoRow /\ reqs[q].name = n => reqs[q].cid # c
      <3>1. pubs[n] \in Nat /\ pubs[n] < MaxPub /\ saved[n] \subseteq 1 .. pubs[n]
        BY <1>1, RegistryAssumption DEF Publish, HistoryOrdered
      <3>2. \A q \in Requests : reqs[q] # NoRow /\ reqs[q].name = n =>
               reqs[q].cid \in Nat /\ reqs[q].cid <= pubs[n]
        BY DEF RequestsOwnPublishes, Request, Cids
      <3> QED BY <3>1, <3>2, RegistryAssumption DEF Cids
    <2>2. /\ before' = [before EXCEPT ![n][c] = saved[n]]
          /\ pubs' = [pubs EXCEPT ![n] = c]
          /\ UNCHANGED <<folder, sched, routing, saved, acked, job>>
      BY <1>1 DEF Publish
    <2>3. HistoryOrdered'
      <3>1. \A m \in Names : pubs'[m] \in Nat /\ pubs[m] \in Nat /\ pubs[m] <= pubs'[m]
        BY <2>2, RegistryAssumption
      <3>2. \A m \in Names : saved[m] \subseteq 1 .. pubs'[m]
        BY <3>1 DEF HistoryOrdered
      <3>3. \A m \in Names : \A b \in Cids : before'[m][b] \subseteq saved[m]
        BY <2>1, <2>2 DEF HistoryOrdered
      <3> QED BY <2>2, <3>2, <3>3 DEF HistoryOrdered
    <2>4. DatabaseNotOvertaken'
      <3>1. \A m \in Names : \A b \in saved[m] : before'[m][b] = before[m][b]
        BY <2>1, <2>2
      <3> QED BY <2>2, <3>1 DEF DatabaseNotOvertaken
    <2>5. RequestsOwnPublishes'
      <3> DEFINE req == [put |-> "save", enr |-> "none", name |-> n, cid |-> c,
                         rseq |-> known[n] + 1, key |-> k, row |-> folder[n],
                         srow |-> NoRow, eseq |-> 0]
      <3>1. reqs' = [reqs EXCEPT ![r] = req] /\ reqs[r] = NoRow
        BY <1>1 DEF Publish
      <3>2. /\ req.name = n /\ req.cid = c /\ req.put = "save"
            /\ req.enr = "none" /\ req.srow = NoRow
        OBVIOUS
      <3> HIDE DEF req
      <3>3. \A m \in Names : pubs'[m] \in Nat /\ pubs[m] \in Nat /\ pubs[m] <= pubs'[m]
        BY <2>2, RegistryAssumption
      <3>4. \A q \in Requests : reqs[q] # NoRow => reqs[q].name \in Names /\ reqs[q].cid \in Nat
        BY DEF Request, Cids
      <3>5. c <= pubs'[n]
        BY <2>2, <3>3
      <3> QED BY <2>1, <2>2, <3>1, <3>2, <3>3, <3>4, <3>5 DEF RequestsOwnPublishes
    <2> QED BY <2>2, <2>3, <2>4, <2>5
            DEF SnapshotsSaved, SavedHasRow, NothingAheadOfDatabase
  <1>2. CASE SaveRow(r)
    <2> USE DEF PublishInv
    <2> DEFINE req == reqs[r]
               n == req.name
               row == Upserted(req)
    <2>1. /\ req \in Request /\ n \in Names /\ req.cid \in Cids /\ req.put = "save"
          /\ req.cid \notin saved[n] /\ req.cid <= pubs[n] /\ req.enr = "none"
          /\ row.cid = req.cid /\ row \in FolderRow /\ req # NoRow
      BY <1>2, UpsertedType DEF SaveRow, Request, RequestsOwnPublishes, Upserted
    <2>2. /\ folder' = [folder EXCEPT ![n] = row]
          /\ saved' = [saved EXCEPT ![n] = saved[n] \cup {req.cid}]
          /\ UNCHANGED <<sched, routing, pubs, before, acked, job>>
      BY <1>2 DEF SaveRow
    <2> DEFINE q == [req EXCEPT !.put = "route", !.eseq = Upserted(req).seq,
                                !.enr = IF Enrols(req) THEN "find" ELSE "none"]
    <2>3. /\ reqs' = [reqs EXCEPT ![r] = q]
          /\ q.put = "route" /\ q.name = n /\ q.cid = req.cid
          /\ q.srow = req.srow
      BY <1>2, <2>1 DEF SaveRow, Request
    <2> HIDE DEF q
    <2> HIDE DEF row
    <2>4. HistoryOrdered'
      <3>1. req.cid \in 1 .. pubs[n]
        BY <2>1, RegistryAssumption DEF Cids
      <3> QED BY <2>1, <2>2, <3>1 DEF HistoryOrdered
    <2>5. DatabaseNotOvertaken'
      <3>1. \A m \in Names \ {n} : folder'[m] = folder[m] /\ saved'[m] = saved[m]
        BY <2>1, <2>2
      <3>2. \A c \in saved'[n] : req.cid \notin before[n][c]
        BY <2>1, <2>2 DEF HistoryOrdered
      <3>3. folder'[n].cid = req.cid
        BY <2>1, <2>2
      <3> QED BY <2>1, <2>2, <3>1, <3>2, <3>3 DEF DatabaseNotOvertaken
    <2>6. RequestsOwnPublishes'
      <3>1. \A p \in Requests : reqs[p] # NoRow => reqs[p] \in Request
        OBVIOUS
      <3> QED BY <2>1, <2>2, <2>3, <3>1 DEF RequestsOwnPublishes, Request
    <2>7. SavedHasRow'
      <3>1. row # NoRow /\ row.cid # 0
        BY <2>1, NoRowAssumption, RegistryAssumption DEF Cids
      <3> QED BY <2>1, <2>2, <3>1 DEF SavedHasRow
    <2>8. SnapshotsSaved' /\ NothingAheadOfDatabase'
      BY <2>1, <2>2 DEF SnapshotsSaved, NothingAheadOfDatabase
    <2> QED BY <2>4, <2>5, <2>6, <2>7, <2>8
  <1>3. CASE SaveConflict(r)
    <2>1. RequestsOwnPublishes'
      BY <1>3, RequestFrame DEF SaveConflict, PublishInv
    <2> QED BY <1>3, <2>1 DEF SaveConflict, PublishInv, SnapshotsSaved,
                 HistoryOrdered, SavedHasRow, NothingAheadOfDatabase, DatabaseNotOvertaken
  <1>4. CASE RoutePut(r)
    <2> USE DEF PublishInv
    <2> DEFINE req == reqs[r]
    <2>1. /\ req \in Request /\ req # NoRow /\ req.put = "route" /\ req.name \in Names
          /\ req.cid \in saved[req.name]
          /\ req.srow # NoRow => req.srow.cid \in saved[req.name]
      BY <1>4 DEF RoutePut, Request, RequestsOwnPublishes
    <2>2. PICK q \in {NoRow, [req EXCEPT !.put = "done"]} : reqs' = [reqs EXCEPT ![r] = q]
      BY <1>4 DEF RoutePut, Settled
    <2>3. RequestsOwnPublishes'
      <3>1. q # NoRow => /\ q.name = req.name /\ q.cid = req.cid /\ q.put = "done"
                         /\ q.enr = req.enr /\ q.srow = req.srow
        BY <2>1, <2>2 DEF Request
      <3>2. UNCHANGED <<pubs, saved>>
        BY <1>4 DEF RoutePut
      <3> QED BY <2>1, <2>2, <3>1, <3>2, RequestFrame
    <2>4. NothingAheadOfDatabase'
      <3>1. \A m \in Names : routing'[m] # NoRow /\ routing'[m] # routing[m] =>
               m = req.name /\ routing'[m].cid = req.cid
        BY <1>4, <2>1 DEF RoutePut, Routed
      <3> QED BY <1>4, <2>1, <3>1 DEF RoutePut, NothingAheadOfDatabase
    <2>5. HistoryOrdered'
      BY <1>4, <2>1 DEF RoutePut, HistoryOrdered
    <2> QED BY <1>4, <2>3, <2>4, <2>5
            DEF RoutePut, SnapshotsSaved, SavedHasRow, DatabaseNotOvertaken
  <1>5. CASE EnrollFind(r)
    <2> DEFINE req == reqs[r]
               q == [req EXCEPT !.enr = "save", !.srow = sched[req.name]]
    <2>1. req \in Request /\ req # NoRow /\ req.name \in Names /\ req.enr = "find"
      BY <1>5 DEF EnrollFind, Request
    <2>2. reqs' = [reqs EXCEPT ![r] = q]
      BY <1>5, <2>1 DEF EnrollFind
    <2>3. /\ q.name = req.name /\ q.cid = req.cid /\ q.put = req.put
          /\ q.srow = sched[req.name]
      BY <2>1 DEF Request
    <2>4. RequestsOwnPublishes'
      <3>1. q.srow # NoRow => q.srow.cid \in saved[q.name]
        BY <2>1, <2>3 DEF PublishInv, NothingAheadOfDatabase
      <3>2. UNCHANGED <<pubs, saved>> /\ RequestsOwnPublishes
        BY <1>5 DEF EnrollFind, PublishInv
      <3> HIDE DEF q
      <3> QED BY <2>1, <2>2, <2>3, <3>1, <3>2, RequestFrame
    <2> QED BY <1>5, <2>4 DEF EnrollFind, PublishInv, SnapshotsSaved,
                 HistoryOrdered, SavedHasRow, NothingAheadOfDatabase, DatabaseNotOvertaken
  <1>6. CASE EnrollSave(r)
    <2> USE DEF PublishInv
    <2> DEFINE req == reqs[r]
    <2>1. /\ req \in Request /\ req # NoRow /\ req.name \in Names /\ req.enr = "save"
          /\ req.cid \in saved[req.name]
          /\ req.srow # NoRow => req.srow.cid \in saved[req.name]
      BY <1>6 DEF EnrollSave, Request, RequestsOwnPublishes
    <2>2. PICK q \in {NoRow, [req EXCEPT !.enr = "none"]} : reqs' = [reqs EXCEPT ![r] = q]
      BY <1>6 DEF EnrollSave, Settled
    <2>3. RequestsOwnPublishes'
      <3>1. q # NoRow => /\ q.name = req.name /\ q.cid = req.cid /\ q.put = req.put
                         /\ q.enr = "none" /\ q.srow = req.srow
        BY <2>1, <2>2 DEF Request
      <3>2. UNCHANGED <<pubs, saved>>
        BY <1>6 DEF EnrollSave
      <3> QED BY <2>1, <2>2, <3>1, <3>2, RequestFrame
    <2>4. NothingAheadOfDatabase'
      <3>1. PICK row : /\ sched' = [sched EXCEPT ![req.name] = row] \/ UNCHANGED sched
                       /\ row.cid = req.cid
        <4>1. NewEnrollment(req.cid, req.eseq, req.key).cid = req.cid
          BY DEF NewEnrollment
        <4>2. req.srow \in SchedRow =>
                 Reenrolled(req.srow, req.cid, req.eseq, req.key).cid = req.cid
          BY DEF Reenrolled, SchedRow
        <4>3. req.srow \in SchedRow \cup {NoRow}
          BY <2>1 DEF Request
        <4> QED BY <1>6, <4>1, <4>2, <4>3 DEF EnrollSave
      <3> QED BY <1>6, <2>1, <3>1 DEF EnrollSave, NothingAheadOfDatabase
    <2> QED BY <1>6, <2>3, <2>4 DEF EnrollSave, SnapshotsSaved, HistoryOrdered,
                 SavedHasRow, DatabaseNotOvertaken
  <1>7. CASE RequestDbError(r)
    <2>1. reqs[r] \in Request /\ reqs[r] # NoRow
      BY <1>7 DEF RequestDbError
    <2>2. PICK q \in {NoRow, [reqs[r] EXCEPT !.enr = "none"]} :
             reqs' = [reqs EXCEPT ![r] = q]
      BY <1>7 DEF RequestDbError, RefusedSave, Settled
    <2>3. q # NoRow => /\ q.name = reqs[r].name /\ q.cid = reqs[r].cid
                       /\ q.put = reqs[r].put /\ q.enr = "none" /\ q.srow = reqs[r].srow
      BY <2>1 DEF Request
    <2>4. RequestsOwnPublishes'
      BY <1>7, <2>1, <2>2, <2>3, RequestFrame
         DEF RequestDbError, PublishInv, RequestsOwnPublishes
    <2> QED BY <1>7, <2>4 DEF RequestDbError, PublishInv, SnapshotsSaved,
                 HistoryOrdered, SavedHasRow, NothingAheadOfDatabase, DatabaseNotOvertaken
  <1> QED BY <1>1, <1>2, <1>3, <1>4, <1>5, <1>6, <1>7 DEF RequestStep

(* syncFolderIpnsSequence touches neither which rows exist nor their CIDs *)
LEMMA SyncKeepsCid ==
    ASSUME TypeInv, JobSync
    PROVE  \A n \in Names : /\ folder'[n] = NoRow <=> folder[n] = NoRow
                            /\ folder'[n] # NoRow => folder'[n].cid = folder[n].cid
  <1> USE DEF TypeInv, TypeOK, JobShape, Job
  <1>1. job.at \in Names /\ job.snap[job.at].seq \in Nat
    BY DEF JobSync, SchedRow
  <1>2. PICK f : /\ f = NoRow <=> folder[job.at] = NoRow
                 /\ f # NoRow => f.cid = folder[job.at].cid
                 /\ f = Synced(folder[job.at], job.snap[job.at])
    <2>1. CASE folder[job.at] = NoRow
      BY <2>1 DEF Synced
    <2>2. CASE folder[job.at] # NoRow
      <3>1. folder[job.at] \in FolderRow
        BY <1>1, <2>2
      <3>2. [folder[job.at] EXCEPT !.seq = job.snap[job.at].seq] \in FolderRow
        BY <1>1, <3>1 DEF FolderRow
      <3> QED BY <2>2, <3>1, <3>2, NoRowAssumption DEF Synced, FolderRow
    <2> QED BY <2>1, <2>2
  <1>3. folder' = [folder EXCEPT ![job.at] = f] \/ UNCHANGED folder
    BY <1>2 DEF JobSync
  <1> QED BY <1>1, <1>2, <1>3

LEMMA JobStepPublish ==
    ASSUME TypeInv, PublishInv, JobStep
    PROVE  PublishInv'
  <1> USE DEF TypeInv, TypeOK, JobShape, Job, tables, world, client, hist
  <1>0. \A n \in Names : IdleJob.snap[n] = NoRow
    BY DEF IdleJob
  <1>1. CASE JobStart
    <2>1. SnapshotsSaved'
      BY <1>1 DEF JobStart, IdleJob, DueRows, PublishInv, NothingAheadOfDatabase,
                  SnapshotsSaved
    <2> QED BY <1>1, <2>1 DEF JobStart, PublishInv, RequestsOwnPublishes,
                 HistoryOrdered, SavedHasRow, NothingAheadOfDatabase, DatabaseNotOvertaken
  <1>2. CASE JobTeeState
    BY <1>0, <1>2, PublishFrame DEF JobTeeState
  <1>3. CASE JobSign
    BY <1>3, PublishFrame DEF JobSign
  <1>4. CASE JobEnd
    BY <1>0, <1>4, PublishFrame DEF JobEnd
  <1>5. ASSUME NEW n \in Names, JobEntry(n)
        PROVE  PublishInv'
    BY <1>5, PublishFrame DEF JobEntry
  <1>6. CASE JobPut
    <2> DEFINE row == job.snap[job.at]
    <2>1. job.at \in Names /\ row \in SchedRow /\ row.cid \in saved[job.at]
      BY <1>6 DEF JobPut, PublishInv, SnapshotsSaved
    <2>2. SnapshotsSaved'
      <3>1. Republished(row, job.ks).cid = row.cid
        BY DEF Republished
      <3>2. job'.snap = [job.snap EXCEPT ![job.at] = Republished(row, job.ks)]
              \/ job'.snap = job.snap
        BY <1>6 DEF JobPut
      <3> QED BY <1>6, <2>1, <3>1, <3>2 DEF JobPut, PublishInv, SnapshotsSaved
    <2>3. NothingAheadOfDatabase'
      <3>1. \A m \in Names : routing'[m] # NoRow /\ routing'[m] # routing[m] =>
               m = job.at /\ routing'[m].cid = row.cid
        BY <1>6, <2>1 DEF JobPut, Routed
      <3> QED BY <1>6, <2>1, <3>1 DEF JobPut, PublishInv, NothingAheadOfDatabase
    <2> QED BY <1>6, <2>2, <2>3 DEF JobPut, PublishInv, RequestsOwnPublishes,
                 HistoryOrdered, SavedHasRow, DatabaseNotOvertaken
  <1>7. CASE JobSave
    <2>1. NothingAheadOfDatabase'
      BY <1>7 DEF JobSave, PublishInv, NothingAheadOfDatabase, SnapshotsSaved
    <2> QED BY <1>7, <2>1 DEF JobSave, PublishInv, RequestsOwnPublishes, SnapshotsSaved,
                 HistoryOrdered, SavedHasRow, DatabaseNotOvertaken
  <1>8. CASE JobSaveError
    BY <1>8, PublishFrame DEF JobSaveError
  <1>9. CASE JobSync
    <2>1. \A n \in Names : /\ folder'[n] = NoRow <=> folder[n] = NoRow
                           /\ folder'[n] # NoRow => folder'[n].cid = folder[n].cid
      BY <1>9, SyncKeepsCid
    <2>2. /\ UNCHANGED <<sched, reqs, routing, pubs, saved, before, acked>>
          /\ job'.snap = job.snap
      BY <1>9 DEF JobSync
    <2>3. SavedHasRow' /\ DatabaseNotOvertaken'
      BY <2>1, <2>2 DEF PublishInv, SavedHasRow, DatabaseNotOvertaken
    <2> QED BY <2>2, <2>3 DEF PublishInv, RequestsOwnPublishes, SnapshotsSaved,
                 HistoryOrdered, NothingAheadOfDatabase
  <1>10. CASE JobFail
    <2>1. job.at \in Names /\ job.snap[job.at] \in SchedRow
      BY <1>10 DEF JobFail
    <2>2. Failed(job.snap[job.at]).cid = job.snap[job.at].cid
      BY <2>1 DEF Failed, SchedRow
    <2>3. NothingAheadOfDatabase'
      BY <1>10, <2>1, <2>2 DEF JobFail, PublishInv, NothingAheadOfDatabase, SnapshotsSaved
    <2> QED BY <1>10, <2>3 DEF JobFail, PublishInv, RequestsOwnPublishes, SnapshotsSaved,
                 HistoryOrdered, SavedHasRow, DatabaseNotOvertaken
  <1>11. CASE JobFailError
    BY <1>0, <1>11, PublishFrame DEF JobFailError
  <1> QED BY <1>1, <1>2, <1>3, <1>4, <1>5, <1>6, <1>7, <1>8, <1>9, <1>10, <1>11
          DEF JobStep

LEMMA OtherStepPublish ==
    ASSUME TypeInv, PublishInv,
           \/ \E n \in Names : NameStep(n)
           \/ TeeStep \/ Restart \/ Outage \/ Recovery
    PROVE  PublishInv'
  <1> USE DEF TypeInv, TypeOK, tables, world, client, hist
  <1>1. ASSUME NEW n \in Names, CreateRootRow(n)
        PROVE  PublishInv'
    <2> USE DEF PublishInv
    <2>1. saved[n] = {}
      BY <1>1 DEF CreateRootRow, SavedHasRow
    <2>2. folder' = [folder EXCEPT ![n] = [cid |-> 0, seq |-> 0]]
      BY <1>1 DEF CreateRootRow
    <2>3. SavedHasRow' /\ DatabaseNotOvertaken'
      BY <1>1, <2>1, <2>2 DEF CreateRootRow, SavedHasRow, DatabaseNotOvertaken
    <2> QED BY <1>1, <2>3 DEF CreateRootRow, RequestsOwnPublishes, SnapshotsSaved,
                 HistoryOrdered, NothingAheadOfDatabase
  <1>2. ASSUME NEW n \in Names, Resolve(n)
        PROVE  PublishInv'
    BY <1>2, PublishFrame DEF Resolve
  <1>3. ASSUME NEW n \in Names, Due(n)
        PROVE  PublishInv'
    <2>1. sched[n] \in SchedRow /\ sched' = [sched EXCEPT ![n] = [sched[n] EXCEPT !.due = TRUE]]
      BY <1>3 DEF Due
    <2>2. [sched[n] EXCEPT !.due = TRUE].cid = sched[n].cid
      BY <2>1 DEF SchedRow
    <2>3. NothingAheadOfDatabase'
      BY <1>3, <2>1, <2>2 DEF Due, PublishInv, NothingAheadOfDatabase
    <2> QED BY <1>3, <2>3 DEF Due, PublishInv, RequestsOwnPublishes, SnapshotsSaved,
                 HistoryOrdered, SavedHasRow, DatabaseNotOvertaken
  <1>4. ASSUME NEW n \in Names, RecordExpires(n)
        PROVE  PublishInv'
    BY <1>4 DEF RecordExpires, PublishInv, RequestsOwnPublishes, SnapshotsSaved,
                HistoryOrdered, SavedHasRow, NothingAheadOfDatabase, DatabaseNotOvertaken
  <1>5. CASE TeeStep
    BY <1>5, PublishFrame DEF TeeStep, RotateEpoch, DeprecatePreviousEpoch
  <1>6. CASE Restart
    BY <1>6 DEF Restart, IdleJob, PublishInv, RequestsOwnPublishes, SnapshotsSaved,
                HistoryOrdered, SavedHasRow, NothingAheadOfDatabase, DatabaseNotOvertaken
  <1>7. CASE Outage \/ Recovery
    BY <1>7, PublishFrame DEF Outage, Recovery
  <1> QED BY <1>1, <1>2, <1>3, <1>4, <1>5, <1>6, <1>7 DEF NameStep

LEMMA PublishInductive == Spec => []PublishInv
  <1>1. Init => PublishInv
    BY RegistryAssumption
       DEF Init, IdleJob, PublishInv, RequestsOwnPublishes, SnapshotsSaved,
           HistoryOrdered, SavedHasRow, NothingAheadOfDatabase, DatabaseNotOvertaken
  <1>2. TypeInv /\ PublishInv /\ UNCHANGED vars => PublishInv'
    BY PublishFrame DEF vars
  <1>3. TypeInv /\ PublishInv /\ [Next]_vars => PublishInv'
    BY <1>2, RequestStepPublish, JobStepPublish, OtherStepPublish DEF Next
  <1> QED BY <1>1, <1>3, TypeCorrect, PTL DEF Spec

(* folder_ipns.latest_cid is a regular register: overlapping publishes may *)
(* land in either order, but a finished one is never undone by a request,  *)
(* an enrolment, the republish job or a restart.                           *)
THEOREM DatabaseRegular == Spec => []DatabaseNotOvertaken
  <1>1. PublishInv => DatabaseNotOvertaken
    BY DEF PublishInv
  <1> QED BY <1>1, PublishInductive, PTL

(* "Save to DB first so resolve always has a fallback": a name with a      *)
(* publish answered "success" always resolves from the database.           *)
THEOREM FallbackAlwaysThere == Spec => []AckedResolvable
  <1>1. PublishInv => AckedResolvable
    BY DEF PublishInv, AckedResolvable, HistoryOrdered, SavedHasRow
  <1> QED BY <1>1, PublishInductive, PTL

(* Routing and the republish schedule only ever name metadata the database *)
(* has held.                                                               *)
THEOREM DatabaseFirst == Spec => []NothingAheadOfDatabase
  <1>1. PublishInv => NothingAheadOfDatabase
    BY DEF PublishInv
  <1> QED BY <1>1, PublishInductive, PTL

-----------------------------------------------------------------------------
(* folder_ipns implements MetadataRegister *)

LEMMA PublishBegins ==
    ASSUME TypeInv, NEW r \in Requests, NEW n \in Names, NEW k \in 0 .. MaxEpoch,
           Publish(r, n, k)
    PROVE  Register!Begin(n)
  BY DEF Publish, Register!Begin, DatabaseCid, tables, hist

LEMMA SaveTakesEffect ==
    ASSUME TypeInv, PublishInv, NEW r \in Requests, SaveRow(r)
    PROVE  \E n \in Names, c \in Cids : Register!TakeEffect(n, c)
  <1> DEFINE req == reqs[r]
             n == req.name
             row == Upserted(req)
  <1>1. req \in Request /\ req # NoRow /\ req.put = "save"
    BY DEF SaveRow, TypeInv, TypeOK
  <1>2. /\ n \in Names /\ req.cid \in Cids /\ req.cid <= pubs[n]
        /\ req.cid \notin saved[n]
    BY <1>1 DEF Request, PublishInv, RequestsOwnPublishes
  <1>3. row \in FolderRow /\ row # NoRow /\ row.cid = req.cid
    BY <1>1, UpsertedType, NoRowAssumption DEF Upserted
  <1>4. folder' = [folder EXCEPT ![n] = row] /\ UNCHANGED <<pubs, before>>
    BY DEF SaveRow, client
  <1> HIDE DEF row
  <1>5. DatabaseCid' = [DatabaseCid EXCEPT ![n] = req.cid]
    BY <1>2, <1>3, <1>4 DEF DatabaseCid, TypeInv, TypeOK
  <1>6. saved' = [saved EXCEPT ![n] = saved[n] \cup {req.cid}]
    BY DEF SaveRow
  <1>7. Register!TakeEffect(n, req.cid)
    BY <1>2, <1>4, <1>5, <1>6 DEF Register!TakeEffect
  <1> QED BY <1>2, <1>7

(* Every other step leaves the register alone *)
LEMMA OthersStutter ==
    ASSUME TypeInv,
           \/ \E r \in Requests : \/ SaveConflict(r) \/ RoutePut(r) \/ EnrollFind(r)
                                 \/ EnrollSave(r) \/ RequestDbError(r)
           \/ \E n \in Names : NameStep(n)
           \/ JobStep \/ TeeStep \/ Restart \/ Outage \/ Recovery
           \/ UNCHANGED vars
    PROVE  UNCHANGED <<DatabaseCid, pubs, saved, before>>
  <1> USE DEF tables, world, client, hist, DatabaseCid
  <1>1. CASE \E r \in Requests : \/ SaveConflict(r) \/ RoutePut(r) \/ EnrollFind(r)
                                 \/ EnrollSave(r) \/ RequestDbError(r)
    BY <1>1 DEF SaveConflict, RoutePut, EnrollFind, EnrollSave, RequestDbError
  <1>2. ASSUME NEW n \in Names, NameStep(n)
        PROVE  UNCHANGED <<DatabaseCid, pubs, saved, before>>
    <2>1. CASE CreateRootRow(n)
      <3>1. /\ UNCHANGED <<pubs, saved, before>> /\ folder[n] = NoRow
            /\ folder' = [folder EXCEPT ![n] = [cid |-> 0, seq |-> 0]]
        BY <2>1 DEF CreateRootRow
      <3> QED BY <3>1 DEF TypeInv, TypeOK
    <2>2. CASE Resolve(n) \/ Due(n) \/ RecordExpires(n)
      BY <2>2 DEF Resolve, Due, RecordExpires
    <2> QED BY <1>2, <2>1, <2>2 DEF NameStep
  <1>3. CASE JobSync
    <2>1. \A m \in Names : /\ folder'[m] = NoRow <=> folder[m] = NoRow
                           /\ folder'[m] # NoRow => folder'[m].cid = folder[m].cid
      BY <1>3, SyncKeepsCid DEF TypeInv, TypeOK
    <2> QED BY <1>3, <2>1 DEF JobSync
  <1>4. CASE JobStep /\ ~JobSync
    BY <1>4 DEF JobStep, JobStart, JobTeeState, JobSign, JobEntry, JobEnd, JobPut,
                JobSave, JobSaveError, JobFail, JobFailError
  <1>5. CASE TeeStep \/ Restart \/ Outage \/ Recovery \/ UNCHANGED vars
    BY <1>5 DEF TeeStep, RotateEpoch, DeprecatePreviousEpoch, Restart, Outage,
                Recovery, vars
  <1> QED BY <1>1, <1>2, <1>3, <1>4, <1>5

(* The pipeline is a register per name: a publish takes effect once, at    *)
(* the save of its row, or never, and nothing else changes the value.      *)
THEOREM RegisterImplemented == Spec => ImplementsRegister
  <1>1. Init => Register!RegisterInit
    BY DEF Init, Register!RegisterInit, DatabaseCid, Cids, Register!Publishes
  <1>2. TypeInv /\ PublishInv /\ [Next]_vars
          => [Register!RegisterNext]_<<DatabaseCid, pubs, saved, before>>
    <2> SUFFICES ASSUME TypeInv, PublishInv, [Next]_vars
                 PROVE  \/ Register!RegisterNext
                        \/ UNCHANGED <<DatabaseCid, pubs, saved, before>>
      OBVIOUS
    <2>1. ASSUME NEW r \in Requests, NEW n \in Names, NEW k \in 0 .. MaxEpoch,
                 Publish(r, n, k)
          PROVE  Register!RegisterNext
      BY <2>1, PublishBegins DEF Register!RegisterNext
    <2>2. ASSUME NEW r \in Requests, SaveRow(r)
          PROVE  Register!RegisterNext
      BY <2>2, SaveTakesEffect DEF Register!RegisterNext, Cids, Register!Publishes
    <2> QED BY <2>1, <2>2, OthersStutter DEF Next, RequestStep
  <1> QED BY <1>1, <1>2, TypeCorrect, PublishInductive, PTL
          DEF Spec, ImplementsRegister, Register!RegisterSpec, Register!registerVars
=============================================================================
