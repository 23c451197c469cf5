------------------------ MODULE DeviceApproval_proofs ------------------------
(* Theorems about ApprovalBoard with any clients, and about DeviceApproval *)
(* for every number of hooks, devices, requests and concurrent calls.      *)
(*                                                                         *)
(* The board: a row is only written under its lock or by a statement that  *)
(* waits for the lock, so the checks of a respond transaction still hold   *)
(* when it commits.  The clients implement the environment the board       *)
(* assumes, so what holds of it holds in the composition.                  *)
EXTENDS DeviceApproval, TLAPS

-----------------------------------------------------------------------------
(* The board *)

(* The initial state satisfies the invariant. *)
LEMMA InitInv == BoardInit => BoardInv
<1>1. SUFFICES ASSUME BoardInit PROVE BoardInv
  OBVIOUS
<1>2. BoardTypeOK
  BY <1>1 DEF BoardInit, BoardTypeOK, Actions
<1>3. \A q \in Requests : Decisions(q) = 0
  BY <1>1 DEF BoardInit, Decisions, Actions
<1> QED
  BY <1>1, <1>2, <1>3 DEF BoardInit, BoardInv, CallsHaveRequest, OneDecision,
     RowMatchesDecision, RespondHoldsLock, CreatesItsOwn, KnownRequests,
     StaleCopies, At

(* A step that only moves the handler of one call without a lock on, to    *)
(* its end or to a write of what it read, keeps the invariant.             *)
LEMMA ReadStep ==
    ASSUME BoardInv, NEW c \in Calls, NEW call \in Call,
           calls[c] # Nobody, calls' = [calls EXCEPT ![c] = call],
           UNCHANGED <<rows, used, decided, lock>>,
           call.op = calls[c].op, call.req = calls[c].req,
           calls[c].at # "done" \/ call.at = "done",
           call.op = "respond" => call.at = "done",
           call.op = "status" /\ call.at = "write" =>
               /\ call.copy # Nobody /\ ~call.copy.key /\ call.copy.by # call.copy.dev
               /\ rows[call.req] # Nobody
    PROVE  BoardInv'
<1> USE DEF At
<1>1. BoardTypeOK'
  BY DEF BoardInv, BoardTypeOK
<1>2. CallsHaveRequest'
  BY DEF BoardInv, BoardTypeOK, CallsHaveRequest
<1>3. OneDecision' /\ RowMatchesDecision'
  BY DEF BoardInv, OneDecision, RowMatchesDecision, Decisions
<1>4. RespondHoldsLock'
  BY DEF BoardInv, BoardTypeOK, RespondHoldsLock
<1>5. CreatesItsOwn'
  BY DEF BoardInv, BoardTypeOK, CreatesItsOwn, Decisions
<1>6. KnownRequests'
  BY DEF BoardInv, BoardTypeOK, KnownRequests, Decisions
<1>7. StaleCopies'
  BY DEF BoardInv, BoardTypeOK, StaleCopies, CreatesItsOwn
<1> QED
  BY <1>1, <1>2, <1>3, <1>4, <1>5, <1>6, <1>7 DEF BoardInv

(* A handler that only reads keeps the invariant. *)
LEMMA FindSteps ==
    ASSUME BoardInv, NEW c \in Calls,
           CreateCount(c) \/ StatusFind(c) \/ CancelFind(c) \/ List(c)
    PROVE  BoardInv'
<1> USE DEF At, Answers
<1>1. calls[c] # Nobody
  BY DEF CreateCount, StatusFind, CancelFind, List
<1>2. calls[c] \in Call /\ (calls[c].op # "list" => calls[c].req \in Requests)
  BY <1>1 DEF BoardInv, BoardTypeOK, CallsHaveRequest
<1>3. CASE CreateCount(c)
  <2>1. CASE calls' = Answered(c, "rejected")
    <3> DEFINE new == [calls[c] EXCEPT !.at = "done", !.answer = "rejected"]
    <3>1. new \in Call /\ calls' = [calls EXCEPT ![c] = new]
      BY <1>1, <1>2, <2>1 DEF Answered, Call
    <3> QED
      BY <1>1, <1>2, <1>3, <3>1, ReadStep DEF CreateCount, Call
  <2>2. CASE calls' = [calls EXCEPT ![c].at = "write"]
    <3> DEFINE new == [calls[c] EXCEPT !.at = "write"]
    <3>1. new \in Call /\ calls' = [calls EXCEPT ![c] = new]
      BY <1>1, <1>2, <2>2 DEF Call
    <3> QED
      BY <1>1, <1>2, <1>3, <3>1, ReadStep DEF CreateCount, Call
  <2> QED
    BY <1>3, <2>1, <2>2 DEF CreateCount
<1>4. CASE StatusFind(c)
  <2> DEFINE row == rows[calls[c].req]
  <2>1. row \in Row \cup {Nobody} /\ calls[c].op = "status" /\ calls[c].at = "find"
    BY <1>2, <1>4 DEF StatusFind, BoardInv, BoardTypeOK
  <2>2. row # Nobody /\ PastTtl(row) => ~row.key /\ row.by # row.dev
    BY <1>2, <2>1 DEF PastTtl, BoardInv, RowMatchesDecision
  <2>3. CASE calls' = Answered(c, "missing")
    <3> DEFINE new == [calls[c] EXCEPT !.at = "done", !.answer = "missing"]
    <3>1. new \in Call /\ calls' = [calls EXCEPT ![c] = new]
      BY <1>1, <1>2, <2>3 DEF Answered, Call
    <3> QED
      BY <1>1, <1>2, <1>4, <3>1, ReadStep DEF StatusFind, Call
  <2>4. CASE row # Nobody /\ PastTtl(row) /\ calls' = Reading(c, row)
    <3> DEFINE new == [calls[c] EXCEPT !.at = "write", !.copy = row]
    <3>1. new \in Call /\ calls' = [calls EXCEPT ![c] = new]
      BY <1>1, <1>2, <2>1, <2>4 DEF Reading, Call
    <3> QED
      BY <1>1, <1>2, <1>4, <2>1, <2>2, <2>4, <3>1, ReadStep DEF StatusFind, Call
  <2>5. CASE row # Nobody /\ calls' = [calls EXCEPT ![c].at = "done",
                                        ![c].answer = row.status, ![c].copy = row]
    <3> DEFINE new == [calls[c] EXCEPT !.at = "done", !.answer = row.status, !.copy = row]
    <3>1. new \in Call /\ calls' = [calls EXCEPT ![c] = new]
      BY <1>1, <1>2, <2>1, <2>5 DEF Call, Row
    <3> QED
      BY <1>1, <1>2, <1>4, <2>1, <3>1, ReadStep DEF StatusFind, Call
  <2> QED
    BY <1>4, <2>3, <2>4, <2>5 DEF StatusFind
<1>5. CASE CancelFind(c)
  <2> DEFINE row == rows[calls[c].req]
  <2>1. row \in Row \cup {Nobody} /\ calls[c].op = "cancel" /\ calls[c].at = "find"
    BY <1>2, <1>5 DEF CancelFind, BoardInv, BoardTypeOK
  <2>2. CASE calls' = Answered(c, "missing")
    <3> DEFINE new == [calls[c] EXCEPT !.at = "done", !.answer = "missing"]
    <3>1. new \in Call /\ calls' = [calls EXCEPT ![c] = new]
      BY <1>1, <1>2, <2>2 DEF Answered, Call
    <3> QED
      BY <1>1, <1>2, <1>5, <3>1, ReadStep DEF CancelFind, Call
  <2>3. CASE calls' = Reading(c, row)
    <3> DEFINE new == [calls[c] EXCEPT !.at = "write", !.copy = row]
    <3>1. new \in Call /\ calls' = [calls EXCEPT ![c] = new]
      BY <1>1, <1>2, <2>1, <2>3 DEF Reading, Call
    <3> QED
      BY <1>1, <1>2, <1>5, <2>1, <3>1, ReadStep DEF CancelFind, Call
  <2> QED
    BY <1>5, <2>2, <2>3 DEF CancelFind
<1>6. CASE List(c)
  <2> DEFINE new == [calls[c] EXCEPT !.at = "done", !.answer = "listed", !.ids = Pending]
  <2>1. new \in Call /\ calls' = [calls EXCEPT ![c] = new]
    BY <1>1, <1>2, <1>6 DEF List, Call, Pending
  <2> QED
    BY <1>1, <1>2, <1>6, <2>1, ReadStep DEF List, Call
<1> QED
  BY <1>3, <1>4, <1>5, <1>6

(* A call that begins: only a creation is recorded, for an unused request. *)
LEMMA StartStep ==
    ASSUME BoardInv, NEW c \in Calls, NEW call \in Call, Start(c, call),
           call.at = "find", call.op # "list" => call.req \in Requests,
           call.op \notin {"create", "list"} => call.req \in used,
           call.op = "list" => call.req = Nobody
    PROVE  BoardInv'
<1> USE DEF At
<1>1. /\ calls' = [calls EXCEPT ![c] = call] /\ calls[c] = Nobody
      /\ UNCHANGED <<rows, lock, decided>>
      /\ used' = IF call.op = "create" THEN used \cup {call.req} ELSE used
      /\ call.op = "create" => call.req \notin used
  BY DEF Start
<1>2. BoardTypeOK'
  BY <1>1 DEF BoardInv, BoardTypeOK
<1>3. CallsHaveRequest'
  BY <1>1 DEF BoardInv, BoardTypeOK, CallsHaveRequest
<1>4. OneDecision' /\ RowMatchesDecision'
  BY <1>1 DEF BoardInv, OneDecision, RowMatchesDecision, Decisions
<1>5. RespondHoldsLock'
  BY <1>1 DEF BoardInv, BoardTypeOK, RespondHoldsLock
<1>6. CreatesItsOwn'
  BY <1>1 DEF BoardInv, BoardTypeOK, CreatesItsOwn, KnownRequests, Decisions
<1>7. KnownRequests'
  BY <1>1, BoardAssumption DEF BoardInv, BoardTypeOK, KnownRequests, Decisions
<1>8. StaleCopies'
  BY <1>1 DEF BoardInv, BoardTypeOK, StaleCopies, KnownRequests
<1> QED
  BY <1>2, <1>3, <1>4, <1>5, <1>6, <1>7, <1>8 DEF BoardInv

(* The row of a request is written and its call ends: the invariant is     *)
(* kept if no respond transaction holds the row, no creation of it is      *)
(* left, and the new row matches the decisions.                            *)
LEMMA WriteStep ==
    ASSUME BoardInv, NEW c \in Calls, NEW call \in Call,
           calls[c] # Nobody, calls[c].op # "list",
           calls' = [calls EXCEPT ![c] = call],
           call.op = calls[c].op, call.req = calls[c].req, call.at = "done",
           NEW row \in Row \cup {Nobody},
           rows' = [rows EXCEPT ![calls[c].req] = row],
           lock[calls[c].req] = Nobody \/ rows[calls[c].req] = Nobody,
           UNCHANGED <<lock, used, decided>>,
           row # Nobody =>
               /\ calls[c].req \in used
               /\ row.key => decided[calls[c].req]["approve"] = 1
               /\ \/ row.status = "expired"
                  \/ row.status = "pending" /\ ~row.key /\ Decisions(calls[c].req) = 0
               /\ row.by # row.dev
               /\ \A e \in Calls \ {c} :
                     calls[e] # Nobody /\ calls[e].op = "create"
                       /\ calls[e].at # "done" => calls[e].req # calls[c].req
    PROVE  BoardInv'
<1> USE DEF At
<1>q. calls[c].req \in Requests
  BY DEF BoardInv, CallsHaveRequest
<1>1. BoardTypeOK'
  BY <1>q DEF BoardInv, BoardTypeOK
<1>2. CallsHaveRequest'
  BY <1>q DEF BoardInv, BoardTypeOK, CallsHaveRequest
<1>3. OneDecision'
  BY DEF BoardInv, OneDecision, Decisions
<1>4. RowMatchesDecision'
  BY <1>q DEF BoardInv, BoardTypeOK, RowMatchesDecision, Decisions
<1>5. RespondHoldsLock'
  BY <1>q, BoardAssumption DEF BoardInv, BoardTypeOK, RespondHoldsLock
<1>6. CreatesItsOwn'
  BY <1>q DEF BoardInv, BoardTypeOK, CreatesItsOwn, Decisions
<1>7. KnownRequests'
  BY <1>q DEF BoardInv, BoardTypeOK, KnownRequests, Decisions
<1>8. StaleCopies'
  BY <1>q DEF BoardInv, BoardTypeOK, StaleCopies
<1> QED
  BY <1>1, <1>2, <1>3, <1>4, <1>5, <1>6, <1>7, <1>8 DEF BoardInv

(* createRequest's insert, getStatus's expiry and cancel's removal. *)
LEMMA WriteSteps ==
    ASSUME BoardInv, NEW c \in Calls,
           CreateInsert(c) \/ StatusExpire(c) \/ CancelRemove(c)
    PROVE  BoardInv'
<1> USE DEF At, Answers
<1> DEFINE q == calls[c].req
           new(ans) == [calls[c] EXCEPT !.at = "done", !.answer = ans]
<1>1. calls[c] # Nobody /\ calls[c].op # "list"
  BY DEF CreateInsert, StatusExpire, CancelRemove
<1>2. calls[c] \in Call /\ q \in Requests
  BY <1>1 DEF BoardInv, BoardTypeOK, CallsHaveRequest
<1>3. \A ans \in Answers :
        /\ new(ans) \in Call /\ new(ans).op = calls[c].op
        /\ new(ans).req = q /\ new(ans).at = "done"
        /\ Answered(c, ans) = [calls EXCEPT ![c] = new(ans)]
  BY <1>1, <1>2 DEF Answered, Call
<1>4. CASE CreateInsert(c)
  <2> DEFINE row == NewRow(calls[c].dev)
  <2>1. row \in Row /\ row.status = "pending" /\ ~row.key /\ row.by # row.dev
    BY <1>2, BoardAssumption DEF NewRow, Row, Call
  <2>2. rows[q] = Nobody /\ q \in used /\ Decisions(q) = 0
        /\ \A e \in Calls \ {c} :
             calls[e] # Nobody /\ calls[e].op = "create" => calls[e].req # q
    BY <1>4 DEF CreateInsert, BoardInv, CreatesItsOwn
  <2>3. calls' = [calls EXCEPT ![c] = new("ok")] /\ rows' = [rows EXCEPT ![q] = row]
    BY <1>3, <1>4 DEF CreateInsert
  <2> HIDE DEF row, new, q
  <2> QED
    BY <1>1, <1>2, <1>3, <1>4, <2>1, <2>2, <2>3, WriteStep DEF CreateInsert, q
<1>5. CASE StatusExpire(c)
  <2>1. calls' = [calls EXCEPT ![c] = new("expired")] /\ lock[q] = Nobody
    BY <1>3, <1>5 DEF StatusExpire
  <2>2. PICK old \in {calls[c].copy, rows[q]} :
          old # Nobody /\ rows' = [rows EXCEPT ![q] = [old EXCEPT !.status = "expired"]]
    BY <1>5 DEF StatusExpire, BoardInv, StaleCopies
  <2> DEFINE row == [old EXCEPT !.status = "expired"]
  <2>3. old \in Row /\ (old.key => decided[q]["approve"] = 1) /\ old.by # old.dev
    BY <1>2, <1>5, <2>2 DEF StatusExpire, BoardInv, BoardTypeOK, StaleCopies,
       RowMatchesDecision, Call
  <2>4. row \in Row /\ row.status = "expired" /\ row.key = old.key
        /\ row.by = old.by /\ row.dev = old.dev
    BY <2>3 DEF Row
  <2>5. /\ q \in used
        /\ \A e \in Calls \ {c} :
             calls[e] # Nobody /\ calls[e].op = "create" /\ calls[e].at # "done"
                => calls[e].req # q
    BY <1>1, <1>2, <1>5 DEF StatusExpire, BoardInv, KnownRequests, StaleCopies
  <2>6. rows' = [rows EXCEPT ![q] = row] /\ UNCHANGED <<lock, used, decided>>
    BY <1>5, <2>2 DEF StatusExpire
  <2>7. (row.key => decided[q]["approve"] = 1) /\ row.by # row.dev
    BY <2>3, <2>4
  <2> HIDE DEF row, new
  <2> QED
    BY <1>1, <1>2, <1>3, <2>1, <2>4, <2>5, <2>6, <2>7, WriteStep
<1>6. CASE CancelRemove(c)
  <2>1. calls' = [calls EXCEPT ![c] = new("ok")] /\ rows' = [rows EXCEPT ![q] = Nobody]
        /\ lock[q] = Nobody
    BY <1>3, <1>6 DEF CancelRemove
  <2> HIDE DEF new, q
  <2> QED
    BY <1>1, <1>2, <1>3, <1>6, <2>1, WriteStep DEF CancelRemove, q
<1> QED
  BY <1>4, <1>5, <1>6

(* respond takes the lock of a row that passes its checks ... *)
LEMMA RespondFindStep ==
    ASSUME BoardInv, NEW c \in Calls, RespondFind(c)
    PROVE  BoardInv'
<1> USE DEF At
<1> DEFINE q == calls[c].req
           row == rows[q]
           why == Refusal(row, calls[c].dev)
<1>1. calls[c] # Nobody /\ calls[c].op = "respond" /\ calls[c].at = "find"
  BY DEF RespondFind
<1>2. calls[c] \in Call /\ q \in Requests /\ row \in Row \cup {Nobody}
  BY <1>1 DEF BoardInv, BoardTypeOK, CallsHaveRequest
<1>3. CASE why # "none"
  <2> DEFINE new == [calls[c] EXCEPT !.at = "done", !.answer = why]
  <2>1. why \in Answers
    BY <1>2 DEF Refusal, Answers
  <2>2. new \in Call /\ new.op = "respond" /\ new.req = q /\ new.at = "done"
    BY <1>1, <1>2, <2>1 DEF Call
  <2>3. calls' = [calls EXCEPT ![c] = new] /\ UNCHANGED <<rows, used, decided, lock>>
    BY <1>1, <1>2, <1>3 DEF RespondFind, Answered, Call
  <2> HIDE DEF new, why
  <2> QED
    BY <1>1, <1>2, <2>2, <2>3, ReadStep
<1>4. CASE why = "none"
  <2> DEFINE new == [calls[c] EXCEPT !.at = "write", !.copy = row]
  <2>1. row # Nobody /\ row.status = "pending" /\ row.dev # calls[c].dev
    BY <1>2, <1>4 DEF Refusal
  <2>2. /\ new \in Call /\ new.op = "respond" /\ new.req = q /\ new.at = "write"
        /\ new.dev = calls[c].dev
    BY <1>1, <1>2 DEF Call
  <2>3. /\ calls' = [calls EXCEPT ![c] = new] /\ UNCHANGED <<rows, used, decided>>
        /\ lock' = [lock EXCEPT ![q] = c] /\ lock[q] = Nobody
    BY <1>1, <1>2, <1>4 DEF RespondFind, Reading, Call
  <2> HIDE DEF new, why
  <2>4. BoardTypeOK'
    BY <1>2, <2>2, <2>3 DEF BoardInv, BoardTypeOK
  <2>5. CallsHaveRequest'
    BY <1>2, <2>2, <2>3 DEF BoardInv, BoardTypeOK, CallsHaveRequest
  <2>6. OneDecision' /\ RowMatchesDecision'
    BY <2>3 DEF BoardInv, OneDecision, RowMatchesDecision, Decisions
  <2>7. RespondHoldsLock'
    BY <1>2, <2>1, <2>2, <2>3, BoardAssumption DEF BoardInv, BoardTypeOK, RespondHoldsLock
  <2>8. CreatesItsOwn' /\ KnownRequests' /\ StaleCopies'
    BY <1>1, <1>2, <2>2, <2>3 DEF BoardInv, BoardTypeOK, CreatesItsOwn,
       KnownRequests, StaleCopies, Decisions
  <2> QED
    BY <2>4, <2>5, <2>6, <2>7, <2>8 DEF BoardInv
<1> QED
  BY <1>3, <1>4

(* ... and decides about it, the checks still holding. *)
LEMMA RespondCommitStep ==
    ASSUME BoardInv, NEW c \in Calls, RespondCommit(c)
    PROVE  BoardInv'
<1> USE DEF At
<1> DEFINE q == calls[c].req
           act == calls[c].act
           row == Decision(rows[q], calls[c].dev, act)
           new == [calls[c] EXCEPT !.at = "done", !.answer = "ok"]
<1>1. calls[c] # Nobody /\ calls[c].op = "respond" /\ calls[c].at = "write"
  BY DEF RespondCommit
<1>2. calls[c] \in Call /\ q \in Requests /\ act \in Actions /\ calls[c].dev \in Devices
  BY <1>1 DEF BoardInv, BoardTypeOK, CallsHaveRequest, Call
<1>3. /\ rows[q] \in Row /\ rows[q].status = "pending" /\ rows[q].dev # calls[c].dev
      /\ lock[q] = c
  BY <1>1, <1>2 DEF BoardInv, BoardTypeOK, RespondHoldsLock
<1>4. decided[q] \in [Actions -> Nat] /\ decided[q]["approve"] = 0 /\ decided[q]["deny"] = 0
  BY <1>2, <1>3, NobodyAssumption DEF BoardInv, BoardTypeOK, RowMatchesDecision,
     Decisions, Actions
<1>5. /\ new \in Call /\ new.op = "respond" /\ new.req = q /\ new.at = "done"
  BY <1>1, <1>2 DEF Call, Answers
<1>6. /\ row \in Row /\ row.status = (IF act = "approve" THEN "approved" ELSE "denied")
      /\ row.key = (act = "approve") /\ row.by = calls[c].dev /\ row.dev = rows[q].dev
  BY <1>2, <1>3 DEF Decision, Row
<1>7. /\ calls' = [calls EXCEPT ![c] = new] /\ rows' = [rows EXCEPT ![q] = row]
      /\ lock' = [lock EXCEPT ![q] = Nobody] /\ used' = used
      /\ decided' = [decided EXCEPT ![q] = [decided[q] EXCEPT ![act] = decided[q][act] + 1]]
  BY <1>1, <1>2 DEF RespondCommit, Answered, Call
<1> DEFINE after == [decided[q] EXCEPT ![act] = decided[q][act] + 1]
<1>8. /\ after \in [Actions -> Nat]
      /\ after["approve"] = (IF act = "approve" THEN 1 ELSE 0)
      /\ after["deny"] = (IF act = "deny" THEN 1 ELSE 0)
  BY <1>2, <1>4 DEF Actions
<1>9. decided' = [decided EXCEPT ![q] = after]
  BY <1>7
<1> HIDE DEF after, row, new
<1>10. BoardTypeOK'
  BY <1>2, <1>5, <1>6, <1>7, <1>8, <1>9 DEF BoardInv, BoardTypeOK
<1>11. CallsHaveRequest'
  BY <1>2, <1>5, <1>7 DEF BoardInv, BoardTypeOK, CallsHaveRequest
<1>12. OneDecision'
  BY <1>2, <1>8, <1>9 DEF BoardInv, BoardTypeOK, OneDecision, Decisions, Actions
<1>13. RowMatchesDecision'
  <2> SUFFICES ASSUME NEW p \in Requests, rows'[p] # Nobody
               PROVE  /\ rows'[p].key => decided'[p]["approve"] = 1
                      /\ rows'[p].status = "approved" => rows'[p].key
                      /\ rows'[p].status = "denied" => decided'[p]["deny"] = 1 /\ ~rows'[p].key
                      /\ rows'[p].status = "pending" => Decisions(p)' = 0 /\ ~rows'[p].key
                      /\ rows'[p].by # rows'[p].dev
    BY DEF RowMatchesDecision
  <2>1. CASE p = q
    <3>1. rows'[p] = row /\ decided'[p] = after
      BY <1>2, <1>7, <1>9, <2>1 DEF BoardInv, BoardTypeOK
    <3>2. CASE act = "approve"
      BY <1>3, <1>6, <1>8, <3>1, <3>2
    <3>3. CASE act = "deny"
      BY <1>3, <1>6, <1>8, <3>1, <3>3
    <3> QED
      BY <1>2, <3>2, <3>3 DEF Actions
  <2>2. CASE p # q
    BY <1>7, <1>9, <2>2 DEF BoardInv, BoardTypeOK, RowMatchesDecision, Decisions
  <2> QED
    BY <2>1, <2>2
<1>14. RespondHoldsLock'
  BY <1>2, <1>3, <1>5, <1>7 DEF BoardInv, BoardTypeOK, RespondHoldsLock
<1>15. CreatesItsOwn'
  BY <1>1, <1>2, <1>3, <1>5, <1>7, <1>9, NobodyAssumption
     DEF BoardInv, BoardTypeOK, CreatesItsOwn, Decisions
<1>16. KnownRequests'
  BY <1>1, <1>2, <1>3, <1>5, <1>7, <1>9, NobodyAssumption
     DEF BoardInv, BoardTypeOK, KnownRequests, Decisions
<1>17. StaleCopies'
  BY <1>1, <1>2, <1>5, <1>7 DEF BoardInv, BoardTypeOK, StaleCopies
<1> QED
  BY <1>10, <1>11, <1>12, <1>13, <1>14, <1>15, <1>16, <1>17 DEF BoardInv

(* A failed call, an expiry and a finished call leave it alone. *)
LEMMA OtherSteps ==
    ASSUME BoardInv, NEW c \in Calls, CallFails(c) \/ Done(c)
    PROVE  BoardInv'
<1> USE DEF At
<1>1. calls[c] # Nobody /\ calls[c] \in Call
  BY DEF CallFails, Done, BoardInv, BoardTypeOK
<1>2. CASE CallFails(c)
  <2> DEFINE new == [calls[c] EXCEPT !.at = "done", !.answer = "error"]
  <2>1. /\ new \in Call /\ new.op = calls[c].op /\ new.req = calls[c].req
        /\ new.at = "done" /\ new.dev = calls[c].dev
    BY <1>1 DEF Call, Answers
  <2>2. /\ calls' = [calls EXCEPT ![c] = new] /\ UNCHANGED <<rows, used, decided>>
        /\ lock' = [q \in Requests |-> IF lock[q] = c THEN Nobody ELSE lock[q]]
    BY <1>1, <1>2 DEF CallFails, Answered, Call
  <2> HIDE DEF new
  <2>3. BoardTypeOK' /\ CallsHaveRequest'
    BY <1>1, <2>1, <2>2 DEF BoardInv, BoardTypeOK, CallsHaveRequest
  <2>4. OneDecision' /\ RowMatchesDecision'
    BY <2>2 DEF BoardInv, OneDecision, RowMatchesDecision, Decisions
  <2>5. RespondHoldsLock'
    BY <1>1, <2>1, <2>2 DEF BoardInv, BoardTypeOK, CallsHaveRequest, RespondHoldsLock
  <2>6. CreatesItsOwn' /\ KnownRequests' /\ StaleCopies'
    BY <1>1, <2>1, <2>2 DEF BoardInv, BoardTypeOK, CreatesItsOwn,
       KnownRequests, StaleCopies, Decisions
  <2> QED
    BY <2>3, <2>4, <2>5, <2>6 DEF BoardInv
<1>3. CASE Done(c)
  <2>1. calls' = [calls EXCEPT ![c] = Nobody] /\ UNCHANGED <<rows, lock, used, decided>>
    BY <1>3 DEF Done
  <2>2. BoardTypeOK' /\ CallsHaveRequest'
    BY <2>1 DEF BoardInv, BoardTypeOK, CallsHaveRequest
  <2>3. OneDecision' /\ RowMatchesDecision'
    BY <2>1 DEF BoardInv, OneDecision, RowMatchesDecision, Decisions
  <2>4. RespondHoldsLock' /\ CreatesItsOwn' /\ KnownRequests' /\ StaleCopies'
    BY <2>1 DEF BoardInv, BoardTypeOK, RespondHoldsLock, CreatesItsOwn,
       KnownRequests, StaleCopies, Decisions
  <2> QED
    BY <2>2, <2>3, <2>4 DEF BoardInv
<1> QED
  BY <1>2, <1>3

LEMMA TtlStep ==
    ASSUME BoardInv, NEW q \in Requests, TtlPasses(q)
    PROVE  BoardInv'
<1> USE DEF At
<1> DEFINE row == [rows[q] EXCEPT !.late = TRUE]
<1>1. rows[q] \in Row /\ rows[q] # Nobody
  BY DEF TtlPasses, BoardInv, BoardTypeOK
<1>2. /\ row \in Row /\ row.status = rows[q].status /\ row.key = rows[q].key
      /\ row.by = rows[q].by /\ row.dev = rows[q].dev
  BY <1>1 DEF Row
<1>3. rows' = [rows EXCEPT ![q] = row] /\ UNCHANGED <<lock, calls, used, decided>>
  BY <1>1 DEF TtlPasses, Row
<1>4. row # Nobody
  BY <1>2, NobodyAssumption
<1> HIDE DEF row
<1>5. BoardTypeOK' /\ CallsHaveRequest'
  BY <1>2, <1>3 DEF BoardInv, BoardTypeOK, CallsHaveRequest
<1>6. OneDecision'
  BY <1>3 DEF BoardInv, OneDecision, Decisions
<1>7. RowMatchesDecision'
  BY <1>1, <1>2, <1>3 DEF BoardInv, BoardTypeOK, RowMatchesDecision, Decisions
<1>8. RespondHoldsLock'
  BY <1>1, <1>2, <1>3, <1>4 DEF BoardInv, BoardTypeOK, RespondHoldsLock
<1>9. CreatesItsOwn' /\ KnownRequests' /\ StaleCopies'
  BY <1>1, <1>2, <1>3 DEF BoardInv, BoardTypeOK, CreatesItsOwn,
     KnownRequests, StaleCopies, Decisions
<1> QED
  BY <1>5, <1>6, <1>7, <1>8, <1>9 DEF BoardInv

(* Every step keeps the invariant. *)
LEMMA NextInv == BoardInv /\ [BoardNext]_board => BoardInv'
<1> SUFFICES ASSUME BoardInv, [BoardNext]_board PROVE BoardInv'
  OBVIOUS
<1>1. ASSUME NEW c \in Calls, AnyStart(c) PROVE BoardInv'
  <2>1. ASSUME NEW d \in Devices, NEW q \in Requests, NEW op \in {"create", "status", "cancel", "respond"},
               NEW act \in Actions, op # "create" => q \in used,
               Start(c, NewCall(op, q, d, act))
        PROVE  BoardInv'
    <3> DEFINE call == NewCall(op, q, d, act)
    <3>1. call \in Call /\ call.op = op /\ call.req = q /\ call.at = "find"
      BY <2>1 DEF NewCall, Call, Answers
    <3> HIDE DEF call
    <3> QED
      BY <2>1, <3>1, StartStep DEF call
  <2>2. ASSUME NEW d \in Devices, Start(c, NewCall("list", Nobody, d, "deny"))
        PROVE  BoardInv'
    <3> DEFINE call == NewCall("list", Nobody, d, "deny")
    <3>1. call \in Call /\ call.op = "list" /\ call.req = Nobody /\ call.at = "find"
      BY <2>2 DEF NewCall, Call, Answers, Actions
    <3> HIDE DEF call
    <3> QED
      BY <2>2, <3>1, StartStep DEF call
  <2> QED
    BY <1>1, <2>1, <2>2 DEF AnyStart, Actions
<1>2. ASSUME NEW c \in Calls, Handler(c) PROVE BoardInv'
  BY <1>2, FindSteps, WriteSteps, RespondFindStep, RespondCommitStep DEF Handler
<1>3. ASSUME NEW c \in Calls, CallFails(c) \/ Done(c) PROVE BoardInv'
  BY <1>3, OtherSteps
<1>4. ASSUME NEW q \in Requests, TtlPasses(q) PROVE BoardInv'
  BY <1>4, TtlStep
<1>5. CASE UNCHANGED board
  BY <1>5 DEF board, BoardInv, BoardTypeOK, CallsHaveRequest, OneDecision,
     RowMatchesDecision, RespondHoldsLock, CreatesItsOwn, KnownRequests,
     StaleCopies, Decisions, At
<1> QED
  BY <1>1, <1>2, <1>3, <1>4, <1>5 DEF BoardNext

(* The table and the handlers are well typed. *)
THEOREM BoardTypeCorrect == BoardSpec => []BoardTypeOK
<1>1. BoardInv => BoardTypeOK
  BY DEF BoardInv
<1> QED
  BY <1>1, InitInv, NextInv, PTL DEF BoardSpec

(* However many devices respond, cancel and poll at once, only one of them *)
(* is told that its decision was recorded.                                 *)
THEOREM OnlyOneDecision == BoardSpec => []OneDecision
<1>1. BoardInv => OneDecision
  BY DEF BoardInv
<1> QED
  BY <1>1, InitInv, NextInv, PTL DEF BoardSpec

(* The row agrees with the decision that was reported: no key without an   *)
(* approval, and no approval by the requesting device.                     *)
THEOREM RowsMatchDecisions == BoardSpec => []RowMatchesDecision
<1>1. BoardInv => RowMatchesDecision
  BY DEF BoardInv
<1> QED
  BY <1>1, InitInv, NextInv, PTL DEF BoardSpec

-----------------------------------------------------------------------------
(* The clients *)

LEMMA InitApproval == Init => ApprovalInv
<1> SUFFICES ASSUME Init PROVE ApprovalInv
  OBVIOUS
<1>1. BoardInv
  BY InitInv DEF Init
<1>2. TypeOK
  BY <1>1, ClientAssumption DEF Init, TypeOK, BoardInv, Hook, ApprovalStatus
<1>3. ClientsKnowUsed /\ KeysApproved /\ FactorNeedsApproval /\ NoKeyAfterUnmount
  BY DEF Init, BoardInit, ClientsKnowUsed, KeysApproved, FactorNeedsApproval,
     NoKeyAfterUnmount
<1> QED
  BY <1>1, <1>2, <1>3 DEF ApprovalInv

(* A call about a request somebody created is one the board expects *)
LEMMA StartExpected ==
    ASSUME NEW c \in Calls, NEW d \in Devices, NEW q \in Requests,
           NEW op \in {"create", "status", "cancel", "respond"}, NEW act \in Actions,
           op \notin {"create", "respond"} => act = "deny",
           op = "create" => act = "deny",
           op # "create" => q \in used,
           Start(c, NewCall(op, q, d, act))
    PROVE  AnyStart(c)
  BY DEF AnyStart

(* Every step of the clients is a step of the board or leaves it alone *)
LEMMA StepOfBoard == ApprovalInv /\ [Next]_all => [BoardNext]_board
<1> SUFFICES ASSUME ApprovalInv, [Next]_all PROVE [BoardNext]_board
  OBVIOUS
<1> USE DEF ApprovalInv
<1>1. ASSUME NEW h \in Hooks, NEW c \in Calls, NEW q \in Requests \ used, Request(h, c, q)
      PROVE  AnyStart(c)
  BY <1>1, StartExpected, ClientAssumption DEF Request, Actions
<1>2. ASSUME NEW h \in Hooks, NEW c \in Calls, PollTick(h, c) PROVE AnyStart(c)
  <2>1. hooks[h].polling \in used /\ hooks[h].polling \in Requests
    BY <1>2 DEF PollTick, ClientsKnowUsed, TypeOK, BoardTypeOK
  <2> QED
    BY <1>2, <2>1, StartExpected, ClientAssumption DEF PollTick, Actions
<1>3. ASSUME NEW h \in Hooks, NEW c \in Calls, Unmount(h, c)
      PROVE  AnyStart(c) \/ UNCHANGED board
  <2>1. CASE hooks[h].req = Nobody
    BY <1>3, <2>1 DEF Unmount
  <2>2. CASE hooks[h].req # Nobody
    <3>1. hooks[h].req \in used /\ hooks[h].req \in Requests
      BY <2>2 DEF ClientsKnowUsed, TypeOK, BoardTypeOK
    <3> QED
      BY <1>3, <2>2, <3>1, StartExpected, ClientAssumption DEF Unmount, Actions
  <2> QED
    BY <2>1, <2>2
<1>4. ASSUME NEW d \in Devices, NEW c \in Calls, PollPending(d, c) PROVE AnyStart(c)
  BY <1>4 DEF PollPending, AnyStart
<1>5. ASSUME NEW d \in Devices, NEW c \in Calls, Respond(d, c) PROVE AnyStart(c)
  <2>1. PICK q \in listed[d], act \in Actions : Start(c, NewCall("respond", q, d, act))
    BY <1>5 DEF Respond
  <2>2. q \in used /\ q \in Requests
    BY <2>1 DEF ClientsKnowUsed, TypeOK, BoardTypeOK
  <2> QED
    BY <2>1, <2>2, StartExpected
<1>6. ASSUME NEW c \in Calls, Answer(c) PROVE Done(c) \/ UNCHANGED board
  BY <1>6 DEF Answer, Created, Polled, Finish, Cancelled, Listed, Responded
<1>7. ASSUME NEW c \in Calls, Serve(c) \/ Fails(c) PROVE Handler(c) \/ CallFails(c)
  BY <1>7 DEF Serve, Fails
<1>8. ASSUME NEW q \in Requests, Expire(q) PROVE TtlPasses(q)
  BY <1>8 DEF Expire
<1>9. CASE UNCHANGED all
  BY <1>9 DEF all
<1> QED
  BY <1>1, <1>2, <1>3, <1>4, <1>5, <1>6, <1>7, <1>8, <1>9
     DEF Next, HookStep, ModalStep, BoardNext

(* Requests stay known, and an approval stays the decision *)
LEMMA BoardGrows ==
    ASSUME BoardInv, BoardInv', [BoardNext]_board
    PROVE  /\ used \subseteq used'
           /\ \A q \in Requests : decided[q]["approve"] = 1
                    => decided'[q]["approve"] = 1 /\ decided'[q]["deny"] = 0
<1>1. ASSUME NEW c \in Calls, AnyStart(c)
      PROVE  used \subseteq used' /\ UNCHANGED decided
  BY <1>1 DEF AnyStart, Start
<1>2. ASSUME NEW c \in Calls, Handler(c) PROVE UNCHANGED used
  BY <1>2 DEF Handler, CreateCount, CreateInsert, StatusFind, StatusExpire, RespondFind,
     RespondCommit, CancelFind, CancelRemove, List
<1>3. ASSUME NEW c \in Calls, Handler(c), ~RespondCommit(c) PROVE UNCHANGED decided
  BY <1>3 DEF Handler, CreateCount, CreateInsert, StatusFind, StatusExpire, RespondFind,
     CancelFind, CancelRemove, List
<1>4. ASSUME NEW c \in Calls, CallFails(c) \/ Done(c) PROVE UNCHANGED <<used, decided>>
  BY <1>4 DEF CallFails, Done
<1>5. ASSUME NEW q \in Requests, TtlPasses(q) PROVE UNCHANGED <<used, decided>>
  BY <1>5 DEF TtlPasses
<1>6. used \subseteq used'
  BY <1>1, <1>2, <1>4, <1>5 DEF BoardNext, board
<1>7. decided' = decided
         \/ \E q \in Requests, act \in Actions :
               decided' = [decided EXCEPT ![q][act] = @ + 1]
  <2>1. ASSUME NEW c \in Calls, RespondCommit(c)
        PROVE  \E q \in Requests, act \in Actions :
                  decided' = [decided EXCEPT ![q][act] = @ + 1]
    <3>1. calls[c].req \in Requests /\ calls[c].act \in Actions
      BY <2>1 DEF RespondCommit, At, BoardInv, CallsHaveRequest, BoardTypeOK, Call
    <3> QED
      BY <2>1, <3>1 DEF RespondCommit
  <2> QED
    BY <2>1, <1>1, <1>3, <1>4, <1>5 DEF BoardNext, board
<1>8. ASSUME NEW q \in Requests, decided[q]["approve"] = 1
      PROVE  decided'[q]["approve"] = 1 /\ decided'[q]["deny"] = 0
  <2>1. /\ decided \in [Requests -> [Actions -> Nat]]
        /\ decided' \in [Requests -> [Actions -> Nat]]
        /\ decided'[q]["approve"] + decided'[q]["deny"] <= 1
    BY DEF BoardInv, BoardTypeOK, OneDecision, Decisions
  <2>2. decided'[q]["approve"] >= 1
    <3>1. CASE decided' = decided
      BY <1>8, <2>1, <3>1 DEF Actions
    <3>2. ASSUME NEW r \in Requests, NEW act \in Actions,
                 decided' = [decided EXCEPT ![r][act] = @ + 1]
          PROVE  decided'[q]["approve"] >= 1
      BY <1>8, <2>1, <3>2 DEF Actions
    <3> QED
      BY <1>7, <3>1, <3>2
  <2>3. decided'[q]["approve"] \in Nat /\ decided'[q]["deny"] \in Nat
    BY <2>1 DEF Actions
  <2>4. \A a, b \in Nat : a >= 1 /\ a + b <= 1 => a = 1 /\ b = 0
    OBVIOUS
  <2> QED
    BY <2>1, <2>2, <2>3, <2>4
<1> QED
  BY <1>6, <1>8

(* What a call has been told: ids of requests somebody created, and a key  *)
(* only from an approval                                                   *)
CallKnows(c) ==
    calls[c] # Nobody =>
        /\ calls[c].ids \subseteq used
        /\ calls[c].op = "status" =>
              /\ calls[c].answer = "approved" => calls[c].copy # Nobody
              /\ calls[c].copy # Nobody /\ calls[c].copy.key
                    => decided[calls[c].req]["approve"] = 1

(* Only the call a step is about changes *)
LEMMA OtherCallsKept ==
    ASSUME BoardInv, [BoardNext]_board, NEW c \in Calls, calls'[c] # calls[c]
    PROVE  AnyStart(c) \/ Handler(c) \/ CallFails(c) \/ Done(c)
<1>1. calls \in [Calls -> Call \cup {Nobody}]
  BY DEF BoardInv, BoardTypeOK
<1>2. ASSUME NEW e \in Calls, e # c, AnyStart(e) \/ CallFails(e) \/ Done(e)
      PROVE  FALSE
  BY <1>1, <1>2 DEF AnyStart, Start, CallFails, Done, Answered
<1>3. ASSUME NEW e \in Calls, e # c, Handler(e) PROVE FALSE
  <2>1. \E x : calls' = [calls EXCEPT ![e] = x]
    BY <1>3 DEF Handler, CreateCount, CreateInsert, StatusFind, StatusExpire, RespondFind,
       RespondCommit, CancelFind, CancelRemove, List, Answered, Reading
  <2> QED
    BY <1>1, <1>3, <2>1
<1> QED
  BY <1>2, <1>3 DEF BoardNext, TtlPasses, board

LEMMA CallsKnow ==
    ASSUME BoardInv, BoardInv', [BoardNext]_board, NEW c \in Calls, CallKnows(c)
    PROVE  CallKnows(c)'
<1>1. /\ calls \in [Calls -> Call \cup {Nobody}]
      /\ calls[c] # Nobody /\ calls[c].op # "list" => calls[c].req \in Requests
  BY DEF BoardInv, BoardTypeOK, CallsHaveRequest
<1>2. CASE calls'[c] = calls[c]
  BY <1>1, <1>2, BoardGrows DEF CallKnows
<1>3. CASE AnyStart(c)
  <2>1. PICK call \in {NewCall(op, q, d, act) :
                          op \in {"create", "status", "respond", "cancel", "list"},
                          q \in Requests \cup {Nobody}, d \in Devices, act \in Actions} :
           Start(c, call)
    BY <1>3 DEF AnyStart, Actions
  <2>2. call.ids = {} /\ call.copy = Nobody /\ call.answer = "none"
    BY <2>1 DEF NewCall
  <2>3. calls'[c] = call
    BY <1>1, <2>1 DEF Start
  <2> QED
    BY <2>2, <2>3 DEF CallKnows
<1>4. CASE Handler(c)
  <2>1. Pending \subseteq used
    BY DEF Pending, BoardInv, KnownRequests
  <2>2. CASE StatusFind(c)
    <3> DEFINE row == rows[calls[c].req]
    <3>1. /\ calls[c] # Nobody /\ calls[c].req \in Requests
          /\ UNCHANGED <<used, decided>>
      BY <1>1, <2>2 DEF StatusFind, At
    <3>2. row # Nobody => (row.key => decided[calls[c].req]["approve"] = 1)
      BY <3>1 DEF BoardInv, RowMatchesDecision
    <3>3. /\ calls'[c].ids = calls[c].ids /\ calls'[c].req = calls[c].req
          /\ calls'[c].answer = "approved" => calls'[c].copy # Nobody
          /\ calls'[c].copy \in {calls[c].copy, row}
      BY <1>1, <2>2, <3>1 DEF StatusFind, Answered, Reading, PastTtl, Call
    <3>4. calls[c].op = "status"
      BY <2>2 DEF StatusFind, At
    <3> HIDE DEF row
    <3> QED
      BY <1>1, <3>1, <3>2, <3>3, <3>4 DEF CallKnows
  <2>3. CASE ~StatusFind(c)
    <3>1. /\ calls[c] # Nobody
          /\ calls'[c].ids \in {calls[c].ids, Pending}
          /\ calls'[c].op = calls[c].op /\ calls'[c].req = calls[c].req
          /\ calls[c].op = "status" => /\ calls'[c].copy = calls[c].copy
                                       /\ calls'[c].answer # "approved"
      BY <1>1, <1>4, <2>3 DEF Handler, CreateCount, CreateInsert, StatusExpire,
         RespondFind, RespondCommit, CancelFind, CancelRemove, List, Answered, Reading,
         At, Call
    <3>2. used \subseteq used' /\ (calls[c].op = "status" =>
             (decided[calls[c].req]["approve"] = 1 => decided'[calls[c].req]["approve"] = 1))
      BY <1>1, <3>1, BoardGrows
    <3> QED
      BY <2>1, <3>1, <3>2 DEF CallKnows
  <2> QED
    BY <2>2, <2>3
<1>5. CASE CallFails(c) \/ Done(c)
  <2>1. \/ calls'[c] = Nobody
        \/ /\ calls[c] # Nobody
           /\ calls'[c] = [calls[c] EXCEPT !.at = "done", !.answer = "error"]
    BY <1>1, <1>5 DEF CallFails, Done, Answered
  <2>2. UNCHANGED <<used, decided>>
    BY <1>5 DEF CallFails, Done
  <2> QED
    BY <1>1, <2>1, <2>2 DEF CallKnows, Call
<1> QED
  BY <1>2, <1>3, <1>4, <1>5, OtherCallsKept

(* What a hook's setters leave is a hook *)
LEMMA HookTypes ==
    ASSUME NEW hook \in Hook
    PROVE  /\ Stopped(hook) \in Hook
           /\ \A s \in ApprovalStatus : [hook EXCEPT !.status = s] \in Hook
           /\ \A q \in Requests \cup {Nobody} :
                 /\ [hook EXCEPT !.polling = q] \in Hook
                 /\ [hook EXCEPT !.req = q] \in Hook
                 /\ [hook EXCEPT !.key = q] \in Hook
           /\ [hook EXCEPT !.screen = "unmounted"] \in Hook
  BY DEF Hook, Stopped

LEMMA CompoundHookTypes ==
    ASSUME NEW hook \in Hook, NEW s \in ApprovalStatus
    PROVE  /\ [Stopped(hook) EXCEPT !.status = s] \in Hook
           /\ [Stopped(hook) EXCEPT !.screen = "unmounted"] \in Hook
           /\ [[Stopped(hook) EXCEPT !.screen = "unmounted"] EXCEPT !.status = s] \in Hook
           /\ \A q \in Requests : [hook EXCEPT !.req = q, !.status = s, !.polling = q] \in Hook
           /\ [hook EXCEPT !.key = Nobody, !.status = s] \in Hook
           /\ [hook EXCEPT !.polling = Nobody, !.status = s] \in Hook
           /\ [hook EXCEPT !.req = Nobody, !.key = Nobody, !.status = s] \in Hook
<1>1. Stopped(hook) \in Hook
  BY HookTypes
<1>2. \A x \in Hook : [x EXCEPT !.status = s] \in Hook /\ [x EXCEPT !.screen = "unmounted"] \in Hook
  BY HookTypes
<1>3. /\ \A q \in Requests : [hook EXCEPT !.req = q, !.status = s, !.polling = q] \in Hook
      /\ [hook EXCEPT !.key = Nobody, !.status = s] \in Hook
      /\ [hook EXCEPT !.polling = Nobody, !.status = s] \in Hook
      /\ [hook EXCEPT !.req = Nobody, !.key = Nobody, !.status = s] \in Hook
  BY DEF Hook
<1> QED
  BY <1>1, <1>2, <1>3

(* Type correctness of the clients *)
LEMMA ClientTypes ==
    ASSUME ApprovalInv, BoardInv', [Next]_all
    PROVE  TypeOK'
<1> USE DEF ApprovalInv
<1>1. BoardTypeOK'
  BY DEF BoardInv
<1>2. /\ hooks \in [Hooks -> Hook] /\ owner \in [Requests -> Hooks \cup {Nobody}]
      /\ finishing \in [Calls -> {"no", "factor", "login"}]
      /\ listed \in [Devices -> SUBSET Requests]
      /\ got \in [Requests -> Nat] /\ fails \in 0 .. MaxFails
      /\ calls \in [Calls -> Call \cup {Nobody}]
  BY DEF TypeOK, BoardTypeOK
<1> DEFINE Rest == /\ owner' \in [Requests -> Hooks \cup {Nobody}]
                   /\ finishing' \in [Calls -> {"no", "factor", "login"}]
                   /\ listed' \in [Devices -> SUBSET Requests]
                   /\ got' \in [Requests -> Nat] /\ fails' \in 0 .. MaxFails
<1>3. ASSUME NEW h \in Hooks, NEW c \in Calls, HookStep(h, c)
      PROVE  hooks' \in [Hooks -> Hook] /\ Rest
  <2>1. ASSUME NEW q \in Requests, Request(h, c, q) PROVE hooks' \in [Hooks -> Hook] /\ Rest
    <3> DEFINE asking == [hooks[h] EXCEPT !.screen = "mounted", !.status = "requesting", !.key = q]
    <3>1. hooks[h] \in Hook
      BY <1>2
    <3>2. asking \in Hook
      BY <3>1 DEF Hook, ApprovalStatus
    <3>3. /\ hooks' = [hooks EXCEPT ![h] = asking] /\ owner' = [owner EXCEPT ![q] = h]
          /\ UNCHANGED <<finishing, listed, got, fails>>
      BY <2>1 DEF Request
    <3> HIDE DEF asking
    <3> QED
      BY <1>2, <3>2, <3>3
  <2>2. CASE PollTick(h, c)
    BY <1>2, <2>2 DEF PollTick, clients
  <2>3. CASE Unmount(h, c)
    <3> DEFINE gone == [Stopped(hooks[h]) EXCEPT !.screen = "unmounted"]
    <3>1. gone \in Hook /\ [gone EXCEPT !.status = "idle"] \in Hook
      BY <1>2, CompoundHookTypes DEF ApprovalStatus
    <3>2. \/ hooks' = [hooks EXCEPT ![h] = gone]
          \/ hooks' = [hooks EXCEPT ![h] = [gone EXCEPT !.status = "idle"]]
      BY <2>3 DEF Unmount
    <3>3. UNCHANGED <<owner, finishing, listed, got, fails>>
      BY <2>3 DEF Unmount
    <3> HIDE DEF gone
    <3> QED
      BY <1>2, <3>1, <3>2, <3>3
  <2> QED
    BY <1>3, <2>1, <2>2, <2>3 DEF HookStep
<1>4. ASSUME NEW d \in Devices, NEW c \in Calls, ModalStep(d, c)
      PROVE  hooks' \in [Hooks -> Hook] /\ Rest
  BY <1>2, <1>4 DEF ModalStep, PollPending, Respond, clients
<1>5. ASSUME NEW c \in Calls, Answer(c) PROVE hooks' \in [Hooks -> Hook] /\ Rest
  <2>1. CASE Created(c)
    <3>1. calls[c].req \in Requests
      BY <2>1 DEF Created, At, BoardInv, CallsHaveRequest
    <3> QED
      BY <1>2, <2>1, <3>1, CompoundHookTypes DEF Created, ApprovalStatus
  <2>2. CASE Polled(c)
    <3> DEFINE h == owner[calls[c].req]
    <3>1. \/ UNCHANGED hooks
          \/ \E s \in ApprovalStatus :
                \/ hooks' = [hooks EXCEPT ![h] = [Stopped(hooks[h]) EXCEPT !.status = s]]
                \/ hooks' = [hooks EXCEPT ![h] = [hooks[h] EXCEPT !.polling = Nobody, !.status = s]]
      BY <2>2 DEF Polled, ApprovalStatus
    <3>2. hooks' \in [Hooks -> Hook]
      <4>1. CASE h \in Hooks
        <5>1. hooks[h] \in Hook
          BY <1>2, <4>1
        <5> HIDE DEF h
        <5> QED
          BY <1>2, <3>1, <4>1, <5>1, CompoundHookTypes
      <4>2. CASE h \notin Hooks
        <5> HIDE DEF h
        <5> QED
          BY <1>2, <3>1, <4>2
      <4> QED
        BY <4>1, <4>2
    <3>3. \/ UNCHANGED finishing
          \/ finishing' = [finishing EXCEPT ![c] = "factor"]
      BY <2>2 DEF Polled
    <3> QED
      BY <1>2, <2>2, <3>2, <3>3 DEF Polled
  <2>3. CASE Finish(c)
    <3> DEFINE h == owner[calls[c].req]
    <3>1. \/ hooks' = [hooks EXCEPT ![h].key = Nobody]
          \/ \E s \in ApprovalStatus :
                \/ hooks' = [hooks EXCEPT ![h] = [Stopped(hooks[h]) EXCEPT !.status = s]]
                \/ hooks' = [hooks EXCEPT ![h].status = s]
      BY <2>3 DEF Finish, ApprovalStatus
    <3>2. hooks' \in [Hooks -> Hook]
      <4>1. CASE h \in Hooks
        <5>1. hooks[h] \in Hook
          BY <1>2, <4>1
        <5> HIDE DEF h
        <5>2. [hooks[h] EXCEPT !.key = Nobody] \in Hook
          BY <5>1, HookTypes
        <5>3. \A s \in ApprovalStatus : [hooks[h] EXCEPT !.status = s] \in Hook
          BY <5>1, HookTypes
        <5>4. \A s \in ApprovalStatus : [Stopped(hooks[h]) EXCEPT !.status = s] \in Hook
          BY <5>1, CompoundHookTypes
        <5> QED
          BY <1>2, <3>1, <4>1, <5>2, <5>3, <5>4
      <4>2. CASE h \notin Hooks
        <5> HIDE DEF h
        <5> QED
          BY <1>2, <3>1, <4>2
      <4> QED
        BY <4>1, <4>2
    <3>3. /\ fails' \in 0 .. MaxFails
          /\ \/ UNCHANGED finishing
             \/ \E x \in {"no", "login"} : finishing' = [finishing EXCEPT ![c] = x]
          /\ \/ UNCHANGED got
             \/ got' = [got EXCEPT ![calls[c].req] = @ + 1]
          /\ UNCHANGED <<owner, listed>>
      BY <1>2, <2>3, ClientAssumption DEF Finish
    <3> QED
      BY <1>2, <3>2, <3>3
  <2>4. CASE Cancelled(c)
    BY <1>2, <2>4 DEF Cancelled, Hook, ApprovalStatus
  <2>5. CASE Listed(c) \/ Responded(c)
    <3>1. calls[c] # Nobody /\ calls[c].ids \subseteq Requests
      BY <1>2, <2>5 DEF Listed, Responded, At, Call
    <3> QED
      BY <1>2, <2>5, <3>1 DEF Listed, Responded
  <2> QED
    BY <1>5, <2>1, <2>2, <2>3, <2>4, <2>5 DEF Answer
<1>6. ASSUME NEW c \in Calls, Serve(c) \/ Fails(c) PROVE hooks' \in [Hooks -> Hook] /\ Rest
  BY <1>2, <1>6, ClientAssumption DEF Serve, Fails, clients
<1>7. ASSUME NEW q \in Requests, Expire(q) PROVE hooks' \in [Hooks -> Hook] /\ Rest
  BY <1>2, <1>7 DEF Expire, clients
<1>8. CASE UNCHANGED all
  <2>1. clients' = clients
    BY <1>8 DEF all
  <2> QED
    BY <1>1, <1>2, <2>1 DEF clients, TypeOK
<1> QED
  BY <1>1, <1>3, <1>4, <1>5, <1>6, <1>7, <1>8 DEF Next, TypeOK

(* Stopping clears the interval and the key *)
LEMMA StoppedFields ==
    ASSUME NEW hook \in Hook
    PROVE  /\ Stopped(hook).req = hook.req /\ Stopped(hook).screen = hook.screen
           /\ Stopped(hook).polling = Nobody /\ Stopped(hook).key = Nobody
           /\ Stopped(hook) \in Hook
  BY DEF Hook, Stopped

(* Polls and what follows an approval keep the request of the hook, and    *)
(* its interval and key unless they clear them                             *)
LEMMA AnswersOnlyClear ==
    ASSUME hooks \in [Hooks -> Hook], NEW c \in Calls, Polled(c) \/ Finish(c),
           NEW g \in Hooks
    PROVE  /\ hooks'[g].req = hooks[g].req /\ hooks'[g].screen = hooks[g].screen
           /\ hooks'[g].polling \in {hooks[g].polling, Nobody}
           /\ hooks'[g].key \in {hooks[g].key, Nobody}
<1>1. hooks[g] \in Hook
  OBVIOUS
<1>2. \/ hooks'[g] = hooks[g]
      \/ hooks'[g] = [hooks[g] EXCEPT !.key = Nobody]
      \/ \E s \in ApprovalStatus :
            \/ hooks'[g] = [hooks[g] EXCEPT !.status = s]
            \/ hooks'[g] = [hooks[g] EXCEPT !.polling = Nobody, !.status = s]
            \/ hooks'[g] = [Stopped(hooks[g]) EXCEPT !.status = s]
  <2>1. CASE Polled(c)
    <3> DEFINE h == owner[calls[c].req]
    <3>1. \/ UNCHANGED hooks
          \/ \E s \in ApprovalStatus :
                \/ hooks' = [hooks EXCEPT ![h] = [Stopped(hooks[h]) EXCEPT !.status = s]]
                \/ hooks' = [hooks EXCEPT ![h] = [hooks[h] EXCEPT !.polling = Nobody, !.status = s]]
      BY <2>1 DEF Polled, ApprovalStatus
    <3> HIDE DEF h
    <3> QED
      BY <3>1
  <2>2. CASE Finish(c)
    <3> DEFINE h == owner[calls[c].req]
    <3>1. \/ hooks' = [hooks EXCEPT ![h] = [hooks[h] EXCEPT !.key = Nobody]]
          \/ \E s \in ApprovalStatus :
                \/ hooks' = [hooks EXCEPT ![h] = [Stopped(hooks[h]) EXCEPT !.status = s]]
                \/ hooks' = [hooks EXCEPT ![h] = [hooks[h] EXCEPT !.status = s]]
      BY <2>2 DEF Finish, ApprovalStatus
    <3> HIDE DEF h
    <3> QED
      BY <3>1
  <2> QED
    BY <2>1, <2>2
<1>3. ASSUME NEW s \in ApprovalStatus, hooks'[g] = [Stopped(hooks[g]) EXCEPT !.status = s]
      PROVE  /\ hooks'[g].req = hooks[g].req /\ hooks'[g].screen = hooks[g].screen
             /\ hooks'[g].polling = Nobody /\ hooks'[g].key = Nobody
  BY <1>1, <1>3, StoppedFields DEF Hook
<1> QED
  BY <1>1, <1>2, <1>3 DEF Hook

(* Hooks and modals know requests somebody created, and a hook whose       *)
(* screen is gone has no key                                               *)
LEMMA ClientsKnow ==
    ASSUME ApprovalInv, BoardInv', [Next]_all
    PROVE  ClientsKnowUsed' /\ NoKeyAfterUnmount'
<1> DEFINE Fits(x, known) == /\ {x.req, x.polling} \subseteq known \cup {Nobody}
                             /\ x.screen = "unmounted" => x.key = Nobody
<1>1. [BoardNext]_board /\ used \subseteq used'
  BY StepOfBoard, BoardGrows DEF ApprovalInv
<1>2. \A c \in Calls : calls'[c] # Nobody => calls'[c].ids \subseteq used'
  <2>1. \A c \in Calls : CallKnows(c)
    BY DEF ApprovalInv, ClientsKnowUsed, KeysApproved, CallKnows
  <2>2. \A c \in Calls : CallKnows(c)'
    BY <1>1, <2>1, CallsKnow DEF ApprovalInv
  <2> QED
    BY <2>2 DEF CallKnows
<1>3. /\ hooks \in [Hooks -> Hook] /\ listed \in [Devices -> SUBSET Requests]
      /\ \A g \in Hooks : Fits(hooks[g], used)
      /\ \A d \in Devices : listed[d] \subseteq used
  BY DEF ApprovalInv, TypeOK, ClientsKnowUsed, NoKeyAfterUnmount
<1>4. ASSUME NEW c \in Calls, calls[c] # Nobody, calls[c].op # "list"
      PROVE  calls[c].req \in used
  BY <1>4 DEF ApprovalInv, BoardInv, KnownRequests, CallsHaveRequest
<1>5. ASSUME NEW g \in Hooks, hooks'[g] # hooks[g] PROVE Fits(hooks'[g], used')
  <2>1. ASSUME NEW h \in Hooks, NEW c \in Calls, HookStep(h, c) PROVE Fits(hooks'[g], used')
    <3>1. ASSUME NEW q \in Requests, Request(h, c, q) PROVE Fits(hooks'[g], used')
      BY <1>1, <1>3, <1>5, <3>1 DEF Request, Hook
    <3>2. CASE Unmount(h, c)
      <4>1. g = h /\ hooks[g] \in Hook
        BY <1>3, <1>5, <3>2 DEF Unmount
      <4>2. /\ hooks'[g].req = hooks[g].req /\ hooks'[g].polling = Nobody
            /\ hooks'[g].key = Nobody
        <5> DEFINE gone == [Stopped(hooks[g]) EXCEPT !.screen = "unmounted"]
        <5>1. hooks'[g] = gone \/ hooks'[g] = [gone EXCEPT !.status = "idle"]
          BY <1>3, <3>2, <4>1 DEF Unmount
        <5>2. /\ gone.req = hooks[g].req /\ gone.polling = Nobody /\ gone.key = Nobody
          BY <4>1, StoppedFields DEF Hook
        <5>3. gone \in Hook
          BY <4>1, StoppedFields, HookTypes
        <5> HIDE DEF gone
        <5> QED
          BY <5>1, <5>2, <5>3 DEF Hook
      <4> QED
        BY <1>1, <1>3, <4>2
    <3> QED
      BY <1>5, <2>1, <3>1, <3>2 DEF HookStep, PollTick, clients
  <2>2. ASSUME NEW c \in Calls, Answer(c) PROVE Fits(hooks'[g], used')
    <3> DEFINE h == owner[calls[c].req]
    <3>1. CASE Created(c)
      <4>1. calls[c].req \in used
        BY <1>4, <3>1 DEF Created, At
      <4> QED
        BY <1>1, <1>3, <1>5, <3>1, <4>1 DEF Created, Hook
    <3>2. CASE Polled(c)
      <4>1. /\ hooks[g] \in Hook
            /\ hooks'[g].req = hooks[g].req /\ hooks'[g].screen = hooks[g].screen
            /\ hooks'[g].polling \in {hooks[g].polling, Nobody}
            /\ hooks'[g].key \in {hooks[g].key, Nobody}
        BY <1>3, <1>5, <3>2, AnswersOnlyClear
      <4> QED
        BY <1>1, <1>3, <4>1
    <3>3. CASE Finish(c)
      <4>1. /\ hooks[g] \in Hook
            /\ hooks'[g].req = hooks[g].req /\ hooks'[g].screen = hooks[g].screen
            /\ hooks'[g].polling \in {hooks[g].polling, Nobody}
            /\ hooks'[g].key \in {hooks[g].key, Nobody}
        BY <1>3, <1>5, <3>3, AnswersOnlyClear
      <4> QED
        BY <1>1, <1>3, <4>1
    <3>4. CASE Cancelled(c)
      BY <1>1, <1>3, <1>5, <3>4 DEF Cancelled, Hook
    <3> QED
      BY <1>5, <2>2, <3>1, <3>2, <3>3, <3>4 DEF Answer, Listed, Responded
  <2> QED
    BY <1>5, <2>1, <2>2 DEF Next, ModalStep, PollPending, Respond, Serve, Fails, Expire,
       clients, all
<1>6. ASSUME NEW d \in Devices PROVE listed'[d] \subseteq used'
  <2>1. ASSUME NEW c \in Calls, Listed(c) PROVE listed'[d] \subseteq used'
    BY <1>1, <1>3, <2>1 DEF Listed, At, ApprovalInv, ClientsKnowUsed
  <2>2. ASSUME NEW c \in Calls, Responded(c) PROVE listed'[d] \subseteq used'
    BY <1>1, <1>3, <2>2 DEF Responded
  <2>3. CASE UNCHANGED listed
    BY <1>1, <1>3, <2>3
  <2> QED
    BY <2>1, <2>2, <2>3 DEF Next, HookStep, Request, PollTick, Unmount, ModalStep,
       PollPending, Respond, Answer, Created, Polled, Finish, Cancelled, Serve, Fails,
       Expire, clients, all
<1>7. \A g \in Hooks : Fits(hooks'[g], used')
  BY <1>1, <1>3, <1>5
<1> QED
  BY <1>2, <1>6, <1>7 DEF ClientsKnowUsed, NoKeyAfterUnmount

(* A factor is made by the call that brought the approval, which nothing   *)
(* touches meanwhile                                                       *)
LEMMA FactorSteps ==
    ASSUME ApprovalInv, BoardInv', [Next]_all
    PROVE  KeysApproved' /\ FactorNeedsApproval'
<1>1. /\ [BoardNext]_board
      /\ \A q \in Requests : decided[q]["approve"] = 1
            => decided'[q]["approve"] = 1 /\ decided'[q]["deny"] = 0
  BY StepOfBoard, BoardGrows DEF ApprovalInv
<1>2. \A c \in Calls : CallKnows(c) /\ CallKnows(c)'
  <2>1. \A c \in Calls : CallKnows(c)
    BY DEF ApprovalInv, ClientsKnowUsed, KeysApproved, CallKnows
  <2> QED
    BY <1>1, <2>1, CallsKnow DEF ApprovalInv
<1>3. /\ finishing \in [Calls -> {"no", "factor", "login"}]
      /\ calls \in [Calls -> Call \cup {Nobody}] /\ got \in [Requests -> Nat]
      /\ \A c \in Calls : calls[c] # Nobody /\ calls[c].op # "list" => calls[c].req \in Requests
  BY DEF ApprovalInv, TypeOK, BoardTypeOK, BoardInv, CallsHaveRequest
<1>4. ASSUME NEW c \in Calls, finishing'[c] # "no", finishing[c] = "no"
      PROVE  At(c, "status", "done")' /\ decided'[calls'[c].req]["approve"] = 1
  <2>1. Polled(c)
    BY <1>3, <1>4 DEF Next, HookStep, Request, PollTick, Unmount, ModalStep, PollPending,
       Respond, Answer, Created, Polled, Finish, Cancelled, Listed, Responded, Serve,
       Fails, Expire, clients, all
  <2>2. /\ UNCHANGED board /\ At(c, "status", "done")
        /\ calls[c].answer = "approved" /\ calls[c].copy.key
    BY <1>3, <1>4, <2>1 DEF Polled
  <2>3. calls' = calls /\ decided' = decided
    BY <2>2 DEF board
  <2> QED
    BY <1>2, <2>2, <2>3 DEF CallKnows, At
<1>5. ASSUME NEW c \in Calls, finishing'[c] # "no", finishing[c] # "no"
      PROVE  At(c, "status", "done")' /\ decided'[calls'[c].req]["approve"] = 1
  <2>1. At(c, "status", "done") /\ decided[calls[c].req]["approve"] = 1
    BY <1>5 DEF ApprovalInv, KeysApproved
  <2>2. calls'[c] = calls[c]
    <3>1. SUFFICES ASSUME calls'[c] # calls[c] PROVE FALSE
      OBVIOUS
    <3>2. calls[c] # Nobody /\ calls[c].at = "done" /\ calls[c].op = "status"
      BY <2>1 DEF At
    <3>3. ASSUME NEW e \in Calls, Serve(e) \/ Fails(e) \/ Answer(e) PROVE e = c
      <4>1. CASE Serve(e)
        <5>1. \E x : calls' = [calls EXCEPT ![e] = x]
          BY <4>1 DEF Serve, Handler, CreateCount, CreateInsert, StatusFind, StatusExpire,
             RespondFind, RespondCommit, CancelFind, CancelRemove, List, Answered, Reading
        <5> QED
          BY <1>3, <3>1, <5>1
      <4>2. CASE Fails(e)
        BY <1>3, <3>1, <4>2 DEF Fails, CallFails, Answered
      <4>3. CASE Answer(e)
        <5>1. calls' = calls \/ Done(e)
          BY <4>3 DEF Answer, Created, Polled, Finish, Cancelled, Listed, Responded, board
        <5> QED
          BY <1>3, <3>1, <5>1 DEF Done
      <4> QED
        BY <3>3, <4>1, <4>2, <4>3
    <3>4. ~Serve(c) /\ ~Fails(c)
      BY <1>5, <3>2 DEF Serve, Fails, Handler, CreateCount, CreateInsert, StatusFind,
         StatusExpire, RespondFind, RespondCommit, CancelFind, CancelRemove, List, At
    <3>5. ~Answer(c)
      BY <1>3, <1>5, <3>1, <3>2 DEF Answer, Created, Polled, Finish, Cancelled, Listed,
         Responded, At, board
    <3>6. ASSUME NEW e \in Calls, NEW call, Start(e, call) PROVE FALSE
      BY <1>3, <3>1, <3>2, <3>6 DEF Start
    <3> QED
      BY <3>1, <3>3, <3>4, <3>5, <3>6 DEF Next, HookStep, ModalStep, Request, PollTick,
         Unmount, PollPending, Respond, Expire, TtlPasses, all, board
  <2> QED
    BY <1>1, <1>3, <2>1, <2>2 DEF At
<1>6. KeysApproved'
  BY <1>2, <1>4, <1>5 DEF KeysApproved, CallKnows
<1>7. FactorNeedsApproval'
  <2>1. ASSUME NEW q \in Requests, got'[q] > 0, got[q] = 0 PROVE decided'[q]["approve"] = 1 /\ decided'[q]["deny"] = 0
    <3> got' # got
      BY <2>1
    <3>3. PICK c \in Calls : Finish(c)
      BY DEF Next, HookStep, Request, PollTick, Unmount, ModalStep, PollPending,
         Respond, Answer, Created, Polled, Cancelled, Listed, Responded, Serve,
         Fails, Expire, clients, all
    <3>1. finishing[c] = "factor" /\ q = calls[c].req
      BY <1>3, <2>1, <3>3 DEF Finish
    <3>2. decided[q]["approve"] = 1
      BY <3>1 DEF ApprovalInv, KeysApproved
    <3> QED
      BY <1>1, <3>2
  <2>2. ASSUME NEW q \in Requests, got[q] > 0 PROVE decided'[q]["approve"] = 1 /\ decided'[q]["deny"] = 0
    BY <1>1, <2>2 DEF ApprovalInv, FactorNeedsApproval
  <2>3. \A q \in Requests : got[q] = 0 \/ got[q] > 0
    BY <1>3
  <2> QED
    BY <2>1, <2>2, <2>3 DEF FactorNeedsApproval
<1> QED
  BY <1>6, <1>7

LEMMA NextApproval == ApprovalInv /\ [Next]_all => ApprovalInv'
<1> SUFFICES ASSUME ApprovalInv, [Next]_all PROVE ApprovalInv'
  OBVIOUS
<1>1. BoardInv'
  BY StepOfBoard, NextInv DEF ApprovalInv
<1> QED
  BY <1>1, ClientTypes, ClientsKnow, FactorSteps DEF ApprovalInv

-----------------------------------------------------------------------------
(* The clients, whatever they do, use the board as ApprovalBoard assumes.  *)
THEOREM ClientsImplementBoard == Spec => BoardSpec
<1>1. Init => BoardInit
  BY DEF Init
<1> QED
  BY <1>1, InitApproval, NextApproval, StepOfBoard, PTL DEF Spec, BoardSpec

(* The board and both clients are well typed. *)
THEOREM ApprovalTypeCorrect == Spec => []TypeOK
<1>1. ApprovalInv => TypeOK
  BY DEF ApprovalInv
<1> QED
  BY <1>1, InitApproval, NextApproval, PTL DEF Spec

(* However many devices respond, poll and cancel at once, only one of them *)
(* is told that its decision was recorded.                                 *)
THEOREM ApprovalDecidedOnce == Spec => []OneDecision
  BY ClientsImplementBoard, OnlyOneDecision, PTL

(* A row carries a key only after the one reported approval.               *)
THEOREM ApprovalRowsMatch == Spec => []RowMatchesDecision
  BY ClientsImplementBoard, RowsMatchDecisions, PTL

(* Device factors come from requests that were approved and that nobody    *)
(* was told to have denied.                                                *)
THEOREM FactorsApproved == Spec => []FactorNeedsApproval
<1>1. ApprovalInv => FactorNeedsApproval
  BY DEF ApprovalInv
<1> QED
  BY <1>1, InitApproval, NextApproval, PTL DEF Spec

(* A hook whose screen is gone holds no ephemeral private key.             *)
THEOREM KeysGone == Spec => []NoKeyAfterUnmount
<1>1. ApprovalInv => NoKeyAfterUnmount
  BY DEF ApprovalInv
<1> QED
  BY <1>1, InitApproval, NextApproval, PTL DEF Spec
=============================================================================
