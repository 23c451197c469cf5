---------------------------- MODULE ApprovalBoard ----------------------------
(***************************************************************************)
(* The bulletin board of the cross-device approval flow: the handlers of   *)
(* DeviceApprovalService over the table device_approvals of one user.  A   *)
(* new device creates a request and polls its status; another device lists *)
(* the pending requests and approves one, attaching the factor key         *)
(* encrypted for the request's ephemeral key, or denies it.                *)
(*                                                                         *)
(* Each handler is a call with one step per await.  respond is a           *)
(* transaction that holds a row lock from its read to its commit; the      *)
(* other handlers read without a lock and write later, waiting only for    *)
(* the lock of a transaction.                                              *)
(***************************************************************************)
EXTENDS Integers, FiniteSets

CONSTANTS
    Requests,   \* ids of approval requests; every request has its own
                \* ephemeral key
    Devices,    \* device ids of the user
    Calls,      \* API calls that can be in progress at a time
    Nobody,     \* no row, no call, no device
    MaxPending  \* MAX_PENDING_REQUESTS, 5 in the code

ASSUME BoardAssumption ==
    /\ MaxPending \in Nat \ {0}
    /\ Nobody \notin Requests \cup Devices \cup Calls

VARIABLES
    rows,       \* device_approvals: request -> row or Nobody
    lock,       \* request -> the respond transaction that holds its row
    calls,      \* call -> its handler's progress and answer, or Nobody
    used,       \* requests whose creation has been attempted
    decided     \* history: request -> action -> respond calls answered "ok"

board == <<rows, lock, calls, used, decided>>

Actions == {"approve", "deny"}

-----------------------------------------------------------------------------
(* late: expires_at has passed; key: encrypted_factor_key is set *)
Row == [dev : Devices, status : {"pending", "approved", "denied", "expired"},
        late : BOOLEAN, key : BOOLEAN, by : Devices \cup {Nobody}]

Answers == {"none", "ok", "rejected", "late", "missing", "error",
            "pending", "approved", "denied", "expired", "listed"}

(* copy: the entity the handler has in memory; ids: what a list returns *)
Call == [op : {"create", "status", "respond", "cancel", "list"},
         req : Requests \cup {Nobody}, dev : Devices, act : Actions,
         at : {"find", "write", "done"}, copy : Row \cup {Nobody},
         answer : Answers, ids : SUBSET Requests]

(* NULL is neither a row nor a call *)
ASSUME NobodyAssumption == Nobody \notin Row \cup Call

NewCall(op, q, d, act) ==
    [op |-> op, req |-> q, dev |-> d, act |-> act, at |-> "find",
     copy |-> Nobody, answer |-> "none", ids |-> {}]

NewRow(d) == [dev |-> d, status |-> "pending", late |-> FALSE, key |-> FALSE,
              by |-> Nobody]

BoardInit ==
    /\ rows = [q \in Requests |-> Nobody]
    /\ lock = [q \in Requests |-> Nobody]
    /\ calls = [c \in Calls |-> Nobody]
    /\ used = {}
    /\ decided = [q \in Requests |-> [a \in Actions |-> 0]]

-----------------------------------------------------------------------------
(* Helpers of the handlers *)

(* where status = pending and expires_at > now *)
Pending == {q \in Requests : rows[q] # Nobody /\ rows[q].status = "pending"
                                              /\ ~rows[q].late}

At(c, op, at) == calls[c] # Nobody /\ calls[c].op = op /\ calls[c].at = at

Answered(c, ans) == [calls EXCEPT ![c].at = "done", ![c].answer = ans]

Reading(c, row) == [calls EXCEPT ![c].at = "write", ![c].copy = row]

-----------------------------------------------------------------------------
(* A request arrives *)
Start(c, call) ==
    /\ calls[c] = Nobody
    /\ calls' = [calls EXCEPT ![c] = call]
    /\ IF call.op = "create"
         THEN call.req \notin used /\ used' = used \cup {call.req}
         ELSE UNCHANGED used
    /\ UNCHANGED <<rows, lock, decided>>

(* createRequest counts the pending requests *)
CreateCount(c) ==
    /\ At(c, "create", "find")
    /\ calls' = IF Cardinality(Pending) >= MaxPending
                  THEN Answered(c, "rejected")
                  ELSE [calls EXCEPT ![c].at = "write"]
    /\ UNCHANGED <<rows, lock, used, decided>>

(* and inserts its row later *)
CreateInsert(c) ==
    /\ At(c, "create", "write")
    /\ rows' = [rows EXCEPT ![calls[c].req] = NewRow(calls[c].dev)]
    /\ calls' = Answered(c, "ok")
    /\ UNCHANGED <<lock, used, decided>>

PastTtl(row) == row.status = "pending" /\ row.late

(* getStatus reads the row; one past its TTL is to be saved as expired *)
StatusFind(c) ==
    LET row == rows[calls[c].req] IN
    /\ At(c, "status", "find")
    /\ calls' = CASE row = Nobody -> Answered(c, "missing")
                  [] row # Nobody /\ PastTtl(row) -> Reading(c, row)
                  [] OTHER -> [calls EXCEPT ![c].at = "done",
                                            ![c].answer = row.status,
                                            ![c].copy = row]
    /\ UNCHANGED <<rows, lock, used, decided>>

(* The save writes the columns in which the copy differs from the row as   *)
(* save re-reads it: the row may still be as copied (then it is the status *)
(* alone) or have changed since (then it is the whole copy).  A row that   *)
(* is gone is inserted again.                                              *)
StatusExpire(c) ==
    LET q == calls[c].req
        expired(row) == [row EXCEPT !.status = "expired"]
    IN
    /\ At(c, "status", "write")
    /\ lock[q] = Nobody
    /\ \/ rows' = [rows EXCEPT ![q] = expired(calls[c].copy)]
       \/ rows[q] # Nobody /\ rows' = [rows EXCEPT ![q] = expired(rows[q])]
    /\ calls' = Answered(c, "expired")
    /\ UNCHANGED <<lock, used, decided>>

(* Mistake: a request that was responded to can be responded to again *)
RefusalOfLateOnly(row, d) ==
    CASE row = Nobody -> "missing"
      [] row # Nobody /\ row.late -> "late"
      [] row # Nobody /\ ~row.late /\ row.dev = d -> "rejected"
      [] OTHER -> "none"

(* Mistake: the responding device is not compared with the requesting one *)
RefusalBySelfToo(row, d) ==
    CASE row = Nobody -> "missing"
      [] row # Nobody /\ row.status # "pending" -> "rejected"
      [] row # Nobody /\ row.status = "pending" /\ row.late -> "late"
      [] OTHER -> "none"

(* Why respond refuses a row: it has been responded to, has expired (the   *)
(* "expired" it then saves is rolled back by the exception it throws), or  *)
(* the responding device is the requesting one                             *)
Refusal(row, d) ==
    CASE row = Nobody -> "missing"
      [] row # Nobody /\ row.status # "pending" -> "rejected"
      [] row # Nobody /\ row.status = "pending" /\ row.late -> "late"
      [] row # Nobody /\ row.status = "pending" /\ ~row.late /\ row.dev = d -> "rejected"
      [] OTHER -> "none"

(* Mistake: the lock does not keep another response out *)
RespondFindShared(c) ==
    LET q == calls[c].req
        why == Refusal(rows[q], calls[c].dev)
    IN
    /\ At(c, "respond", "find")
    /\ IF why = "none"
         THEN lock' = [lock EXCEPT ![q] = c] /\ calls' = Reading(c, rows[q])
         ELSE UNCHANGED lock /\ calls' = Answered(c, why)
    /\ UNCHANGED <<rows, used, decided>>

(* respond's findOne with a pessimistic lock, and its checks *)
RespondFind(c) ==
    LET q == calls[c].req
        why == Refusal(rows[q], calls[c].dev)
    IN
    /\ At(c, "respond", "find")
    /\ lock[q] = Nobody
    /\ IF why = "none"
         THEN lock' = [lock EXCEPT ![q] = c] /\ calls' = Reading(c, rows[q])
         ELSE UNCHANGED lock /\ calls' = Answered(c, why)
    /\ UNCHANGED <<rows, used, decided>>

(* The row respond saves *)
Decision(row, d, act) ==
    [row EXCEPT !.status = IF act = "approve" THEN "approved" ELSE "denied",
                !.key = (act = "approve"), !.by = d]

RespondCommit(c) ==
    LET q == calls[c].req IN
    /\ At(c, "respond", "write")
    /\ rows' = [rows EXCEPT ![q] = Decision(rows[q], calls[c].dev, calls[c].act)]
    /\ lock' = [lock EXCEPT ![q] = Nobody]
    /\ decided' = [decided EXCEPT ![q][calls[c].act] = @ + 1]
    /\ calls' = Answered(c, "ok")
    /\ UNCHANGED used

(* cancel reads the row and removes it later *)
CancelFind(c) ==
    LET row == rows[calls[c].req] IN
    /\ At(c, "cancel", "find")
    /\ calls' = IF row = Nobody \/ (row # Nobody /\ row.status # "pending")
                  THEN Answered(c, "missing") ELSE Reading(c, row)
    /\ UNCHANGED <<rows, lock, used, decided>>

CancelRemove(c) ==
    LET q == calls[c].req IN
    /\ At(c, "cancel", "write")
    /\ lock[q] = Nobody
    /\ rows' = [rows EXCEPT ![q] = Nobody]
    /\ calls' = Answered(c, "ok")
    /\ UNCHANGED <<lock, used, decided>>

(* getPending *)
List(c) ==
    /\ At(c, "list", "find")
    /\ calls' = [calls EXCEPT ![c].at = "done", ![c].answer = "listed",
                              ![c].ids = Pending]
    /\ UNCHANGED <<rows, lock, used, decided>>

(* A request or a statement is lost and its transaction rolled back, or    *)
(* the answer is lost after the work was done                              *)
CallFails(c) ==
    /\ calls[c] # Nobody /\ calls[c].answer # "error"
    /\ calls' = Answered(c, "error")
    /\ lock' = [q \in Requests |-> IF lock[q] = c THEN Nobody ELSE lock[q]]
    /\ UNCHANGED <<rows, used, decided>>

(* Five minutes after its creation a request is late *)
TtlPasses(q) ==
    /\ rows[q] # Nobody /\ ~rows[q].late
    /\ rows' = [rows EXCEPT ![q].late = TRUE]
    /\ UNCHANGED <<lock, calls, used, decided>>

Handler(c) ==
    \/ CreateCount(c) \/ CreateInsert(c)
    \/ StatusFind(c) \/ StatusExpire(c)
    \/ RespondFind(c) \/ RespondCommit(c)
    \/ CancelFind(c) \/ CancelRemove(c)
    \/ List(c)

(* The caller has its answer *)
Done(c) ==
    /\ calls[c] # Nobody /\ calls[c].at = "done"
    /\ calls' = [calls EXCEPT ![c] = Nobody]
    /\ UNCHANGED <<rows, lock, used, decided>>

(* Any caller may call anything about a request whose creation it has seen *)
AnyStart(c) ==
    \E d \in Devices :
        \/ Start(c, NewCall("list", Nobody, d, "deny"))
        \/ \E q \in Requests : Start(c, NewCall("create", q, d, "deny"))
        \/ \E q \in used \cap Requests :
              \/ \E op \in {"status", "cancel"} : Start(c, NewCall(op, q, d, "deny"))
              \/ \E act \in Actions : Start(c, NewCall("respond", q, d, act))

BoardNext ==
    \/ \E c \in Calls : AnyStart(c) \/ Handler(c) \/ CallFails(c) \/ Done(c)
    \/ \E q \in Requests : TtlPasses(q)

BoardSpec == BoardInit /\ [][BoardNext]_board

-----------------------------------------------------------------------------
(* Properties *)

(* Every variable holds what the table and the handlers can hold. *)
BoardTypeOK ==
    /\ rows \in [Requests -> Row \cup {Nobody}]
    /\ lock \in [Requests -> Calls \cup {Nobody}]
    /\ calls \in [Calls -> Call \cup {Nobody}]
    /\ used \subseteq Requests
    /\ decided \in [Requests -> [Actions -> Nat]]

Decisions(q) == decided[q]["approve"] + decided[q]["deny"]

(* However many devices respond at once, at most one of them is told that  *)
(* its decision was recorded.                                              *)
OneDecision == \A q \in Requests : Decisions(q) <= 1

(* A row says what was decided: approved and carrying a key exactly when   *)
(* the one device that was told "ok" approved, never by the requesting     *)
(* device, and pending only while nobody was told "ok", whatever expiries, *)
(* cancellations and lost calls did to the row in between.                 *)
RowMatchesDecision ==
    \A q \in Requests : rows[q] # Nobody =>
        LET row == rows[q] IN
        /\ row.key => decided[q]["approve"] = 1
        /\ row.status = "approved" => row.key
        /\ row.status = "denied" => decided[q]["deny"] = 1 /\ ~row.key
        /\ row.status = "pending" => Decisions(q) = 0 /\ ~row.key
        /\ row.by # row.dev

-----------------------------------------------------------------------------
(* The inductive invariant *)

(* A respond transaction past its checks holds the lock of its pending row *)
RespondHoldsLock ==
    \A c \in Calls : At(c, "respond", "write") =>
        LET q == calls[c].req IN
        /\ lock[q] = c
        /\ rows[q] # Nobody /\ rows[q].status = "pending"
        /\ rows[q].dev # calls[c].dev

(* A row about to be created is not there yet and nobody else creates it *)
CreatesItsOwn ==
    \A c \in Calls :
        calls[c] # Nobody /\ calls[c].op = "create" /\ calls[c].at # "done" =>
            LET q == calls[c].req IN
            /\ q \in used /\ rows[q] = Nobody /\ Decisions(q) = 0
            /\ \A e \in Calls \ {c} :
                  calls[e] # Nobody /\ calls[e].op = "create" => calls[e].req # q

(* Rows and decisions only exist for requests somebody created *)
KnownRequests ==
    \A q \in Requests \ used : rows[q] = Nobody /\ Decisions(q) = 0
                               /\ \A c \in Calls : calls[c] # Nobody => calls[c].req # q

(* What getStatus is about to expire was there, without a key *)
StaleCopies ==
    \A c \in Calls : At(c, "status", "write") =>
        LET row == calls[c].copy IN
        /\ row # Nobody /\ ~row.key /\ row.by # row.dev
        /\ \A e \in Calls : calls[e] # Nobody /\ calls[e].op = "create"
                /\ calls[e].at # "done" => calls[e].req # calls[c].req

(* Only a list is not about a request *)
CallsHaveRequest ==
    \A c \in Calls : calls[c] # Nobody /\ calls[c].op # "list"
                        => calls[c].req \in Requests

BoardInv ==
    /\ BoardTypeOK
    /\ CallsHaveRequest
    /\ OneDecision
    /\ RowMatchesDecision
    /\ RespondHoldsLock
    /\ CreatesItsOwn
    /\ KnownRequests
    /\ StaleCopies
=============================================================================
