---------------------------- MODULE DeviceApproval ----------------------------
(***************************************************************************)
(* Both clients of the approval flow over ApprovalBoard.  A waiting screen *)
(* mounts an instance of the hook useDeviceApproval, which creates a       *)
(* request, polls it every three seconds and, once it is approved, turns   *)
(* the factor key into a device factor and logs in.  On the other devices  *)
(* a modal lists the pending requests and answers one at a time.           *)
(*                                                                         *)
(* A call slot stands for the promise of one API call together with the    *)
(* code awaiting it: clearing the interval does not take back a poll that  *)
(* is under way, and unmounting does not take back anything.               *)
(***************************************************************************)
EXTENDS ApprovalBoard

CONSTANTS
    Hooks,      \* mounts of the waiting screen, one after the other or not
    DeviceOf,   \* the device a hook runs on
    MaxFails    \* bound: calls that fail

ASSUME ClientAssumption ==
    /\ DeviceOf \in [Hooks -> Devices]
    /\ MaxFails \in Nat
    /\ Nobody \notin Hooks

VARIABLES
    hooks,      \* the refs and the state of each hook
    owner,      \* request -> the hook that creates it, or Nobody
    finishing,  \* call -> how far handleApprovalSuccess got with its answer
    listed,     \* device -> the requests its modal shows
    got,        \* history: request -> device factors made from its approval
    fails       \* calls that may still fail

clients == <<hooks, owner, finishing, listed, got, fails>>
all     == <<board, clients>>

ApprovalStatus == {"idle", "requesting", "pending", "approved", "denied",
                   "expired", "completing", "error"}

(* req: requestIdRef; key: ephemeralPrivKeyRef, the request whose key it   *)
(* is; polling: requesterPollRef, the request the interval asks about      *)
Hook == [screen : {"new", "mounted", "unmounted"}, status : ApprovalStatus,
         req : Requests \cup {Nobody}, key : Requests \cup {Nobody},
         polling : Requests \cup {Nobody}]

Init ==
    /\ BoardInit
    /\ hooks = [h \in Hooks |-> [screen |-> "new", status |-> "idle",
                                 req |-> Nobody, key |-> Nobody,
                                 polling |-> Nobody]]
    /\ owner = [q \in Requests |-> Nobody]
    /\ finishing = [c \in Calls |-> "no"]
    /\ listed = [d \in Devices |-> {}]
    /\ got = [q \in Requests |-> 0]
    /\ fails = MaxFails

-----------------------------------------------------------------------------
(* The requester *)

(* stopRequesterPolling and clearEphemeralKey *)
Stopped(hook) == [hook EXCEPT !.polling = Nobody, !.key = Nobody]

RetryShown(hook) == hook.screen = "mounted" /\ hook.status \in {"denied", "expired", "error"}

(* requestApproval up to its await; requested on mounting and by --retry *)
Request(h, c, q) ==
    LET hook == hooks[h] IN
    /\ hook.screen = "new" \/ RetryShown(hook)
    /\ hooks' = [hooks EXCEPT ![h] = [hook EXCEPT !.screen = "mounted",
                                                  !.status = "requesting",
                                                  !.key = q]]
    /\ owner' = [owner EXCEPT ![q] = h]
    /\ Start(c, NewCall("create", q, DeviceOf[h], "deny"))
    /\ UNCHANGED <<finishing, listed, got, fails>>

(* and after it: the id is kept and polling (re)starts, or the error shows *)
Created(c) ==
    LET q == calls[c].req
        h == owner[q]
    IN
    /\ At(c, "create", "done")
    /\ hooks' = [hooks EXCEPT ![h] =
                   IF calls[c].answer = "ok"
                     THEN [@ EXCEPT !.req = q, !.status = "pending", !.polling = q]
                     ELSE [@ EXCEPT !.key = Nobody, !.status = "error"]]
    /\ Done(c)
    /\ UNCHANGED <<owner, finishing, listed, got, fails>>

(* The interval fires; the poll before may still be under way *)
PollTick(h, c) ==
    /\ hooks[h].polling # Nobody
    /\ Start(c, NewCall("status", hooks[h].polling, DeviceOf[h], "deny"))
    /\ UNCHANGED clients

(* Mistake: the answer "expired" is taken for "pending" *)
IgnoresExpiry(answer) == answer \in {"pending", "expired", "missing", "error"}

(* "pending", a lost request and an error all mean: poll again *)
PollsAgain(answer) == answer \in {"pending", "missing", "error"}

(* unwrapKey succeeds with the key the factor was encrypted for *)
Opens(hook, q) == hook.key = q

(* A poll is answered: with a decision or an expiry polling stops.  An     *)
(* approval goes on to handleApprovalSuccess, whose first step decrypts.   *)
Polled(c) ==
    LET q == calls[c].req
        h == owner[q]
        answer == calls[c].answer
        approved == answer = "approved" /\ calls[c].copy.key
        hook == hooks[h]
    IN
    /\ At(c, "status", "done")
    /\ finishing[c] = "no"
    /\ \/ /\ PollsAgain(answer)
          /\ Done(c) /\ UNCHANGED <<hooks, finishing>>
       \/ /\ ~PollsAgain(answer) /\ answer \in {"denied", "expired"}
          /\ hooks' = [hooks EXCEPT ![h] = [Stopped(hook) EXCEPT !.status = answer]]
          /\ Done(c) /\ UNCHANGED finishing
       \/ /\ approved /\ Opens(hook, q)
          /\ hooks' = [hooks EXCEPT ![h] = [hook EXCEPT !.polling = Nobody,
                                                        !.status = "completing"]]
          /\ finishing' = [finishing EXCEPT ![c] = "factor"]
          /\ UNCHANGED board
       \/ /\ approved /\ ~Opens(hook, q)
          /\ hooks' = [hooks EXCEPT ![h] = [Stopped(hook) EXCEPT !.status = "error"]]
          /\ Done(c) /\ UNCHANGED finishing
    /\ UNCHANGED <<owner, listed, got, fails>>

(* inputFactorKey, createFactor, setDeviceFactor and commitChanges; then   *)
(* the key is cleared and completeRequiredShare runs.  Either may throw.   *)
Finish(c) ==
    LET q == calls[c].req
        h == owner[q]
        failed == [Stopped(hooks[h]) EXCEPT !.status = "error"]
    IN
    /\ \/ /\ finishing[c] = "factor"
          /\ got' = [got EXCEPT ![q] = @ + 1]
          /\ hooks' = [hooks EXCEPT ![h].key = Nobody]
          /\ finishing' = [finishing EXCEPT ![c] = "login"]
          /\ UNCHANGED <<board, fails>>
       \/ /\ finishing[c] = "login"
          /\ hooks' = [hooks EXCEPT ![h].status = "approved"]
          /\ finishing' = [finishing EXCEPT ![c] = "no"]
          /\ Done(c) /\ UNCHANGED <<got, fails>>
       \/ /\ finishing[c] # "no" /\ fails > 0
          /\ fails' = fails - 1
          /\ hooks' = [hooks EXCEPT ![h] = failed]
          /\ finishing' = [finishing EXCEPT ![c] = "no"]
          /\ Done(c) /\ UNCHANGED got
    /\ UNCHANGED <<owner, listed>>

(* The screen is left: the hook's cleanup and cancelRequest, which cancels *)
(* the request whose id is known by then                                   *)
Unmount(h, c) ==
    LET hook == hooks[h]
        gone == [Stopped(hook) EXCEPT !.screen = "unmounted"]
    IN
    /\ hook.screen = "mounted"
    /\ IF hook.req = Nobody
         THEN /\ hooks' = [hooks EXCEPT ![h] = [gone EXCEPT !.status = "idle"]]
              /\ UNCHANGED board
         ELSE /\ hooks' = [hooks EXCEPT ![h] = gone]
              /\ Start(c, NewCall("cancel", hook.req, DeviceOf[h], "deny"))
    /\ UNCHANGED <<owner, finishing, listed, got, fails>>

(* Whatever the answer to the cancellation is *)
Cancelled(c) ==
    /\ At(c, "cancel", "done")
    /\ hooks' = [hooks EXCEPT ![owner[calls[c].req]] =
                   [@ EXCEPT !.req = Nobody, !.key = Nobody, !.status = "idle"]]
    /\ Done(c)
    /\ UNCHANGED <<owner, finishing, listed, got, fails>>

-----------------------------------------------------------------------------
(* The approver *)

(* The modal is not shown while the device is waiting itself *)
ModalShown(d) == \A h \in Hooks : DeviceOf[h] = d => hooks[h].screen = "unmounted"

(* It polls the list *)
PollPending(d, c) ==
    /\ ModalShown(d)
    /\ Start(c, NewCall("list", Nobody, d, "deny"))
    /\ UNCHANGED clients

Listed(c) ==
    /\ At(c, "list", "done")
    /\ listed' = IF calls[c].answer = "listed"
                   THEN [listed EXCEPT ![calls[c].dev] = calls[c].ids] ELSE listed
    /\ Done(c)
    /\ UNCHANGED <<hooks, owner, finishing, got, fails>>

(* Its buttons are disabled while an answer is being sent *)
IsResponding(d) == \E c \in Calls : calls[c] # Nobody /\ calls[c].op = "respond"
                                                      /\ calls[c].dev = d

Respond(d, c) ==
    /\ ModalShown(d) /\ ~IsResponding(d)
    /\ \E q \in listed[d], act \in Actions : Start(c, NewCall("respond", q, d, act))
    /\ UNCHANGED clients

(* A recorded answer takes the request off the list; any other shows an    *)
(* error                                                                   *)
Responded(c) ==
    /\ At(c, "respond", "done")
    /\ listed' = IF calls[c].answer = "ok"
                   THEN [listed EXCEPT ![calls[c].dev] = @ \ {calls[c].req}] ELSE listed
    /\ Done(c)
    /\ UNCHANGED <<hooks, owner, finishing, got, fails>>

-----------------------------------------------------------------------------
Fails(c) ==
    /\ fails > 0 /\ fails' = fails - 1
    /\ finishing[c] = "no"
    /\ CallFails(c)
    /\ UNCHANGED <<hooks, owner, finishing, listed, got>>

Serve(c) == Handler(c) /\ UNCHANGED clients

Expire(q) == TtlPasses(q) /\ UNCHANGED clients

Answer(c) == Created(c) \/ Polled(c) \/ Finish(c) \/ Cancelled(c)
                \/ Listed(c) \/ Responded(c)

HookStep(h, c) ==
    \/ \E q \in Requests \ used : Request(h, c, q)
    \/ PollTick(h, c) \/ Unmount(h, c)

ModalStep(d, c) == PollPending(d, c) \/ Respond(d, c)

Next ==
    \/ \E c \in Calls : Serve(c) \/ Answer(c) \/ Fails(c)
    \/ \E h \in Hooks, c \in Calls : HookStep(h, c)
    \/ \E d \in Devices, c \in Calls : ModalStep(d, c)
    \/ \E q \in Requests : Expire(q)

Spec == Init /\ [][Next]_all

(* The API serves what it was asked, a promise that is settled is handled, *)
(* the interval fires whatever else the page has under way, and time       *)
(* passes.  Nobody has to respond, retry or leave.                         *)
Progress ==
    /\ \A c \in Calls : WF_all(Serve(c)) /\ WF_all(Answer(c))
    /\ \A h \in Hooks : SF_all(\E c \in Calls : PollTick(h, c))
    /\ \A q \in Requests : WF_all(Expire(q))

FairSpec == Spec /\ Progress

-----------------------------------------------------------------------------
(* Properties *)

(* Board and clients hold what they can hold; a request has one owner.     *)
TypeOK ==
    /\ BoardTypeOK
    /\ hooks \in [Hooks -> Hook]
    /\ owner \in [Requests -> Hooks \cup {Nobody}]
    /\ finishing \in [Calls -> {"no", "factor", "login"}]
    /\ listed \in [Devices -> SUBSET Requests]
    /\ got \in [Requests -> Nat]
    /\ fails \in 0 .. MaxFails

(* A device factor only comes from a request that was approved and that    *)
(* nobody was told to have denied, whatever late polls, stale lists,       *)
(* retries and cancellations come in between.                              *)
FactorNeedsApproval ==
    \A q \in Requests : got[q] > 0 =>
        decided[q]["approve"] = 1 /\ decided[q]["deny"] = 0

(* Once the screen is gone, its hook holds no ephemeral private key, even  *)
(* if calls it made come back afterwards.                                  *)
NoKeyAfterUnmount ==
    \A h \in Hooks : hooks[h].screen = "unmounted" => hooks[h].key = Nobody

(* A waiting screen that nobody leaves does not wait for ever: it gets a   *)
(* decision, an expiry or an error.                                        *)
WaitingEnds ==
    \A h \in Hooks :
        (hooks[h].screen = "mounted" /\ hooks[h].status \in {"requesting", "pending", "completing"})
            ~> (hooks[h].screen = "unmounted"
                  \/ hooks[h].status \notin {"requesting", "pending", "completing"})
-----------------------------------------------------------------------------
(* The inductive invariant *)

(* Hooks, modals and lists only know requests somebody created *)
ClientsKnowUsed ==
    /\ \A h \in Hooks : {hooks[h].req, hooks[h].polling} \subseteq used \cup {Nobody}
    /\ \A d \in Devices : listed[d] \subseteq used
    /\ \A c \in Calls : calls[c] # Nobody => calls[c].ids \subseteq used

(* A key a poll carries, and a factor being made from it, come from the    *)
(* approval                                                                *)
KeysApproved ==
    \A c \in Calls :
        /\ calls[c] # Nobody /\ calls[c].op = "status" =>
              /\ calls[c].answer = "approved" => calls[c].copy # Nobody
              /\ calls[c].copy # Nobody /\ calls[c].copy.key
                    => decided[calls[c].req]["approve"] = 1
        /\ finishing[c] # "no" =>
              /\ At(c, "status", "done")
              /\ decided[calls[c].req]["approve"] = 1

ApprovalInv ==
    /\ BoardInv
    /\ TypeOK
    /\ ClientsKnowUsed
    /\ KeysApproved
    /\ FactorNeedsApproval
    /\ NoKeyAfterUnmount
=============================================================================
