-------------------------------- MODULE MCLive --------------------------------
(* Small instances of IpnsRegistry and of DeviceApproval for what must      *)
(* eventually happen.  They share no state: subject says which of them a    *)
(* behaviour is about, and only that one is scheduled fairly.  The registry *)
(* is looked at twice: two names that fall due in one batch, and one name   *)
(* through all the epochs                                                   *)
EXTENDS IpnsRegistry, TLC

CONSTANTS n1, n2, Asked, Devices, Calls, Nobody, MaxPending, Hooks, Device, MaxFails

VARIABLES rows, lock, used, decided, calls, hooks, owner, finishing, listed, got, fails,
          subject

approvalVars == <<rows, lock, used, decided, calls,
                  hooks, owner, finishing, listed, got, fails>>

NoRoots == {}

Approval == INSTANCE DeviceApproval
              WITH Requests <- Asked, DeviceOf <- [h \in Hooks |-> Device]

(* Restarts, refused statements and outages so far *)
Spent == MaxOutages - budget.outages + MaxCrashes - budget.crashes
           + MaxDbErrors - budget.dbErrors

(* What bounds the two looks at the registry besides the constants: it      *)
(* never keeps the job, a request or the time of a row from going on.  The  *)
(* numbers clients hold and the life of routing's records, which no row of  *)
(* the schedule depends on, stand still                                     *)
InScope ==
    /\ Spent' <= 2
    /\ \A n \in Names : known'[n] = 0 /\ (routing[n] # NoRow => routing'[n] # NoRow)
    /\ \/ subject = "batch" /\ tee' \in {NoRow, [cur |-> 1, prev |-> 0]}
       \/ subject = "epochs" /\ pubs'[n2] = 0

LiveInit ==
    /\ Init /\ Approval!Init
    /\ subject \in {"batch", "epochs", "approval"} /\ (subject = "approval" => teeUp)
LiveNext ==
    /\ UNCHANGED subject
    /\ \/ Next /\ InScope /\ UNCHANGED approvalVars
       \/ subject = "approval" /\ Approval!Next /\ UNCHANGED vars
LiveSpec ==
    /\ LiveInit /\ [][LiveNext]_<<vars, approvalVars, subject>>
    /\ \/ subject # "approval" /\ Progress
       \/ subject = "approval" /\ Approval!Progress

(* See DeviceApproval *)
WaitingEnds == Approval!WaitingEnds
=============================================================================
