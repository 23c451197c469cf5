-------------------------- MODULE MetadataRegister --------------------------
(***************************************************************************)
(* What folder_ipns promises about latest_cid, whatever requests, jobs and *)
(* crashes do: each name is a register.  A publish begins, takes effect at *)
(* most once, at one instant between its begin and its answer, and nothing *)
(* but a publish ever changes the value.  A publish may also be abandoned  *)
(* and never take effect.                                                  *)
(***************************************************************************)
EXTENDS Integers

CONSTANTS
    Names,      \* IPNS names
    MaxPub      \* bound: publishes per name

VARIABLES
    value,      \* name -> CID resolved from the database, 0 for none
    begun,      \* name -> number of publishes begun
    effective,  \* name -> publishes that took effect
    earlier     \* name -> publish -> publishes effective when it began

registerVars == <<value, begun, effective, earlier>>

Publishes == 1 .. MaxPub

RegisterInit ==
    /\ value = [n \in Names |-> 0]
    /\ begun = [n \in Names |-> 0]
    /\ effective = [n \in Names |-> {}]
    /\ earlier = [n \in Names |-> [c \in Publishes |-> {}]]

Begin(n) ==
    /\ begun[n] < MaxPub
    /\ begun' = [begun EXCEPT ![n] = begun[n] + 1]
    /\ earlier' = [earlier EXCEPT ![n][begun[n] + 1] = effective[n]]
    /\ UNCHANGED <<value, effective>>

TakeEffect(n, c) ==
    /\ c <= begun[n]
    /\ c \notin effective[n]
    /\ value' = [value EXCEPT ![n] = c]
    /\ effective' = [effective EXCEPT ![n] = effective[n] \cup {c}]
    /\ UNCHANGED <<begun, earlier>>

RegisterNext ==
    \E n \in Names : Begin(n) \/ \E c \in Publishes : TakeEffect(n, c)

RegisterSpec == RegisterInit /\ [][RegisterNext]_registerVars
=============================================================================
