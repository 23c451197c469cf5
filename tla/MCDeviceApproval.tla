--------------------------- MODULE MCDeviceApproval ---------------------------
(* Instances of DeviceApproval for TLC. *)
EXTENDS DeviceApproval, TLC

CONSTANTS q1, q2, d1, d2, d3, c1, c2, h1

OneRequest  == {q1}
TwoRequests == {q1, q2}
AllDevices  == {d1, d2, d3}
TwoCalls    == {c1, c2}
OneHook     == {h1}
OnD1        == [h \in Hooks |-> d1]

(* A device that lists requests or has a call under way *)
Active(d) == listed[d] # {} \/ \E c \in Calls : calls[c] # Nobody /\ calls[c].dev = d

(* Two devices that may respond meet over one request; a retry of the       *)
(* waiting screen is explored with one of them                              *)
RetryOrRivals == Cardinality(used) <= 1 \/ ~Active(d2) \/ ~Active(d3)

(* Calls are interchangeable, and so are requests, and the devices that do  *)
(* not wait.                                                                *)
CallSymmetry == Permutations(Calls) \cup Permutations(Requests)
                  \cup Permutations({d2, d3})
=============================================================================
