--------------------------- MODULE MCIpnsRegistry ---------------------------
(* Instances of IpnsRegistry for TLC. *)
EXTENDS IpnsRegistry, TLC

CONSTANTS n1, n2, r1, r2

OneName  == {n1}
TwoNames == {n1, n2}
NoRoots  == {}
RootN2   == {n2}
OneReq   == {r1}
TwoReqs  == {r1, r2}

(* A root's row was made before its first publish *)
RowFirst(n) == folder[n] # NoRow /\ folder[n].seq = Cardinality(saved[n])

(* A rotation or such a row is explored in a behaviour without an outage, a *)
(* restart or a refused statement                                           *)
Eventful ==
    MaxOutages - budget.outages + MaxCrashes - budget.crashes
      + MaxDbErrors - budget.dbErrors
      + 3 * (IF tee # NoRow THEN tee.cur - 1 ELSE 0)
      + 3 * Cardinality({n \in Names : RowFirst(n)}) <= 3

(* Requests, and names of the same kind, are interchangeable. *)
RequestSymmetry == Permutations({r1, r2})
=============================================================================
