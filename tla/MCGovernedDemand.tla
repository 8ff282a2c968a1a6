-------------------------- MODULE MCGovernedDemand --------------------------
(* Of four versions the last is invalid and the third takes the service    *)
(* off; the other two price it differently, and only the first goes far.   *)
EXTENDS GovernedDemand, TLC

CONSTANTS h1, h2, k1, near, far

HostsOfTenant == {h1, h2}
KeysOfCustomers == {k1}
IntentsOfCustomers == {near, far}
ValidVersions == {1, 2, 3}
PriceOf == [v \in Versions |-> 100 * v]
AdmittedBy == [v \in Versions |-> IF v = 1 THEN {near, far}
                                  ELSE IF v = 2 THEN {near} ELSE {}]

Interchangeable == Permutations(HostsOfTenant)
=============================================================================
