---------------------------- MODULE MCQueryCache ----------------------------
(* Two requests for one drill-down of the analytics, which stores an empty    *)
(* answer for a shorter time.                                                 *)
EXTENDS QueryCache

CONSTANTS r1, r2, drilldown

TwoRequests == {r1, r2}
OneKey == {drilldown}
BothBackends == {"badger", "memory"}
FamiliesOf == [k \in Key |-> "analytics"]
Ttls == [k \in Key |-> 2]
EmptyTtls == [k \in Key |-> 1]
=============================================================================
