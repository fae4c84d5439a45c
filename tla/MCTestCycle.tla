----------------------------- MODULE MCTestCycle -----------------------------
(* Instances of TestCycle: b has two hostnames, and a and b both announce the *)
(* entry x of another network.                                                *)
EXTENDS TestCycle, TLC

CONSTANTS a, b, x, y, w1, w2

NodesBX == {b, x}
NodesABX == {a, b, x}
NodesABXY == {a, b, x, y}
OneWorker == {w1}
TwoWorkers == {w1, w2}
TwoHostsB == [n \in Node |-> IF n = b THEN 2 ELSE 1]
AnnounceX == [n \in Node |-> IF n \in {a, b} THEN {x} ELSE {}]
WorkerSymmetry == Permutations(TwoWorkers)
=============================================================================
