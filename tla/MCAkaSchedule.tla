--------------------------- MODULE MCAkaSchedule ---------------------------
(* One machine in three networks. *)
EXTENDS AkaSchedule

CONSTANTS e1, e2, e3, h1, h2

Three == {e1, e2, e3}
ThreeNetworks == [e \in Entry |-> IF e = e1 THEN 1 ELSE IF e = e2 THEN 2 ELSE 3]
TwoHosts == {h1, h2}

(* A chain: the middle entry shares a hostname with each of the others. *)
Chain == [e \in Entry |-> IF e = e1 THEN {h1} ELSE IF e = e2 THEN {h1, h2} ELSE {h2}]
AnnounceChain == [e \in Entry |-> IF e = e2 THEN Entry ELSE {e, e2}]
NoLimit == {}
=============================================================================
