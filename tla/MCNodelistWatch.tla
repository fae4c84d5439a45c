-------------------------- MODULE MCNodelistWatch --------------------------
(* Two nodes in one network, so that an issue may come in two batches, and *)
(* one in another; one configuration with a hostname and one without.      *)
EXTENDS NodelistWatch

CONSTANTS n1, n2, n3, fido, fsx, c1, h1

ThreeNodes == {n1, n2, n3}
Domains == {fido, fsx}
Networks == [n \in Node |-> IF n = n3 THEN fsx ELSE fido]
Configs == {c1}
Hostless == {h1}
Dates == [d \in Domain |-> IF d = fsx THEN {2} ELSE {1, 3}]
MayBeListed == [n \in Node |-> IF n = n1 THEN {c1, h1} ELSE IF n = n2 THEN {NoInet} ELSE {c1}]
=============================================================================
