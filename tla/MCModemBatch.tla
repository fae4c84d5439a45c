---------------------------- MODULE MCModemBatch ----------------------------
(* Two modems, two nodes that share a number, two operators, and one that is   *)
(* only in the cache.                                                          *)
EXTENDS ModemBatch, TLC

CONSTANTS m1, m2, a, b, p, o1, o2, o3

TwoModems == {m1, m2}
TwoNodes == {a, b}
OnePhone == {p}
Numbers == [n \in Node |-> p]
AllOperators == {o1, o2, o3}
FirstO1 == <<o1, o2>>
ModemSymmetry == Permutations(TwoModems)
=============================================================================
