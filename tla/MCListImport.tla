---------------------------- MODULE MCListImport ----------------------------
(* Two dates.  Two copies of the first nodelist, which has points, and a    *)
(* later one without; a pointlist, its shorter correction, and a later, larger *)
(* issue that makes the correction look truncated.                             *)
EXTENDS ListImport

CONSTANTS n1, n1copy, n2, p1, p1short, p2

TheNodelists == {n1, n1copy, n2}
ThePointlists == {p1, p1short, p2}
TheDates == 1..2
Dates == [f \in File |-> IF f \in {n2, p2} THEN 2 ELSE 1]
Sizes == [f \in File |-> CASE f = p2 -> 3
                           [] f = p1 -> 2
                           [] f = n2 -> 0
                           [] OTHER -> 1]
=============================================================================
