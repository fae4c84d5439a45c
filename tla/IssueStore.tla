----------------------------- MODULE IssueStore -----------------------------
(***************************************************************************)
(* What the readers of the points table rely on: an issue of a series is   *)
(* there as a whole or not at all.  It appears in one step, may be taken   *)
(* away in one step, and while it is there no row of it comes or goes.     *)
(***************************************************************************)
EXTENDS Naturals

CONSTANTS File, Key, KeyOf, Row, FileOf, None

VARIABLE shown   \* per key, how often each row is stored; None if there is no issue

(* One copy of every row of the file and nothing else under its key. *)
Issue(f) == [r \in {q \in Row : KeyOf[FileOf[q]] = KeyOf[f]} |-> IF FileOf[r] = f THEN 1 ELSE 0]

Init == shown = [k \in Key |-> None]

Publish(f) == shown' = [shown EXCEPT ![KeyOf[f]] = Issue(f)]
Withdraw(k) == shown' = [shown EXCEPT ![k] = None]

Next == (\E f \in File : Publish(f)) \/ (\E k \in Key : Withdraw(k))

Spec == Init /\ [][Next]_shown
=============================================================================
