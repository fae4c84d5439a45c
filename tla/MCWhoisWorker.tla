--------------------------- MODULE MCWhoisWorker ---------------------------
(* Two testers, a domain, and a queue of one place. *)
EXTENDS WhoisWorker

CONSTANTS t1, t2, d1

TwoTesters == {t1, t2}
OneDomain == {d1}
Tlds1 == [d \in Domain |-> "org"]
=============================================================================
