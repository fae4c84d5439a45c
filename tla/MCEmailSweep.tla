---------------------------- MODULE MCEmailSweep ----------------------------
(* Two domains, one of them in flight at a time, with up to two exchangers. *)
EXTENDS EmailSweep

CONSTANTS d1, d2, h1, h2

TwoDomains == {d1, d2}
TwoHosts == {h1, h2}
=============================================================================
