------------------------------ MODULE ResultLog ------------------------------
(***************************************************************************)
(* What the testing daemon promises about the rows it produces, without    *)
(* saying how: a row that has been produced is held by the process until   *)
(* the database has it, a row the database has stays there, and only the   *)
(* end of the process loses rows.  TestCycle implements this log.          *)
(***************************************************************************)
EXTENDS Naturals

CONSTANT Row      \* every row that can ever be produced

VARIABLES
    process,      \* how many times the daemon has been started again
    held,         \* rows in the process's memory, on their way to the database
    stored        \* rows in the database

vars == <<process, held, stored>>

Init == process = 0 /\ held = {} /\ stored = {}

(* Rows are produced, and rows reach the database.  The process forgets only *)
(* rows that the database has; when the answer to a committed insert is lost *)
(* it keeps them and inserts them again later.                               *)
Advance ==
    /\ held' \in SUBSET Row
    /\ (held' \ held) \cap stored = {}
    /\ held \subseteq held' \cup stored'
    /\ stored \subseteq stored'
    /\ stored' \in SUBSET Row
    /\ UNCHANGED process

(* The process ends, with whatever it still held, and another one starts. *)
Lose ==
    /\ held' = {}
    /\ process' = process + 1
    /\ UNCHANGED stored

Next == Advance \/ Lose

Spec == Init /\ [][Next]_vars
=============================================================================
