--------------------------- MODULE NodelistWatch ---------------------------
(***************************************************************************)
(* How the daemon's schedule follows the nodelists in the database.  The   *)
(* parser, another process, inserts the rows of an issue in batches.  The  *)
(* daemon loads the newest issue of every network when it starts, remembers *)
(* a fingerprint (the newest date of each network), and every five minutes *)
(* refreshes the schedule if the fingerprint has changed.  Each query sees *)
(* the database as it is at that moment.                                   *)
(*                                                                         *)
(* A test cycle runs in the same goroutine as the refresh, so a test is a  *)
(* step between two refreshes.  A restart is the initial state again.      *)
(***************************************************************************)
EXTENDS Integers, FiniteSets

CONSTANTS
    Node,            \* addresses
    Domain,          \* networks
    DomainOf,        \* the network of an address
    Config,          \* internet configurations that have a hostname
    HostlessConfig,  \* configurations with protocols and no hostname
    SystemName,      \* what the tester puts in place of a missing hostname
    NoInet,          \* a row without internet service
    Listings,        \* the configurations an address may be listed with
    DatesOf          \* the dates of a network's issues

ASSUME WatchAssumption ==
    /\ DomainOf \in [Node -> Domain]
    /\ DatesOf \in [Domain -> SUBSET Nat]
    /\ Config \cap HostlessConfig = {}
    /\ Listings \in [Node -> SUBSET (Config \cup HostlessConfig \cup {NoInet})]
    /\ {NoInet, SystemName} \cap (Config \cup HostlessConfig) = {} /\ NoInet # SystemName

VARIABLES
    table,           \* the rows of the nodes table
    import,          \* the rows the parser has read and has yet to insert
    missed,          \* history: rows that came unannounced since the last query (see Unannounced)
    schedules,       \* the entries: a function from some of the nodes
    lastFingerprint, \* d.lastNodelistFingerprint
    current,         \* the fingerprint read by the check in progress
    fresh,           \* the nodes queried for the refresh in progress
    pc               \* where the Run goroutine is

daemonVars == <<schedules, lastFingerprint, current, fresh, pc>>
vars == <<table, import, missed, daemonVars>>

Date == UNION {DatesOf[d] : d \in Domain}
ListedConfigs == Config \cup HostlessConfig
Row == [node : Node, date : Date, cfg : ListedConfigs \cup {NoInet}]

(* What an issue of a date that lists these nodes may say. *)
Issues(listed, t) ==
    {{[node |-> n, date |-> t, cfg |-> cfg[n]] : n \in listed} :
        cfg \in {f \in [listed -> ListedConfigs \cup {NoInet}] : \A n \in listed : f[n] \in Listings[n]}}

(* The rows of the newest issue of each network, which is the one with the *)
(* greatest date among the network's rows.                                 *)
Newest(rows) ==
    {r \in rows : \A q \in rows : DomainOf[q.node] = DomainOf[r.node] => q.date <= r.date}

(* faulty variant: only the networks with the newest date of all *)
FingerprintGlobal(rows) ==
    {<<DomainOf[r.node], r.date>> : r \in {q \in rows : \A p \in rows : p.date <= q.date}}

(* "fidonet=2026-07-16,fsxnet=2026-07-10": every network with its newest date. *)
(* The string is empty when the table is, and before it was ever read.     *)
Fingerprint(rows) == {<<DomainOf[r.node], r.date>> : r \in Newest(rows)}

NoFingerprint == {}

(* GetNodesWithInternet *)
NodesWithInternet(rows) == {r \in Newest(rows) : r.cfg # NoInet}

(* hasInternetConfigChanged compares the Node the schedule holds, which the *)
(* tester may have given a hostname, with the row.                         *)
ConfigChanged(held, listed) == held # listed

(* "tested" is history: the configuration the node was last tested with, or *)
(* had when the daemon took over the results of an earlier one.            *)
Entry == [cfg : ListedConfigs \cup {SystemName}, due : BOOLEAN,
          tested : ListedConfigs \cup {NoInet}]

RowOf(rows, n) == CHOOSE r \in rows : r.node = n
NodesOf(rows) == {r.node : r \in rows}

(* The types; the schedule holds entries for some of the nodes. *)
TypeOK ==
    /\ table \in SUBSET Row
    /\ import \in SUBSET Row
    /\ missed \in SUBSET Row
    /\ \E S \in SUBSET Node : schedules \in [S -> Entry]
    /\ lastFingerprint \in SUBSET (Domain \X Date)
    /\ current \in SUBSET (Domain \X Date)
    /\ fresh \in SUBSET Row
    /\ pc \in {"load", "init", "stamp", "idle", "query", "apply"}

(* The daemon starts beside a parser; what the database holds by then was *)
(* imported before the first query.                                        *)
Init ==
    /\ table = {}
    /\ import = {}
    /\ missed = {}
    /\ schedules = [n \in {} |-> TRUE]
    /\ lastFingerprint = NoFingerprint
    /\ current = NoFingerprint
    /\ fresh = {}
    /\ pc = "load"

(***************************************************************************)
(* The parser                                                              *)
(***************************************************************************)

RowsOf(d, t) == {r \in Row : DomainOf[r.node] = d /\ r.date = t}

(* The parser reads a file whose date has no rows in its network yet.  Its *)
(* workers may have files of other dates and networks in hand.             *)
StartImport(d, t) ==
    /\ (table \cup import) \cap RowsOf(d, t) = {}
    /\ \E listed \in (SUBSET {n \in Node : DomainOf[n] = d}) \ {{}} :
       \E issue \in Issues(listed, t) : import' = import \cup issue
    /\ UNCHANGED <<table, missed, daemonVars>>


(* Rows whose arrival no later check can tell: those of an issue that already *)
(* has rows or that is older than the newest one of its network, which leave *)
(* the fingerprint as it was, and those that come between the first query    *)
(* and the fingerprint that is stored after it.                             *)
Unannounced(batch) ==
    \/ pc \in {"init", "stamp"}
    \/ \E r \in batch, q \in table : DomainOf[q.node] = DomainOf[r.node] /\ r.date <= q.date

(* One batch of rows. *)
InsertBatch(d, t) ==
    /\ \E batch \in (SUBSET (import \cap RowsOf(d, t))) \ {{}} :
          /\ table' = table \cup batch
          /\ import' = import \ batch
          /\ missed' = IF Unannounced(batch) THEN missed \cup batch ELSE missed
    /\ UNCHANGED daemonVars

(* A batch fails, and with it the rest of the file. *)
InsertFails(d, t) ==
    /\ import \cap RowsOf(d, t) # {}
    /\ import' = import \ RowsOf(d, t)
    /\ UNCHANGED <<table, missed, daemonVars>>

(***************************************************************************)
(* The daemon                                                              *)
(***************************************************************************)

(* Run asks for the nodes. *)
LoadNodes ==
    /\ pc = "load"
    /\ fresh' = NodesWithInternet(table)
    /\ missed' = {}
    /\ pc' = "init"
    /\ UNCHANGED <<table, import, schedules, lastFingerprint, current>>

(* The query fails: it is logged, and the daemon goes on without entries. *)
LoadFails ==
    /\ pc = "load"
    /\ missed' = table
    /\ pc' = "stamp"
    /\ UNCHANGED <<table, import, schedules, lastFingerprint, current, fresh>>

(* The history decides whether an entry is due at once or later. *)
InitializeSchedules ==
    /\ pc = "init"
    /\ \E due \in [NodesOf(fresh) -> BOOLEAN] :
          schedules' = [n \in NodesOf(fresh) |->
             [cfg |-> RowOf(fresh, n).cfg, due |-> due[n], tested |-> RowOf(fresh, n).cfg]]
    /\ fresh' = {}
    /\ pc' = "stamp"
    /\ UNCHANGED <<table, import, missed, lastFingerprint, current>>

(* The fingerprint is read after the nodes; an error leaves it empty. *)
Stamp ==
    /\ pc = "stamp"
    /\ lastFingerprint' \in {Fingerprint(table), NoFingerprint}
    /\ pc' = "idle"
    /\ UNCHANGED <<table, import, missed, schedules, current, fresh>>

(* checkAndRefreshNodelist reads the fingerprint and finds it changed.  An *)
(* error, or an unchanged fingerprint, ends the check: nothing happens.    *)
Check ==
    /\ pc = "idle"
    /\ Fingerprint(table) # lastFingerprint
    /\ current' = Fingerprint(table)
    /\ pc' = "query"
    /\ UNCHANGED <<table, import, missed, schedules, lastFingerprint, fresh>>

(* RefreshNodes asks for the nodes ... *)
Query ==
    /\ pc = "query"
    /\ fresh' = NodesWithInternet(table)
    /\ missed' = {}
    /\ pc' = "apply"
    /\ UNCHANGED <<table, import, schedules, lastFingerprint, current>>

(* ... or fails to: the fingerprint stays as it was, the next check retries. *)
QueryFails ==
    /\ pc = "query"
    /\ current' = NoFingerprint
    /\ pc' = "idle"
    /\ UNCHANGED <<table, import, missed, schedules, lastFingerprint, fresh>>

(* faulty variant: a second refresh forgets the retest the first one ordered *)
RefreshedAnew(n) ==
    LET row == RowOf(fresh, n)
    IN  IF n \in DOMAIN schedules
        THEN [cfg |-> row.cfg, tested |-> schedules[n].tested,
              due |-> ConfigChanged(schedules[n].cfg, row.cfg)]
        ELSE [cfg |-> row.cfg, tested |-> NoInet, due |-> TRUE]

(* RefreshNodes: a new node is due at once, a node whose configuration has *)
(* changed too.                                                            *)
Refreshed(n) ==
    LET row == RowOf(fresh, n)
    IN  IF n \in DOMAIN schedules
        THEN [cfg |-> row.cfg, tested |-> schedules[n].tested,
              due |-> schedules[n].due \/ ConfigChanged(schedules[n].cfg, row.cfg)]
        ELSE [cfg |-> row.cfg, tested |-> NoInet, due |-> TRUE]

(* faulty variant: the fingerprint is read again after the refresh *)
ApplyStampLate ==
    /\ pc = "apply"
    /\ schedules' = [n \in NodesOf(fresh) |-> Refreshed(n)]
    /\ lastFingerprint' = Fingerprint(table)
    /\ current' = NoFingerprint /\ fresh' = {}
    /\ pc' = "idle"
    /\ UNCHANGED <<table, import, missed>>

(* The entries become the listed nodes.  The fingerprint stored is the one *)
(* that was read before the nodes.                                         *)
Apply ==
    /\ pc = "apply"
    /\ schedules' = [n \in NodesOf(fresh) |-> Refreshed(n)]
    /\ lastFingerprint' = current
    /\ current' = NoFingerprint /\ fresh' = {}
    /\ pc' = "idle"
    /\ UNCHANGED <<table, import, missed>>

(* Time passes and an entry's next test is due. *)
BecomeDue(n) ==
    /\ pc = "idle"
    /\ n \in DOMAIN schedules /\ ~schedules[n].due
    /\ schedules' = [schedules EXCEPT ![n] = [cfg |-> @.cfg, due |-> TRUE, tested |-> @.tested]]
    /\ UNCHANGED <<table, import, missed, lastFingerprint, current, fresh, pc>>

(* A test of a due node.  A node without hostname is given its system name *)
(* as one, in the Node the schedule holds: the next refresh finds another  *)
(* configuration there than in the row, and has the node tested again.     *)
Test(n) ==
    /\ pc = "idle"
    /\ n \in DOMAIN schedules /\ schedules[n].due
    /\ schedules' = [schedules EXCEPT ![n] =
          [cfg |-> IF @.cfg \in HostlessConfig THEN SystemName ELSE @.cfg, due |-> FALSE,
           tested |-> IF @.cfg = SystemName THEN @.tested ELSE @.cfg]]
    /\ UNCHANGED <<table, import, missed, lastFingerprint, current, fresh, pc>>

ImportStep ==
    \E d \in Domain : \E t \in DatesOf[d] :
       StartImport(d, t) \/ InsertBatch(d, t) \/ InsertFails(d, t)
StartStep == LoadNodes \/ LoadFails \/ InitializeSchedules \/ Stamp
RefreshStep == Check \/ Query \/ QueryFails \/ Apply
ScheduleStep == \E n \in Node : BecomeDue(n) \/ Test(n)

Next == ImportStep \/ StartStep \/ RefreshStep \/ ScheduleStep

Spec == Init /\ [][Next]_vars

(* The Run goroutine goes on and its tickers fire for ever, and a query that *)
(* is made again and again is answered some time.                          *)
Fairness ==
    /\ WF_vars(StartStep)
    /\ WF_vars(Check) /\ SF_vars(Query) /\ WF_vars(Query \/ QueryFails) /\ WF_vars(Apply)

FairSpec == Spec /\ Fairness

(***************************************************************************)
(* Properties                                                              *)
(***************************************************************************)

(* A tested node without hostname is the same configuration as its row. *)
SameConfig(held, listed) == held = listed \/ (held = SystemName /\ listed \in HostlessConfig)

Mirrors(rows) ==
    /\ DOMAIN schedules = NodesOf(rows)
    /\ \A n \in DOMAIN schedules : SameConfig(schedules[n].cfg, RowOf(rows, n).cfg)

(* Between two checks the schedule is that of the newest nodelists, but for *)
(* the rows missed, or the fingerprint has changed, so that the next check  *)
(* refreshes it, whatever the order of the queries, the inserts and their   *)
(* failures (checkAndRefreshNodelist, "checks if any network's nodelist has *)
(* been updated and refreshes if needed").  What is missed waits for the    *)
(* next change of any network: the rest of an issue whose first batch a     *)
(* refresh has seen, what comes between the first query and the fingerprint *)
(* stored after it, and the whole table when that first query fails.        *)
OutdatedNoticed ==
    pc = "idle" =>
        Fingerprint(table) # lastFingerprint \/ Mirrors(NodesWithInternet(table \ missed))

(* A node whose configuration changes is tested with what the schedule now  *)
(* holds: an entry that is not due was last tested with that configuration, *)
(* whatever refreshes came between the change and the test (RefreshNodes,   *)
(* "schedule immediate retest").  The converse is not so: a node without    *)
(* hostname is retested after every refresh, because the tester has written *)
(* a hostname into the Node that the refresh compares.                      *)
ChangedIsRetested ==
    \A n \in DOMAIN schedules :
        schedules[n].due \/ SameConfig(schedules[n].cfg, schedules[n].tested)

(* A node that joins the newest issue of its network is scheduled in the end, *)
(* or a newer issue drops it again, also when its network's dates are older  *)
(* than another network's; unless its row is among those missed.            *)
Listed(n) == n \in NodesOf(NodesWithInternet(table \ missed))

NewNodeScheduled ==
    \A n \in Node : Listed(n) /\ pc = "idle" ~> (n \in DOMAIN schedules \/ ~Listed(n))
=============================================================================
