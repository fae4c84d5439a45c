----------------------------- MODULE ListImport -----------------------------
(***************************************************************************)
(* The sequential parser: nodelists with their inline points, the backfill *)
(* of these points (-extract-points), and pointlists (-pointlist).  The    *)
(* nodes of a date count as imported as soon as one row is there; an issue *)
(* of a points series counts as imported when its row in pointlist_files   *)
(* is there, which is written last.  Each action is one call to the        *)
(* database.  A call may fail, with or without effect, and the process may *)
(* die between two calls; the next run starts from what is stored.         *)
(*                                                                         *)
(* There is one parser at a time: the sync script starts them one by one,  *)
(* and shares a lock with the script that imports pointlists in bulk.      *)
(* A run over several files is a sequence of runs over one.  The nodes go  *)
(* in as batches and the points as chunks; what they say does not matter.  *)
(***************************************************************************)
EXTENDS Integers, FiniteSets

CONSTANTS
    Nodelist, Pointlist,  \* files
    DateOf,               \* the date of a file
    Date,
    Batches,              \* batches of nodes in a nodelist
    Points,               \* chunks of points in a file; 0 if it has none
    MaxFaults,            \* bound: failed calls and crashes
    None

File == Nodelist \cup Pointlist

ASSUME ListImportAssumption ==
    /\ Nodelist \cap Pointlist = {}
    /\ Date \subseteq Nat
    /\ DateOf \in [File -> Date]
    /\ Batches \in Nat \ {0}
    /\ Points \in [File -> Nat]
    /\ MaxFaults \in Nat
    /\ None \notin File

VARIABLES
    nodes,    \* per nodelist, how many batches of it are stored
    stats,    \* per date, what flag_statistics was computed from
    rows,     \* the points table: how often each chunk is stored
    gate,     \* pointlist_files: per key, the file that counts as imported
    pc, file, options, next,   \* the parser: its step, file, flags and next batch or chunk
    faults

parser == <<pc, file, options, next>>
vars == <<nodes, stats, rows, gate, parser, faults>>

Key == {"nodelist", "pointlist"} \X Date
KeyOf == [f \in File |-> <<IF f \in Nodelist THEN "nodelist" ELSE "pointlist", DateOf[f]>>]

Row == {r \in File \X (UNION {1..Points[f] : f \in File}) : r[2] <= Points[r[1]]}
FileOf == [r \in Row |-> r[1]]

(* The flags that matter: a run over nodelists may extract points only, one *)
(* over pointlists may replace, insist, or tolerate a shrunken issue.       *)
Options(f) == IF f \in Nodelist THEN {"extract"} ELSE {"reimport", "force", "warn"}

(* The batches of a date that are stored. *)
Counts(d) == [n \in {m \in Nodelist : DateOf[m] = d} |-> nodes[n]]

Steps == {"idle", "nodes", "batch", "stats", "series", "gate", "withdraw",
          "clean", "insert", "register"}

(* The types; no batch of nodes is stored twice, a gate row is of its key, and *)
(* the parser's file is known while it works on one.                         *)
TypeOK ==
    /\ nodes \in [Nodelist -> 0..Batches]
    /\ \A d \in Date : stats[d] # None => \A n \in DOMAIN stats[d] : stats[d][n] \in 0..Batches
    /\ rows \in [Row -> Nat]
    /\ gate \in [Key -> File \cup {None}]
    /\ \A k \in Key : gate[k] # None => KeyOf[gate[k]] = k
    /\ pc \in Steps
    /\ pc # "idle" => file \in File /\ options \subseteq Options(file)
    /\ next \in Nat \ {0}
    /\ faults \in 0..MaxFaults

Init ==
    /\ nodes = [n \in Nodelist |-> 0]
    /\ stats = [d \in Date |-> None]
    /\ rows = [r \in Row |-> 0]
    /\ gate = [k \in Key |-> None]
    /\ pc = "idle" /\ file = None /\ options = {} /\ next = 1
    /\ faults = 0

(* The parser goes to a step; at the end of a file it forgets everything. *)
Goto(s) ==
    /\ pc' = s
    /\ IF s = "idle" THEN file' = None /\ options' = {} /\ next' = 1
                     ELSE UNCHANGED <<file, options, next>>

Start(f, o) ==
    /\ pc = "idle"
    /\ file' = f /\ options' = o /\ next' = 1
    /\ pc' = IF f \in Nodelist /\ "extract" \notin o THEN "nodes" ELSE "gate"
    /\ UNCHANGED <<nodes, stats, rows, gate, faults>>

(* A call fails, whether or not it took effect, or the process dies. *)
Abort ==
    /\ pc # "idle"
    /\ faults < MaxFaults /\ faults' = faults + 1
    /\ Goto("idle")
    /\ UNCHANGED <<nodes, stats, rows, gate>>

-----------------------------------------------------------------------------
(* The nodes of a nodelist. *)

(* faulty variant: a date counts when all batches of a file are stored *)
IsNodelistProcessedWhole(d) == \E n \in Nodelist : DateOf[n] = d /\ nodes[n] = Batches

IsNodelistProcessed(d) == \E n \in Nodelist : DateOf[n] = d /\ nodes[n] > 0

(* "ALREADY IMPORTED": neither nodes nor inline points are touched. *)
CheckNodes ==
    /\ pc = "nodes"
    /\ Goto(IF IsNodelistProcessed(DateOf[file]) THEN "idle" ELSE "batch")
    /\ UNCHANGED <<nodes, stats, rows, gate, faults>>

(* faulty variant: the statistics follow the first batch *)
InsertBatchOnce ==
    /\ pc = "batch"
    /\ nodes' = [nodes EXCEPT ![file] = @ + 1]
    /\ pc' = "stats" /\ next' = 1
    /\ UNCHANGED <<stats, rows, gate, file, options, faults>>

InsertBatch ==
    /\ pc = "batch"
    /\ nodes' = [nodes EXCEPT ![file] = @ + 1]
    /\ IF next = Batches THEN pc' = "stats" /\ next' = 1
                         ELSE pc' = "batch" /\ next' = next + 1
    /\ UNCHANGED <<stats, rows, gate, file, options, faults>>

(* Then the flag statistics of the date, whose failure is only a warning.  A  *)
(* file without points may still have to supersede an older issue.            *)
UpdateFlagStatistics ==
    /\ pc = "stats"
    /\ \/ /\ stats' = [stats EXCEPT ![DateOf[file]] = Counts(DateOf[file])]
          /\ UNCHANGED faults
       \/ /\ faults < MaxFaults /\ faults' = faults + 1
          /\ UNCHANGED stats
    /\ Goto(IF Points[file] = 0 THEN "series" ELSE "gate")
    /\ UNCHANGED <<nodes, rows, gate>>

-----------------------------------------------------------------------------
(* The points of a file. *)
key == KeyOf[file]

(* The imported issues of the file's series, other than that of its date. *)
Issues == {k \in Key : k[1] = key[1] /\ k[2] # key[2] /\ gate[k] # None}

Distance(a, b) == IF a > b THEN a - b ELSE b - a

(* NearestPointsCount: the size of a nearest issue (of two the database gives *)
(* either), or 0 without one.                                                 *)
NearestPointsCount ==
    IF Issues = {} THEN {0}
    ELSE {Points[gate[k]] : k \in {i \in Issues : \A j \in Issues :
                                      Distance(i[2], key[2]) <= Distance(j[2], key[2])}}

(* A nodelist without points registers an issue only if its series exists. *)
CheckSeries ==
    /\ pc = "series"
    /\ Goto(IF Issues = {} THEN "idle" ELSE "gate")
    /\ UNCHANGED <<nodes, stats, rows, gate, faults>>

(* faulty variant: any stored row counts *)
IsPointlistImportedRows == \E r \in Row : KeyOf[FileOf[r]] = key /\ rows[r] > 0

IsPointlistImported == gate[key] # None

(* The guard against truncated pointlists: no points, or less than half of    *)
(* the nearest issue.                                                         *)
Truncated(near) ==
    /\ file \in Pointlist /\ "force" \notin options
    /\ Points[file] = 0 \/ ("warn" \notin options /\ Points[file] * 2 < near)

(* An imported issue is skipped, unless it is to be replaced; a truncated one *)
(* is refused.                                                                *)
CheckGate ==
    /\ pc = "gate"
    /\ \E near \in NearestPointsCount :
          LET skip == (IsPointlistImported /\ "reimport" \notin options) \/ Truncated(near)
          IN  Goto(IF skip THEN "idle" ELSE "withdraw")
    /\ UNCHANGED <<nodes, stats, rows, gate, faults>>

(* faulty variant: the points are deleted before the gate row *)
WithdrawPointsFirst ==
    /\ pc = "withdraw"
    /\ rows' = [r \in Row |-> IF KeyOf[FileOf[r]] = key THEN 0 ELSE rows[r]]
    /\ Goto("clean")
    /\ UNCHANGED <<nodes, stats, gate, faults>>

(* DeletePointlistData: "the gate row goes FIRST", and then the points. *)
Withdraw ==
    /\ pc = "withdraw"
    /\ gate' = IF "reimport" \in options THEN [gate EXCEPT ![key] = None] ELSE gate
    /\ Goto("clean")
    /\ UNCHANGED <<nodes, stats, rows, faults>>

(* faulty variant: what a crash left is not deleted *)
CleanNothing ==
    /\ pc = "clean"
    /\ Goto(IF Points[file] = 0 THEN "register" ELSE "insert")
    /\ UNCHANGED <<nodes, stats, rows, gate, faults>>

Clean ==
    /\ pc = "clean"
    /\ rows' = [r \in Row |-> IF KeyOf[FileOf[r]] = key THEN 0 ELSE rows[r]]
    /\ Goto(IF Points[file] = 0 THEN "register" ELSE "insert")
    /\ UNCHANGED <<nodes, stats, gate, faults>>

(* InsertPoints, chunk by chunk. *)
InsertChunk ==
    /\ pc = "insert"
    /\ rows' = [rows EXCEPT ![<<file, next>>] = @ + 1]
    /\ next' = next + 1
    /\ pc' = IF next = Points[file] THEN "register" ELSE "insert"
    /\ UNCHANGED <<nodes, stats, gate, file, options, faults>>

(* "Register the gate row LAST: the file only counts as imported now". *)
RegisterPointlistFile ==
    /\ pc = "register"
    /\ gate' = [gate EXCEPT ![key] = file]
    /\ Goto("idle")
    /\ UNCHANGED <<nodes, stats, rows, faults>>

-----------------------------------------------------------------------------
Work ==
    \/ CheckNodes \/ InsertBatch \/ UpdateFlagStatistics \/ CheckSeries \/ CheckGate
    \/ Withdraw \/ Clean \/ InsertChunk \/ RegisterPointlistFile

Next == Work \/ Abort \/ \E f \in File : \E o \in SUBSET Options(f) : Start(f, o)

Spec == Init /\ [][Next]_vars

(* The sync script feeds every pointlist it finds to the parser, again and   *)
(* again and without flags; the parser works until it fails.                 *)
Fairness == WF_vars(Work) /\ \A f \in Pointlist : SF_vars(Start(f, {}))

FairSpec == Spec /\ Fairness

-----------------------------------------------------------------------------
(* An issue that counts as imported has every row of its file once, and no  *)
(* row of another file: whatever crashes, retries and replacements there    *)
(* were ("a crash mid-import never looks like a completed file").           *)
Whole(f) ==
    \A r \in Row : KeyOf[FileOf[r]] = KeyOf[f] => rows[r] = IF FileOf[r] = f THEN 1 ELSE 0

GateMeansComplete == \A k \in Key : gate[k] # None => Whole(gate[k])

(* For the readers, who look for an issue in pointlist_files first, issues   *)
(* appear and disappear as a whole.                                          *)
shownIssues ==
    [k \in Key |-> IF gate[k] = None THEN None
                   ELSE [r \in {q \in Row : KeyOf[FileOf[q]] = k} |-> rows[r]]]

Store == INSTANCE IssueStore WITH shown <- shownIssues
StoreImplemented == Store!Spec

(* The rows of a half-imported pointlist do not stay: some retry completes   *)
(* the issue.                                                                *)
Orphaned(d) ==
    /\ gate[<<"pointlist", d>>] = None
    /\ \E r \in Row : KeyOf[FileOf[r]] = <<"pointlist", d>> /\ rows[r] > 0

OrphansHealed == \A d \in Date : Orphaned(d) ~> gate[<<"pointlist", d>>] # None

(* "This prevents duplicate imports of the same nodelist date": the nodes of  *)
(* a date come from one file, and its flag statistics, once they are there,   *)
(* were computed from all of them and stay up to date.                        *)
OneFilePerDate ==
    /\ \A n, m \in Nodelist :
          DateOf[n] = DateOf[m] /\ nodes[n] > 0 /\ nodes[m] > 0 => n = m
    /\ \A d \in Date : stats[d] # None =>
          stats[d] = Counts(d) /\ \E n \in DOMAIN stats[d] : stats[d][n] = Batches

(* "ALREADY IMPORTED: Nodelist ... was previously processed": a nodelist that *)
(* is skipped is stored as a whole.                                          *)
SkippedIsStored ==
    [][ pc = "nodes" /\ pc' = "idle" /\ faults' = faults =>
          \E n \in Nodelist : DateOf[n] = DateOf[file] /\ nodes[n] = Batches ]_vars
=============================================================================
