-------------------------- MODULE ListImport_proofs --------------------------
(***************************************************************************)
(* Theorems about the import for every set of files, every number of       *)
(* batches and chunks, and any number of failures.                         *)
(***************************************************************************)
EXTENDS ListImport, TLAPS

USE DEF File, Steps, Options, parser, vars

(* What the parser knows at each step. *)
ParserInv ==
    /\ pc \in Steps
    /\ pc # "idle" => file \in File /\ options \subseteq Options(file)
    /\ pc \in {"nodes", "batch", "stats", "series"} => file \in Nodelist
    /\ next \in Nat \ {0}
    /\ pc \notin {"batch", "insert", "register"} => next = 1
    /\ faults \in 0..MaxFaults

(* A parser that inserts nodes found none of their date, and the batches it   *)
(* has inserted are all that is there.                                        *)
NodesInv ==
    /\ nodes \in [Nodelist -> 0..Batches]
    /\ stats = [d \in Date |-> stats[d]]
    /\ OneFilePerDate
    /\ pc = "batch" =>
          /\ next \in 1..Batches /\ nodes[file] = next - 1
          /\ \A n \in Nodelist : DateOf[n] = DateOf[file] /\ n # file => nodes[n] = 0
          /\ stats[DateOf[file]] = None
    /\ pc = "stats" => nodes[file] = Batches

(* A parser that changes the rows of a key has seen to it that the gate row   *)
(* is gone, and once they are clean it knows which chunks are there.          *)
PointsInv ==
    /\ rows \in [Row -> Nat]
    /\ gate \in [Key -> File \cup {None}]
    /\ \A k \in Key : gate[k] # None => KeyOf[gate[k]] = k
    /\ GateMeansComplete
    /\ pc = "withdraw" /\ "reimport" \notin options => gate[key] = None
    /\ pc \in {"clean", "insert", "register"} => gate[key] = None
    /\ pc = "insert" =>
          /\ next \in 1..Points[file]
          /\ \A r \in Row : KeyOf[FileOf[r]] = key =>
                rows[r] = IF FileOf[r] = file /\ r[2] < next THEN 1 ELSE 0
    /\ pc = "register" => Whole(file)

ImportInv == ParserInv /\ NodesInv /\ PointsInv

(* A file's key, a key's form, and the file and number of a row. *)
LEMMA KeyFacts ==
    /\ \A f \in File : KeyOf[f] \in Key /\ KeyOf[f][2] = DateOf[f]
    /\ \A r \in Row : /\ FileOf[r] = r[1] /\ r[1] \in File
                     /\ r[2] \in 1..Points[r[1]] /\ r = <<r[1], r[2]>>
    /\ \A f \in File : \A i \in 1..Points[f] : <<f, i>> \in Row
BY ListImportAssumption DEF KeyOf, Key, FileOf, Row

LEMMA ImportInvInit == Init => ImportInv
<1> SUFFICES ASSUME Init PROVE ImportInv
  OBVIOUS
<1>1. ParserInv
  BY ListImportAssumption DEF Init, ParserInv
<1>2. NodesInv
  BY ListImportAssumption DEF Init, NodesInv, OneFilePerDate
<1>3. PointsInv
  BY ListImportAssumption DEF Init, PointsInv, GateMeansComplete
<1> QED
  BY <1>1, <1>2, <1>3 DEF ImportInv

LEMMA ParserStep == ImportInv /\ [Next]_vars => ParserInv'
<1> SUFFICES ASSUME ImportInv, [Next]_vars PROVE ParserInv'
  OBVIOUS
<1> USE ListImportAssumption DEF ImportInv, ParserInv, Goto
<1>1. ASSUME NEW f \in File, NEW o \in SUBSET Options(f), Start(f, o) PROVE ParserInv'
  BY <1>1 DEF Start
<1>2. CASE Abort
  BY <1>2 DEF Abort
<1>3. CASE CheckNodes
  BY <1>3 DEF CheckNodes
<1>4. CASE InsertBatch
  BY <1>4 DEF InsertBatch
<1>5. CASE UpdateFlagStatistics
  BY <1>5 DEF UpdateFlagStatistics
<1>6. CASE CheckSeries
  BY <1>6 DEF CheckSeries
<1>7. CASE CheckGate
  BY <1>7 DEF CheckGate
<1>8. CASE Withdraw
  BY <1>8 DEF Withdraw
<1>9. CASE Clean
  BY <1>9 DEF Clean
<1>10. CASE InsertChunk
  BY <1>10 DEF InsertChunk
<1>11. CASE RegisterPointlistFile
  BY <1>11 DEF RegisterPointlistFile
<1>12. CASE UNCHANGED vars
  BY <1>12
<1> QED
  BY <1>1, <1>2, <1>3, <1>4, <1>5, <1>6, <1>7, <1>8, <1>9, <1>10, <1>11, <1>12 DEF Next, Work

(* As long as neither the nodes nor the statistics change, nor the parser     *)
(* enters or works on them, nothing can go wrong with them.                   *)
LEMMA NodesRest ==
    NodesInv /\ UNCHANGED <<nodes, stats>> /\ pc' \notin {"batch", "stats"} => NodesInv'
<1> SUFFICES ASSUME NodesInv, UNCHANGED <<nodes, stats>>, pc' \notin {"batch", "stats"}
             PROVE NodesInv'
  OBVIOUS
<1>1. OneFilePerDate'
  <2>1. \A d \in Date : Counts(d)' = Counts(d)
    BY DEF Counts
  <2> QED
    BY <2>1 DEF NodesInv, OneFilePerDate
<1> QED
  BY <1>1 DEF NodesInv

LEMMA NodesStep == ImportInv /\ [Next]_vars => NodesInv'
<1> SUFFICES ASSUME ImportInv, [Next]_vars PROVE NodesInv'
  OBVIOUS
<1> USE DEF ImportInv, ParserInv
<1>1. ASSUME NEW f \in File, NEW o \in SUBSET Options(f), Start(f, o) PROVE NodesInv'
  BY <1>1, NodesRest DEF Start
<1>2. CASE Abort
  BY <1>2, NodesRest DEF Abort, Goto
<1>3. CASE CheckNodes
  <2>1. CASE IsNodelistProcessed(DateOf[file])
    BY <1>3, <2>1, NodesRest DEF CheckNodes, Goto
  <2>2. CASE ~IsNodelistProcessed(DateOf[file])
    <3>1. /\ pc' = "batch" /\ file' = file /\ next' = 1 /\ file \in Nodelist
          /\ UNCHANGED <<nodes, stats>>
      BY <1>3, <2>2 DEF CheckNodes, Goto
    <3>2. \A n \in Nodelist : DateOf[n] = DateOf[file] => nodes[n] = 0
      BY <2>2 DEF IsNodelistProcessed, NodesInv
    <3>3. stats[DateOf[file]] = None
      <4>1. DateOf[file] \in Date
        BY <3>1, ListImportAssumption
      <4>2. \A n \in DOMAIN Counts(DateOf[file]) : Counts(DateOf[file])[n] = 0
        BY <3>2 DEF Counts
      <4> QED
        BY <4>1, <4>2, ListImportAssumption DEF NodesInv, OneFilePerDate
    <3>4. OneFilePerDate'
      <4>1. \A d \in Date : Counts(d)' = Counts(d)
        BY <3>1 DEF Counts
      <4> QED
        BY <3>1, <4>1 DEF NodesInv, OneFilePerDate
    <3> QED
      BY <3>1, <3>2, <3>3, <3>4, ListImportAssumption DEF NodesInv
  <2> QED
    BY <2>1, <2>2
<1>4. CASE InsertBatch
  <2>1. /\ file \in Nodelist /\ DateOf[file] \in Date
        /\ nodes' = [nodes EXCEPT ![file] = next] /\ next \in 1..Batches
        /\ UNCHANGED <<stats, file>>
    <3>1. nodes[file] + 1 = next
      BY <1>4, ListImportAssumption DEF InsertBatch, NodesInv
    <3> QED
      BY <1>4, <3>1, ListImportAssumption DEF InsertBatch, NodesInv
  <2>2. nodes' \in [Nodelist -> 0..Batches]
    BY <2>1, ListImportAssumption DEF NodesInv
  <2>3. \A d \in Date : stats[d] # None => stats'[d] = stats[d] /\ Counts(d)' = Counts(d)
    BY <1>4, <2>1 DEF InsertBatch, NodesInv, Counts
  <2>4. OneFilePerDate'
    <3>1. \A n, m \in Nodelist :
             DateOf[n] = DateOf[m] /\ nodes'[n] > 0 /\ nodes'[m] > 0 => n = m
      BY <1>4, <2>1 DEF InsertBatch, NodesInv, OneFilePerDate
    <3> QED
      BY <2>1, <2>3, <3>1 DEF NodesInv, OneFilePerDate
  <2> QED
    BY <1>4, <2>1, <2>2, <2>4, ListImportAssumption DEF InsertBatch, NodesInv
<1>5. CASE UpdateFlagStatistics
  <2>1. pc' \notin {"batch", "stats"} /\ nodes' = nodes
    BY <1>5 DEF UpdateFlagStatistics, Goto
  <2>2. CASE stats' = stats
    BY <2>1, <2>2, NodesRest
  <2>3. CASE stats' = [stats EXCEPT ![DateOf[file]] = Counts(DateOf[file])]
    <3>1. file \in DOMAIN Counts(DateOf[file]) /\ Counts(DateOf[file])[file] = Batches
      BY <1>5 DEF UpdateFlagStatistics, NodesInv, Counts
    <3>2. \A d \in Date : stats'[d] # None =>
             stats'[d] = Counts(d) /\ \E n \in DOMAIN stats'[d] : stats'[d][n] = Batches
      BY <2>3, <3>1 DEF NodesInv, OneFilePerDate
    <3>3. OneFilePerDate'
      BY <2>1, <3>2 DEF NodesInv, OneFilePerDate, Counts
    <3> QED
      BY <2>1, <2>3, <3>3 DEF NodesInv
  <2> QED
    BY <1>5, <2>2, <2>3 DEF UpdateFlagStatistics
<1>6. CASE CheckSeries
  BY <1>6, NodesRest DEF CheckSeries, Goto
<1>7. CASE CheckGate
  BY <1>7, NodesRest DEF CheckGate, Goto
<1>8. CASE Withdraw
  BY <1>8, NodesRest DEF Withdraw, Goto
<1>9. CASE Clean
  BY <1>9, NodesRest DEF Clean, Goto
<1>10. CASE InsertChunk
  BY <1>10, NodesRest DEF InsertChunk
<1>11. CASE RegisterPointlistFile
  BY <1>11, NodesRest DEF RegisterPointlistFile, Goto
<1>12. CASE UNCHANGED vars
  <2>1. OneFilePerDate'
    <3>1. \A d \in Date : Counts(d)' = Counts(d)
      BY <1>12 DEF Counts
    <3> QED
      BY <1>12, <3>1 DEF NodesInv, OneFilePerDate
  <2> QED
    BY <1>12, <2>1 DEF NodesInv
<1> QED
  BY <1>1, <1>2, <1>3, <1>4, <1>5, <1>6, <1>7, <1>8, <1>9, <1>10, <1>11, <1>12 DEF Next, Work

(* Likewise for the points. *)
LEMMA PointsRest ==
    /\ PointsInv /\ UNCHANGED <<rows, gate>>
    /\ pc' \notin {"withdraw", "clean", "insert", "register"}
    => PointsInv'
BY DEF PointsInv, GateMeansComplete, Whole

LEMMA PointsStep == ImportInv /\ [Next]_vars => PointsInv'
<1> SUFFICES ASSUME ImportInv, [Next]_vars PROVE PointsInv'
  OBVIOUS
<1> USE ListImportAssumption, KeyFacts DEF ImportInv, ParserInv, key, IsPointlistImported
<1>1. ASSUME NEW f \in File, NEW o \in SUBSET Options(f), Start(f, o) PROVE PointsInv'
  BY <1>1, PointsRest DEF Start
<1>2. CASE Abort
  BY <1>2, PointsRest DEF Abort, Goto
<1>3. CASE CheckNodes
  BY <1>3, PointsRest DEF CheckNodes, Goto
<1>4. CASE InsertBatch
  BY <1>4, PointsRest DEF InsertBatch
<1>5. CASE UpdateFlagStatistics
  BY <1>5, PointsRest DEF UpdateFlagStatistics, Goto
<1>6. CASE CheckSeries
  BY <1>6, PointsRest DEF CheckSeries, Goto
<1>7. CASE CheckGate
  <2>1. PICK near \in NearestPointsCount :
           LET skip == (IsPointlistImported /\ "reimport" \notin options) \/ Truncated(near)
           IN  Goto(IF skip THEN "idle" ELSE "withdraw")
    BY <1>7 DEF CheckGate
  <2>2. CASE (IsPointlistImported /\ "reimport" \notin options) \/ Truncated(near)
    BY <1>7, <2>1, <2>2, PointsRest DEF CheckGate, Goto
  <2>3. CASE ~((IsPointlistImported /\ "reimport" \notin options) \/ Truncated(near))
    BY <1>7, <2>1, <2>3 DEF CheckGate, Goto, PointsInv, GateMeansComplete, Whole
  <2> QED
    BY <2>2, <2>3
<1>8. CASE Withdraw
  BY <1>8 DEF Withdraw, Goto, PointsInv, GateMeansComplete, Whole
<1>9. CASE Clean
  <2>1. /\ rows' = [r \in Row |-> IF KeyOf[FileOf[r]] = key THEN 0 ELSE rows[r]]
        /\ gate[key] = None /\ file \in File /\ next' = 1
        /\ UNCHANGED <<gate, file>>
    BY <1>9 DEF Clean, Goto, PointsInv
  <2>2. \A r \in Row : KeyOf[FileOf[r]] = key => rows'[r] = 0
    BY <2>1
  <2>3. GateMeansComplete'
    BY <2>1 DEF PointsInv, GateMeansComplete, Whole
  <2> QED
    BY <1>9, <2>1, <2>2, <2>3 DEF Clean, Goto, PointsInv, Whole
<1>10. CASE InsertChunk
  <2>1. /\ file \in File /\ next \in 1..Points[file] /\ <<file, next>> \in Row
        /\ rows' = [rows EXCEPT ![<<file, next>>] = 1]
        /\ gate[key] = None
        /\ UNCHANGED <<gate, file>>
    <3>1. /\ file \in File /\ next \in 1..Points[file] /\ gate[key] = None
          /\ rows' = [rows EXCEPT ![<<file, next>>] = @ + 1]
          /\ UNCHANGED <<gate, file>>
      BY <1>10 DEF InsertChunk, PointsInv
    <3>2. <<file, next>> \in Row /\ FileOf[<<file, next>>] = file
      BY <3>1
    <3>3. rows[<<file, next>>] = 0
      BY <1>10, <3>1, <3>2 DEF InsertChunk, PointsInv
    <3> QED
      BY <3>1, <3>2, <3>3
  <2>2. rows' \in [Row -> Nat]
    BY <2>1 DEF PointsInv
  <2>3. GateMeansComplete'
    BY <2>1 DEF PointsInv, GateMeansComplete, Whole
  <2>4. \A r \in Row : KeyOf[FileOf[r]] = key =>
           rows'[r] = IF FileOf[r] = file /\ r[2] < next + 1 THEN 1 ELSE 0
    <3> SUFFICES ASSUME NEW r \in Row, KeyOf[FileOf[r]] = key
                 PROVE rows'[r] = IF FileOf[r] = file /\ r[2] < next + 1 THEN 1 ELSE 0
      OBVIOUS
    <3>1. rows[r] = IF FileOf[r] = file /\ r[2] < next THEN 1 ELSE 0
      BY <1>10 DEF InsertChunk, PointsInv
    <3>2. FileOf[r] = r[1] /\ r = <<r[1], r[2]>> /\ r[2] \in Nat /\ next \in Nat
      BY <2>1
    <3>3. CASE r = <<file, next>>
      BY <2>1, <3>2, <3>3 DEF PointsInv
    <3>4. CASE r # <<file, next>>
      BY <2>1, <3>1, <3>2, <3>4 DEF PointsInv
    <3> QED
      BY <3>3, <3>4
  <2> QED
    BY <1>10, <2>1, <2>2, <2>3, <2>4 DEF InsertChunk, PointsInv, Whole
<1>11. CASE RegisterPointlistFile
  BY <1>11 DEF RegisterPointlistFile, Goto, PointsInv, GateMeansComplete, Whole
<1>12. CASE UNCHANGED vars
  BY <1>12 DEF PointsInv, GateMeansComplete, Whole
<1> QED
  BY <1>1, <1>2, <1>3, <1>4, <1>5, <1>6, <1>7, <1>8, <1>9, <1>10, <1>11, <1>12 DEF Next, Work

LEMMA ImportInvCorrect == Spec => []ImportInv
<1>1. ImportInv /\ [Next]_vars => ImportInv'
  BY ParserStep, NodesStep, PointsStep DEF ImportInv
<1> QED
  BY <1>1, ImportInvInit, PTL DEF Spec

(* Types: what a nodelist or the statistics count is bounded by the batches   *)
(* of a file, and a gate row is of its key.                                   *)
THEOREM TypeCorrect == Spec => []TypeOK
<1>1. ImportInv => TypeOK
  <2> SUFFICES ASSUME ImportInv PROVE TypeOK
    OBVIOUS
  <2>1. \A d \in Date : stats[d] # None => \A n \in DOMAIN stats[d] : stats[d][n] \in 0..Batches
    <3>1. \A d \in Date : \A n \in DOMAIN Counts(d) : Counts(d)[n] \in 0..Batches
      BY DEF ImportInv, NodesInv, Counts
    <3> QED
      BY <3>1 DEF ImportInv, NodesInv, OneFilePerDate
  <2> QED
    BY <2>1 DEF ImportInv, ParserInv, NodesInv, PointsInv, TypeOK
<1> QED
  BY <1>1, ImportInvCorrect, PTL

(* An issue that counts as imported is there as a whole and alone, after any  *)
(* crashes and failed calls (pointlist.go:186, point_operations.go:203).      *)
THEOREM GateCorrect == Spec => []GateMeansComplete
<1>1. ImportInv => GateMeansComplete
  BY DEF ImportInv, PointsInv
<1> QED
  BY <1>1, ImportInvCorrect, PTL

(* The nodes of a date come from one file, and statistics that are there were *)
(* computed from all of them (main.go:346, :381).                             *)
THEOREM OneFileCorrect == Spec => []OneFilePerDate
<1>1. ImportInv => OneFilePerDate
  BY DEF ImportInv, NodesInv
<1> QED
  BY <1>1, ImportInvCorrect, PTL

(* A change of what is shown under one key, key by key. *)
LEMMA Extensional ==
    ASSUME NEW k0 \in Key, NEW v,
           \A k \in Key : shownIssues'[k] = IF k = k0 THEN v ELSE shownIssues[k]
    PROVE  shownIssues' = [shownIssues EXCEPT ![k0] = v]
<1> DEFINE Changed == [shownIssues EXCEPT ![k0] = v]
<1>1. \A k \in Key : Changed[k] = shownIssues'[k]
  BY DEF shownIssues
<1>2. /\ shownIssues' = [k \in Key |-> shownIssues'[k]]
      /\ Changed = [k \in Key |-> Changed[k]]
  BY DEF shownIssues
<1> HIDE DEF Changed
<1>3. shownIssues' = Changed
  BY <1>1, <1>2, Zenon
<1> QED
  BY <1>3 DEF Changed

(* For a reader who looks at pointlist_files first, every step of the import  *)
(* publishes a whole issue, withdraws one, or changes nothing.                *)
THEOREM StoreCorrect == Spec => StoreImplemented
<1>1. Init => Store!Init
  BY DEF Init, Store!Init, shownIssues
<1>2. ImportInv /\ [Next]_vars => [Store!Next]_shownIssues
  <2> SUFFICES ASSUME ImportInv, [Next]_vars PROVE [Store!Next]_shownIssues
    OBVIOUS
  <2> USE ListImportAssumption, KeyFacts DEF ImportInv, ParserInv, PointsInv, key
  <2>1. ASSUME UNCHANGED <<gate, rows>> PROVE UNCHANGED shownIssues
    BY <2>1 DEF shownIssues
  <2>2. CASE Withdraw
    <3>1. CASE "reimport" \in options
      <4>0. key \in Key
        BY <2>2 DEF Withdraw
      <4>1. shownIssues' = [shownIssues EXCEPT ![key] = None]
        <5>1. gate' = [gate EXCEPT ![key] = None] /\ rows' = rows
          BY <2>2, <3>1 DEF Withdraw
        <5>2. \A k \in Key : shownIssues'[k] = IF k = key THEN None ELSE shownIssues[k]
          BY <5>1, <4>0 DEF shownIssues
        <5> QED
          BY <5>2, <4>0, Extensional
      <4> QED
        BY <4>1, <4>0 DEF Store!Next, Store!Withdraw
    <3>2. CASE "reimport" \notin options
      BY <2>1, <2>2, <3>2 DEF Withdraw
    <3> QED
      BY <3>1, <3>2
  <2>3. ASSUME gate[key] = None, gate' = gate,
               \A r \in Row : KeyOf[FileOf[r]] # key => rows'[r] = rows[r]
        PROVE UNCHANGED shownIssues
    <3>1. \A k \in Key : gate[k] # None =>
             [r \in {q \in Row : KeyOf[FileOf[q]] = k} |-> rows'[r]]
             = [r \in {q \in Row : KeyOf[FileOf[q]] = k} |-> rows[r]]
      BY <2>3
    <3> QED
      BY <2>3, <3>1 DEF shownIssues
  <2>4. CASE Clean
    BY <2>3, <2>4 DEF Clean
  <2>5. CASE InsertChunk
    <3>1. <<file, next>> \in Row /\ KeyOf[FileOf[<<file, next>>]] = key
      BY <2>5 DEF InsertChunk
    <3> QED
      BY <2>3, <2>5, <3>1 DEF InsertChunk
  <2>6. CASE RegisterPointlistFile
    <3>1. /\ file \in File /\ key \in Key /\ Whole(file)
          /\ gate' = [gate EXCEPT ![key] = file] /\ rows' = rows
      BY <2>6 DEF RegisterPointlistFile
    <3>2. [r \in {q \in Row : KeyOf[FileOf[q]] = key} |-> rows[r]] = Store!Issue(file)
      BY <3>1 DEF Whole, Store!Issue
    <3>3. shownIssues' = [shownIssues EXCEPT ![key] = Store!Issue(file)]
      <4>1. \A k \in Key : shownIssues'[k] =
               IF k = key THEN Store!Issue(file) ELSE shownIssues[k]
        BY <3>1, <3>2 DEF shownIssues
      <4> QED
        BY <3>1, <4>1, Extensional
    <3> QED
      BY <3>1, <3>3 DEF Store!Next, Store!Publish
  <2> QED
    BY <2>1, <2>2, <2>3, <2>4, <2>5, <2>6
       DEF Next, Work, Start, Abort, CheckNodes, InsertBatch, UpdateFlagStatistics,
           CheckSeries, CheckGate
<1> QED
  BY <1>1, <1>2, ImportInvCorrect, PTL DEF Spec, StoreImplemented, Store!Spec
=============================================================================
