-------------------------- MODULE TestCycle_proofs --------------------------
(***************************************************************************)
(* Theorems about TestCycle for every set of nodes and workers, batch size *)
(* and bound.  The inductive invariants are built up in three layers: the  *)
(* types, where each job is, and where each row is.                        *)
(***************************************************************************)
EXTENDS TestCycle, FiniteSetTheorems, TLAPS

(* A flush, or the storing of one row, keeps the accumulator and the database *)
(* well typed.                                                                *)
LEMMA FlushType ==
    ASSUME NEW P \in SUBSET Row, db \in SUBSET Row, Flush(P)
    PROVE  buffer' \in SUBSET Row /\ db' \in SUBSET Row
BY DEF Flush, FlushFails

(* A channel of nodes has a cardinality, one more or one less after a send or *)
(* a receive.                                                                 *)
LEMMA QueueCardinality ==
    ASSUME NEW Q \in SUBSET Node, NEW n \in Node
    PROVE  /\ IsFiniteSet(Q) /\ Cardinality(Q) \in Nat
           /\ Cardinality(Q \cup {n}) <= Cardinality(Q) + 1
           /\ Cardinality(Q \ {n}) <= Cardinality(Q)
<1>1. IsFiniteSet(Q)
  BY FS_Subset, TestCycleAssumption
<1>2. Cardinality(Q) \in Nat
  BY <1>1, FS_CardinalityType
<1>3. Cardinality(Q \cup {n}) = IF n \in Q THEN Cardinality(Q) ELSE Cardinality(Q) + 1
  BY <1>1, FS_AddElement
<1>4. Cardinality(Q \ {n}) = IF n \in Q THEN Cardinality(Q) - 1 ELSE Cardinality(Q)
  BY <1>1, FS_RemoveElement
<1> QED
  BY <1>1, <1>2, <1>3, <1>4

LEMMA QueueCapType == QueueCap \in Nat
BY FS_CardinalityType, TestCycleAssumption DEF QueueCap

LEMMA RowTypes ==
    ASSUME NEW n \in Node, NEW m \in Node, NEW i \in Nat, cycle \in Nat
    PROVE  ResultRow(n, m) \in Row /\ PartialRow(n, i) \in Row
BY DEF ResultRow, PartialRow, Row

LEMMA InitType == Init => TypeOK
<1> SUFFICES ASSUME Init PROVE TypeOK
  OBVIOUS
<1>1. Cardinality({}) = 0
  BY FS_EmptySet
<1>2. queue \in SUBSET Node /\ Cardinality(queue) <= QueueCap
  BY <1>1, QueueCapType DEF Init
<1>3. /\ pc \in [Worker -> WorkerState]
      /\ job \in [Worker -> Node \cup {None}]
      /\ hosts \in [Worker -> Nat]
      /\ mine \in [Worker -> SUBSET Row]
      /\ toDerive \in [Worker -> SUBSET Node]
      /\ sched \in [Node -> Row \cup {None}]
  BY DEF Init, WorkerState
<1>4. main \in MainState
  BY DEF Init, MainState
<1> QED
  BY <1>2, <1>3, <1>4 DEF Init, TypeOK

(* A busy worker's job is a node. *)
JobType == \A w \in Worker : pc[w] # "idle" => job[w] \in Node

LEMMA TypeStep == TypeOK /\ JobType /\ [Next]_vars => TypeOK' /\ JobType'
<1> SUFFICES ASSUME TypeOK, JobType, [Next]_vars PROVE TypeOK' /\ JobType'
  OBVIOUS
<1> USE QueueCapType DEF TypeOK, JobType, MainState, WorkerState
<1>1. CASE StartCycle
  BY <1>1 DEF StartCycle, workerVars, storeVars
<1>2. CASE NextBatch
  BY <1>2 DEF NextBatch, BatchOf, workerVars, storeVars
<1>3. CASE Submit
  <2>1. PICK n \in unsubmitted : queue' = queue \cup {n} /\ outstanding' = outstanding \cup {n}
                                 /\ unsubmitted' = unsubmitted \ {n}
    BY <1>3 DEF Submit
  <2>2. Cardinality(queue') <= QueueCap
    <3>1. Cardinality(queue) \in Nat /\ Cardinality(queue) < QueueCap
      BY <1>3, QueueCardinality DEF Submit
    <3>2. Cardinality(queue') \in Nat /\ Cardinality(queue') <= Cardinality(queue) + 1
      BY <2>1, QueueCardinality
    <3> QED
      BY <3>1, <3>2
  <2> QED
    BY <1>3, <2>1, <2>2 DEF Submit, workerVars, storeVars
<1>4. CASE BatchDone
  BY <1>4 DEF BatchDone, workerVars, storeVars
<1>5. CASE StoreBatch
  <2>1. buffer' \in SUBSET Row /\ db' \in SUBSET Row
    <3>1. CASE batchRows = {}
      BY <1>5, <3>1 DEF StoreBatch, storeVars
    <3>2. CASE batchRows # {}
      <4>1. Flush(buffer \cup batchRows) /\ buffer \cup batchRows \in SUBSET Row
        BY <1>5, <3>2 DEF StoreBatch
      <4> QED
        BY <4>1, FlushType
    <3> QED
      BY <3>1, <3>2
  <2>2. /\ batchRows' = {} /\ main' = "batch"
        /\ UNCHANGED <<ctx, cycle, restarts, selected, todo, unsubmitted,
                       outstanding, queue, workerVars, claimed, sched>>
    BY <1>5 DEF StoreBatch
  <2> QED
    BY <2>1, <2>2 DEF workerVars
<1>6. CASE EndCycle
  BY <1>6 DEF EndCycle, workerVars, storeVars
<1>7. CASE StopRun
  BY <1>7 DEF StopRun, workerVars, storeVars
<1>8. CASE Signal
  BY <1>8 DEF Signal, runVars, workerVars, storeVars
<1>9. CASE Restart
  <2>1. Cardinality({}) = 0
    BY FS_EmptySet
  <2>2. sched' \in [Node -> Row \cup {None}]
    BY <1>9 DEF Restart
  <2>3. queue' \in SUBSET Node /\ Cardinality(queue') <= QueueCap
    BY <1>9, <2>1 DEF Restart
  <2>4. /\ pc' \in [Worker -> WorkerState]
        /\ job' \in [Worker -> Node \cup {None}]
        /\ hosts' \in [Worker -> Nat]
        /\ mine' \in [Worker -> SUBSET Row]
        /\ toDerive' \in [Worker -> SUBSET Node]
        /\ JobType'
    BY <1>9 DEF Restart
  <2>0. ctx' \in BOOLEAN
    BY <1>9, Zenon DEF Restart
  <2>5. /\ main' \in MainState /\ restarts' \in Nat
        /\ selected' = {} /\ todo' = {} /\ unsubmitted' = {}
        /\ outstanding' = {} /\ batchRows' = {} /\ claimed' = {}
        /\ buffer' = {} /\ UNCHANGED <<cycle, db>>
    BY <1>9 DEF Restart
  <2>6. JobType'
    BY <2>4
  <2>7. /\ buffer' \in SUBSET Row /\ db' \in SUBSET Row /\ cycle' \in Nat
        /\ batchRows' \in SUBSET Row /\ claimed' \in SUBSET Node
        /\ outstanding' \in SUBSET Node /\ unsubmitted' \in SUBSET Node
        /\ selected' \in SUBSET Node /\ todo' \in SUBSET Node
    BY <2>5
  <2>8. TypeOK'
    BY <2>0, <2>2, <2>3, <2>4, <2>5, <2>7
  <2> QED
    BY <2>6, <2>8
<1>10. ASSUME NEW w \in Worker, WorkerStep(w)
       PROVE  TypeOK' /\ JobType'
  <2>1. CASE Take(w)
    <3>1. PICK n \in queue : queue' = queue \ {n} /\ job' = [job EXCEPT ![w] = n]
      BY <2>1 DEF Take
    <3>2. Cardinality(queue') <= QueueCap
      BY <3>1, QueueCardinality
    <3> QED
      BY <2>1, <3>1, <3>2 DEF Take, runVars, storeVars
  <2>2. CASE TestSingle(w)
    BY <2>2 DEF TestSingle, runVars, storeVars
  <2>3. CASE TestHostname(w)
    <3>1. PartialRow(job[w], hosts[w] + 1) \in Row
      BY <2>3, RowTypes DEF TestHostname
    <3>2. buffer' \in SUBSET Row /\ db' \in SUBSET Row
      BY <2>3, <3>1, FlushType DEF TestHostname, StoreTestResult
    <3> QED
      BY <2>3, <3>2 DEF TestHostname, runVars
  <2>4. CASE Pause(w)
    BY <2>4 DEF Pause, runVars, storeVars
  <2>5. CASE GiveUp(w)
    BY <2>5 DEF GiveUp, runVars, storeVars
  <2>6. CASE Update(w)
    <3>1. job[w] \in Node
      BY <2>6 DEF Update
    <3>2. ResultRow(job[w], job[w]) \in Row
      BY <3>1, RowTypes
    <3>3. Announces[job[w]] \in SUBSET Node
      BY <3>1, TestCycleAssumption
    <3> QED
      BY <2>6, <3>1, <3>2, <3>3 DEF Update, runVars, storeVars
  <2>7. CASE Derive(w)
    <3>1. PICK c \in toDerive[w] :
            /\ toDerive' = [toDerive EXCEPT ![w] = @ \ {c}]
            /\ IF c \in claimed
               THEN UNCHANGED <<claimed, mine, sched>>
               ELSE /\ claimed' = claimed \cup {c}
                    /\ mine' = [mine EXCEPT ![w] = @ \cup {ResultRow(c, job[w])}]
                    /\ sched' = [sched EXCEPT ![c] = ResultRow(c, job[w])]
      BY <2>7 DEF Derive
    <3>2. c \in Node /\ job[w] \in Node
      BY <2>7 DEF Derive
    <3>3. ResultRow(c, job[w]) \in Row
      BY <3>2, RowTypes
    <3> QED
      BY <2>7, <3>1, <3>2, <3>3 DEF Derive, runVars, storeVars
  <2>8. CASE Append(w)
    BY <2>8 DEF Append, runVars, storeVars
  <2>9. CASE Done(w)
    BY <2>9 DEF Done, runVars, storeVars
  <2> QED
    BY <1>10, <2>1, <2>2, <2>3, <2>4, <2>5, <2>6, <2>7, <2>8, <2>9 DEF WorkerStep
<1>11. CASE UNCHANGED vars
  BY <1>11 DEF vars, runVars, workerVars, storeVars
<1> QED
  BY <1>1, <1>2, <1>3, <1>4, <1>5, <1>6, <1>7, <1>8, <1>9, <1>10, <1>11
  DEF Next, RunStep

(* Every state has the declared types, and the channel never holds more jobs  *)
(* than NewWorkerPool made it for.                                            *)
THEOREM TypeCorrect == Spec => []TypeOK
<1>1. Init => TypeOK /\ JobType
  BY InitType DEF Init, JobType
<1> QED
  BY <1>1, TypeStep, PTL DEF Spec

-----------------------------------------------------------------------------
(* Where each job is: submitted jobs are outstanding until wg.Done, and each  *)
(* is in the channel or with one worker; a batch starts and ends with none.   *)
JobsInv ==
    /\ main # "submit" => outstanding = {} /\ unsubmitted = {}
    /\ unsubmitted \cap outstanding = {}
    /\ queue \subseteq outstanding
    /\ \A w \in Worker : pc[w] # "idle" => job[w] \in outstanding \ queue
    /\ \A v, w \in Worker :
         v # w /\ pc[v] # "idle" /\ pc[w] # "idle" => job[v] # job[w]
    /\ \A w \in Worker : pc[w] # "derive" => mine[w] = {}

LEMMA JobsStep == TypeOK /\ JobType /\ JobsInv /\ [Next]_vars => JobsInv'
<1> SUFFICES ASSUME TypeOK, JobType, JobsInv, [Next]_vars PROVE JobsInv'
  OBVIOUS
<1> USE DEF TypeOK, JobType, JobsInv
<1>1. CASE StartCycle
  BY <1>1 DEF StartCycle, workerVars
<1>2. CASE NextBatch
  BY <1>2 DEF NextBatch, workerVars
<1>3. CASE Submit
  <2>1. PICK n \in unsubmitted : /\ unsubmitted' = unsubmitted \ {n}
                                 /\ outstanding' = outstanding \cup {n}
                                 /\ queue' = queue \cup {n}
    BY <1>3 DEF Submit
  <2> QED
    BY <1>3, <2>1 DEF Submit, workerVars
<1>4. CASE BatchDone
  BY <1>4 DEF BatchDone, workerVars
<1>5. CASE StoreBatch
  BY <1>5 DEF StoreBatch, workerVars
<1>6. CASE EndCycle
  BY <1>6 DEF EndCycle, workerVars
<1>7. CASE StopRun
  BY <1>7 DEF StopRun, workerVars
<1>8. CASE Signal
  BY <1>8 DEF Signal, runVars, workerVars
<1>9. CASE Restart
  BY <1>9 DEF Restart
<1>10. ASSUME NEW w \in Worker, WorkerStep(w)
       PROVE  JobsInv'
  <2>1. CASE Take(w)
    <3>1. PICK n \in queue : queue' = queue \ {n} /\ job' = [job EXCEPT ![w] = n]
      BY <2>1 DEF Take
    <3> QED
      BY <2>1, <3>1 DEF Take, runVars
  <2>2. CASE TestSingle(w)
    BY <2>2 DEF TestSingle, runVars
  <2>3. CASE TestHostname(w)
    BY <2>3 DEF TestHostname, runVars
  <2>4. CASE Pause(w)
    BY <2>4 DEF Pause, runVars
  <2>5. CASE GiveUp(w)
    BY <2>5 DEF GiveUp, runVars
  <2>6. CASE Update(w)
    BY <2>6 DEF Update, runVars
  <2>7. CASE Derive(w)
    <3>1. \A v \in Worker : v # w => mine'[v] = mine[v]
      BY <2>7 DEF Derive
    <3> QED
      BY <2>7, <3>1 DEF Derive, runVars
  <2>8. CASE Append(w)
    BY <2>8 DEF Append, runVars
  <2>9. CASE Done(w)
    BY <2>9 DEF Done, runVars
  <2> QED
    BY <1>10, <2>1, <2>2, <2>3, <2>4, <2>5, <2>6, <2>7, <2>8, <2>9 DEF WorkerStep
<1>11. CASE UNCHANGED vars
  BY <1>11 DEF vars, runVars, workerVars
<1> QED
  BY <1>1, <1>2, <1>3, <1>4, <1>5, <1>6, <1>7, <1>8, <1>9, <1>10, <1>11
  DEF Next, RunStep

LEMMA BarrierHolds == TypeOK /\ JobsInv => BatchBarrier
BY DEF TypeOK, JobsInv, BatchBarrier

(* Batches do not overlap: rows are stored, and the pool is stopped, only     *)
(* while no job of the batch is queued or running.                            *)
THEOREM BarrierCorrect == Spec => []BatchBarrier
<1>1. Init => TypeOK /\ JobType /\ JobsInv
  BY InitType DEF Init, JobType, JobsInv
<1> QED
  BY <1>1, TypeStep, JobsStep, BarrierHolds, PTL DEF Spec

-----------------------------------------------------------------------------
(* Where each row is. *)
Rows == Held \cup db

Active == main \notin {"idle", "exited"}

(* No row is of a later cycle, the identities derived so far in an active     *)
(* cycle are claimed, and what the schedule counts exists.                    *)
RowsInv ==
    /\ \A r \in Rows : r.cycle <= cycle
    /\ Active => \A r \in Rows : r.cycle = cycle /\ r.by # r.node => r.node \in claimed
    /\ OneDerivedPerCycle
    /\ ScheduleAccounted

(* A step that moves rows about without producing one. *)
LEMMA RowsMoved ==
    ASSUME RowsInv, Rows' = Rows, sched' = sched, cycle' = cycle,
           claimed' = claimed, Active' => Active
    PROVE  RowsInv'
BY DEF RowsInv, Rows, OneDerivedPerCycle, ScheduleAccounted

(* A step of an active cycle that produces one row: of the node's own test, or *)
(* derived for an identity that it claims.                                    *)
LEMMA RowProduced ==
    ASSUME TypeOK, RowsInv, Active, NEW r \in Row, r.cycle = cycle,
           Rows' = Rows \cup {r}, cycle' = cycle,
           claimed \subseteq claimed',
           r.by # r.node => r.node \in claimed' \ claimed,
           \A n \in Node : sched'[n] \in {sched[n], r}
    PROVE  RowsInv'
<1>1. \A s \in Rows' : s.cycle <= cycle'
  BY DEF RowsInv, TypeOK
<1>2. \A s \in Rows' : s.cycle = cycle' /\ s.by # s.node => s.node \in claimed'
  BY DEF RowsInv
<1>3. OneDerivedPerCycle'
  <2> SUFFICES ASSUME NEW s \in Rows', NEW t \in Rows',
                      s.node = t.node, s.cycle = t.cycle, s.by # s.node, t.by # t.node
               PROVE  s = t
    BY DEF OneDerivedPerCycle, Rows
  <2>1. CASE s \in Rows /\ t \in Rows
    BY <2>1 DEF RowsInv, OneDerivedPerCycle, Rows
  <2>2. CASE s = r \/ t = r
    BY <2>2 DEF RowsInv
  <2> QED
    BY <2>1, <2>2
<1>4. ScheduleAccounted'
  BY DEF RowsInv, ScheduleAccounted, Rows
<1> QED
  BY <1>1, <1>2, <1>3, <1>4 DEF RowsInv

(* A flush neither makes a row nor loses one. *)
LEMMA FlushKeeps ==
    ASSUME NEW P, Flush(P)
    PROVE  buffer' \cup db' = P \cup db
BY DEF Flush, FlushFails

(* One worker's rows grow by S, the other workers' stay. *)
LEMMA UnionGrows ==
    ASSUME NEW f, NEW g, NEW w \in Worker, NEW R, g[w] = f[w] \cup R,
           \A v \in Worker : v # w => g[v] = f[v]
    PROVE  UNION {g[v] : v \in Worker} = (UNION {f[v] : v \in Worker}) \cup R
<1>1. ASSUME NEW x, NEW v \in Worker, x \in g[v]
      PROVE  x \in (UNION {f[u] : u \in Worker}) \cup R
  <2>1. CASE v = w
    BY <1>1, <2>1
  <2>2. CASE v # w
    BY <1>1, <2>2
  <2> QED
    BY <2>1, <2>2
<1>2. ASSUME NEW x, NEW v \in Worker, x \in f[v]
      PROVE  x \in UNION {g[u] : u \in Worker}
  <2>1. x \in g[v]
    BY <1>2
  <2> QED
    BY <2>1
<1>3. ASSUME NEW x \in R
      PROVE  x \in UNION {g[u] : u \in Worker}
  BY <1>3
<1> QED
  BY <1>1, <1>2, <1>3

LEMMA RowsStep == TypeOK /\ JobType /\ JobsInv /\ RowsInv /\ [Next]_vars => RowsInv'
<1> SUFFICES ASSUME TypeOK, JobType, JobsInv, RowsInv, [Next]_vars PROVE RowsInv'
  OBVIOUS
<1>1. CASE StartCycle
  <2>1. Rows' = Rows /\ sched' = sched /\ cycle' = cycle + 1 /\ cycle \in Nat
    BY <1>1 DEF StartCycle, Rows, Held, workerVars, storeVars, TypeOK
  <2>2. \A r \in Rows : r \in Row
    BY DEF TypeOK, Rows, Held
  <2>3. \A r \in Rows : r.cycle \in Nat /\ r.cycle < cycle + 1
    BY <2>1, <2>2 DEF RowsInv, Row
  <2> QED
    BY <2>1, <2>3 DEF RowsInv, OneDerivedPerCycle, ScheduleAccounted, Rows
<1>2. CASE NextBatch
  BY <1>2, RowsMoved DEF NextBatch, Rows, Held, Active, workerVars, storeVars
<1>3. CASE Submit
  BY <1>3, RowsMoved DEF Submit, Rows, Held, Active, workerVars, storeVars
<1>4. CASE BatchDone
  BY <1>4, RowsMoved DEF BatchDone, Rows, Held, Active, workerVars, storeVars
<1>5. CASE StoreBatch
  <2>1. buffer' \cup db' = buffer \cup batchRows \cup db
    BY <1>5, FlushKeeps DEF StoreBatch, storeVars
  <2>2. Rows' = Rows
    BY <1>5, <2>1 DEF StoreBatch, Rows, Held, workerVars
  <2> QED
    BY <1>5, <2>2, RowsMoved DEF StoreBatch, Active
<1>6. CASE EndCycle
  BY <1>6, RowsMoved DEF EndCycle, Rows, Held, Active, workerVars, storeVars
<1>7. CASE StopRun
  BY <1>7, RowsMoved DEF StopRun, Rows, Held, Active, workerVars, storeVars
<1>8. CASE Signal
  BY <1>8, RowsMoved DEF Signal, Rows, Held, Active, runVars, workerVars, storeVars
<1>9. CASE Restart
  <2>1. Rows' = db /\ main' = "idle" /\ cycle' = cycle
    BY <1>9 DEF Restart, Rows, Held
  <2>2. db \subseteq Rows
    BY DEF Rows
  <2>3. \A n \in Node : sched'[n] \in db \cup {None}
    BY <1>9 DEF Restart
  <2>4. OneDerivedPerCycle' /\ ScheduleAccounted'
    BY <2>1, <2>2, <2>3 DEF RowsInv, OneDerivedPerCycle, ScheduleAccounted, Rows
  <2> QED
    BY <2>1, <2>2, <2>4 DEF RowsInv, Active
<1>10. ASSUME NEW w \in Worker, WorkerStep(w)
       PROVE  RowsInv'
  <2>0. pc[w] # "idle" => Active /\ job[w] \in Node
    BY DEF JobsInv, JobType, Active
  <2>1. CASE Take(w)
    BY <2>1, RowsMoved DEF Take, Rows, Held, Active, runVars, storeVars
  <2>2. CASE TestSingle(w)
    BY <2>2, RowsMoved DEF TestSingle, Rows, Held, Active, runVars, storeVars
  <2>3. CASE TestHostname(w)
    <3> DEFINE r == PartialRow(job[w], hosts[w] + 1)
    <3>1. Active /\ r \in Row /\ r.cycle = cycle /\ r.by = r.node
      BY <2>0, <2>3, RowTypes DEF TestHostname, TypeOK, PartialRow
    <3>2. buffer' \cup db' = buffer \cup {r} \cup db
      BY <2>3, FlushKeeps DEF TestHostname, StoreTestResult
    <3>3. Rows' = Rows \cup {r}
      BY <2>3, <3>2 DEF TestHostname, Rows, Held
    <3>4. UNCHANGED <<cycle, claimed, sched>>
      BY <2>3 DEF TestHostname, runVars
    <3> HIDE DEF r
    <3> QED
      BY <3>1, <3>3, <3>4, RowProduced
  <2>4. CASE Pause(w)
    BY <2>4, RowsMoved DEF Pause, Rows, Held, Active, runVars, storeVars
  <2>5. CASE GiveUp(w)
    BY <2>5, RowsMoved DEF GiveUp, Rows, Held, Active, runVars, storeVars
  <2>6. CASE Update(w)
    <3> DEFINE r == ResultRow(job[w], job[w])
    <3>1. Active /\ r \in Row /\ r.cycle = cycle /\ r.by = r.node
      BY <2>0, <2>6, RowTypes DEF Update, TypeOK, ResultRow
    <3>2. mine[w] = {} /\ mine' = [mine EXCEPT ![w] = {r}] /\ mine \in [Worker -> SUBSET Row]
      BY <2>6 DEF Update, JobsInv, TypeOK
    <3>3. UNION {mine'[v] : v \in Worker} = (UNION {mine[v] : v \in Worker}) \cup {r}
      <4>1. mine'[w] = mine[w] \cup {r} /\ \A v \in Worker : v # w => mine'[v] = mine[v]
        BY <3>2
      <4> HIDE DEF r
      <4> QED
        BY <4>1, UnionGrows
    <3>4. UNCHANGED <<cycle, claimed, batchRows, buffer, db>>
      BY <2>6 DEF Update, runVars, storeVars
    <3>5. Rows' = Rows \cup {r}
      BY <3>3, <3>4 DEF Rows, Held
    <3>6. \A n \in Node : sched'[n] \in {sched[n], r}
      BY <2>6 DEF Update, TypeOK
    <3> HIDE DEF r
    <3> QED
      BY <3>1, <3>4, <3>5, <3>6, RowProduced
  <2>7. CASE Derive(w)
    <3>1. PICK c \in toDerive[w] :
            IF c \in claimed
            THEN UNCHANGED <<claimed, mine, sched>>
            ELSE /\ claimed' = claimed \cup {c}
                 /\ mine' = [mine EXCEPT ![w] = @ \cup {ResultRow(c, job[w])}]
                 /\ sched' = [sched EXCEPT ![c] = ResultRow(c, job[w])]
      BY <2>7 DEF Derive
    <3>2. UNCHANGED <<main, cycle, batchRows, buffer, db>>
      BY <2>7 DEF Derive, runVars, storeVars
    <3>3. CASE c \in claimed
      BY <3>1, <3>2, <3>3, RowsMoved DEF Rows, Held, Active
    <3>4. CASE c \notin claimed
      <4> DEFINE r == ResultRow(c, job[w])
      <4>1. c \in Node /\ job[w] \in Node /\ Active
        BY <2>0, <2>7 DEF Derive, TypeOK
      <4>2. /\ r \in Row /\ r.cycle = cycle /\ r.node = c
            /\ claimed' = claimed \cup {c}
        BY <3>1, <3>4, <4>1, RowTypes DEF TypeOK, ResultRow
      <4>3. mine' = [mine EXCEPT ![w] = @ \cup {r}] /\ mine \in [Worker -> SUBSET Row]
        BY <3>1, <3>4 DEF TypeOK
      <4>4. UNION {mine'[v] : v \in Worker} = (UNION {mine[v] : v \in Worker}) \cup {r}
        <5>1. mine'[w] = mine[w] \cup {r} /\ \A v \in Worker : v # w => mine'[v] = mine[v]
          BY <4>3
        <5> HIDE DEF r
        <5> QED
          BY <5>1, UnionGrows
      <4>5. Rows' = Rows \cup {r}
        BY <3>2, <4>4 DEF Rows, Held
      <4>6. \A n \in Node : sched'[n] \in {sched[n], r}
        BY <3>1, <3>4 DEF TypeOK
      <4> HIDE DEF r
      <4> QED
        BY <3>2, <3>4, <4>1, <4>2, <4>5, <4>6, RowProduced
    <3> QED
      BY <3>3, <3>4
  <2>8. CASE Append(w)
    <3>1. UNION {mine[v] : v \in Worker} = (UNION {mine'[v] : v \in Worker}) \cup mine[w]
      <4>1. mine'[w] = {} /\ \A v \in Worker : v # w => mine'[v] = mine[v]
        BY <2>8 DEF Append, TypeOK
      <4>2. mine[w] = mine'[w] \cup mine[w]
        BY <4>1
      <4> QED
        BY <4>1, <4>2, UnionGrows
    <3>2. Rows' = Rows
      BY <2>8, <3>1 DEF Append, Rows, Held, storeVars
    <3> QED
      BY <2>8, <3>2, RowsMoved DEF Append, Active, runVars
  <2>9. CASE Done(w)
    BY <2>9, RowsMoved DEF Done, Rows, Held, Active, runVars, storeVars
  <2> QED
    BY <1>10, <2>1, <2>2, <2>3, <2>4, <2>5, <2>6, <2>7, <2>8, <2>9 DEF WorkerStep
<1>11. CASE UNCHANGED vars
  BY <1>11, RowsMoved DEF vars, Rows, Held, Active, runVars, workerVars, storeVars
<1> QED
  BY <1>1, <1>2, <1>3, <1>4, <1>5, <1>6, <1>7, <1>8, <1>9, <1>10, <1>11
  DEF Next, RunStep

RowsIInv == TypeOK /\ JobType /\ JobsInv /\ RowsInv

LEMMA RowsIInvInductive == Spec => []RowsIInv
<1>1. Init => RowsIInv
  <2> SUFFICES ASSUME Init PROVE RowsIInv
    OBVIOUS
  <2>1. Rows = {}
    BY DEF Init, Rows, Held
  <2>2. RowsInv
    BY <2>1 DEF Init, RowsInv, OneDerivedPerCycle, ScheduleAccounted, Rows
  <2> QED
    BY <2>2, InitType DEF Init, JobType, JobsInv, RowsIInv
<1>2. RowsIInv /\ [Next]_vars => RowsIInv'
  BY TypeStep, JobsStep, RowsStep DEF RowsIInv
<1> QED
  BY <1>1, <1>2, PTL DEF Spec

(* An identity gets at most one derived row in a cycle, whatever workers test *)
(* entries of its host at the same time and however often flushes fail or the *)
(* process restarts.                                                          *)
THEOREM OneDerivedCorrect == Spec => []OneDerivedPerCycle
<1>1. RowsIInv => OneDerivedPerCycle
  BY DEF RowsIInv, RowsInv
<1> QED
  BY <1>1, RowsIInvInductive, PTL

(* No schedule entry rests on a row that has been lost while the process runs.*)
THEOREM ScheduleAccountedCorrect == Spec => []ScheduleAccounted
<1>1. RowsIInv => ScheduleAccounted
  BY DEF RowsIInv, RowsInv
<1> QED
  BY <1>1, RowsIInvInductive, PTL

-----------------------------------------------------------------------------
(* Why every row that is produced is new: in an active cycle the rows of the  *)
(* cycle come from nodes that are no longer waiting, and a node under test    *)
(* has only the partial rows of the hostnames tested so far.                  *)
FreshInv ==
    /\ Active => todo \cap (unsubmitted \cup outstanding) = {}
    /\ Active => \A r \in Rows : r.cycle = cycle =>
         /\ r.by \notin todo \cup unsubmitted \cup queue
         /\ \A w \in Worker :
              pc[w] \in {"test", "pause", "update"} /\ r.by = job[w] =>
                r.node = r.by /\ r.host # 0 /\ r.host <= hosts[w]
    /\ \A w \in Worker : pc[w] = "derive" => job[w] \notin toDerive[w]

IInv == RowsIInv /\ FreshInv

LEMMA FreshStep == IInv /\ [Next]_vars => FreshInv'
<1> SUFFICES ASSUME IInv, [Next]_vars PROVE FreshInv'
  OBVIOUS
<1> USE DEF IInv, RowsIInv, TypeOK, JobType, JobsInv, FreshInv, Active
<1>0. \A r \in Rows : r \in Row
  BY DEF Rows, Held
<1>1. CASE StartCycle
  <2>1. Rows' = Rows /\ cycle' = cycle + 1 /\ UNCHANGED <<pc, job, toDerive, unsubmitted, outstanding>>
    BY <1>1 DEF StartCycle, Rows, Held, workerVars, storeVars
  <2>2. \A r \in Rows : r.cycle # cycle + 1
    BY <1>0 DEF RowsInv, Row
  <2> QED
    BY <1>1, <2>1, <2>2 DEF StartCycle
<1>2. CASE NextBatch
  <2>1. Rows' = Rows /\ UNCHANGED <<cycle, pc, job, hosts, toDerive, queue, outstanding>>
    BY <1>2 DEF NextBatch, Rows, Held, workerVars, storeVars
  <2>2. PICK B \in SUBSET todo : unsubmitted' = B /\ todo' = todo \ B
    BY <1>2 DEF NextBatch, BatchOf
  <2> QED
    BY <1>2, <2>1, <2>2 DEF NextBatch
<1>3. CASE Submit
  <2>1. Rows' = Rows /\ UNCHANGED <<main, cycle, pc, job, hosts, toDerive, todo>>
    BY <1>3 DEF Submit, Rows, Held, workerVars, storeVars
  <2>2. PICK n \in unsubmitted : /\ unsubmitted' = unsubmitted \ {n}
                                 /\ outstanding' = outstanding \cup {n}
                                 /\ queue' = queue \cup {n}
    BY <1>3 DEF Submit
  <2> QED
    BY <2>1, <2>2
<1>4. CASE BatchDone
  BY <1>4 DEF BatchDone, Rows, Held, workerVars, storeVars
<1>5. CASE StoreBatch
  <2>1. buffer' \cup db' = buffer \cup batchRows \cup db
    BY <1>5, FlushKeeps DEF StoreBatch, storeVars
  <2>2. Rows' = Rows
    BY <1>5, <2>1 DEF StoreBatch, Rows, Held, workerVars
  <2> QED
    BY <1>5, <2>2 DEF StoreBatch, workerVars
<1>6. CASE EndCycle
  BY <1>6 DEF EndCycle, workerVars
<1>7. CASE StopRun
  BY <1>7 DEF StopRun, workerVars
<1>8. CASE Signal
  BY <1>8 DEF Signal, Rows, Held, runVars, workerVars, storeVars
<1>9. CASE Restart
  BY <1>9 DEF Restart
<1>10. ASSUME NEW w \in Worker, WorkerStep(w)
       PROVE  FreshInv'
  <2>0. pc[w] # "idle" => /\ Active /\ job[w] \in Node
                          /\ job[w] \notin todo \cup unsubmitted \cup queue
    OBVIOUS
  <2>1. CASE Take(w)
    <3>1. PICK n \in queue : queue' = queue \ {n} /\ job' = [job EXCEPT ![w] = n]
      BY <2>1 DEF Take
    <3>2. Rows' = Rows
      BY <2>1 DEF Take, Rows, Held, storeVars
    <3> QED
      BY <2>1, <3>1, <3>2 DEF Take, runVars
  <2>2. CASE TestSingle(w)
    BY <2>2 DEF TestSingle, Rows, Held, runVars, storeVars
  <2>3. CASE TestHostname(w)
    <3> DEFINE r == PartialRow(job[w], hosts[w] + 1)
    <3>1. r.by = job[w] /\ r.node = job[w] /\ r.host = hosts[w] + 1
      BY DEF PartialRow
    <3>2. buffer' \cup db' = buffer \cup {r} \cup db
      BY <2>3, FlushKeeps DEF TestHostname, StoreTestResult
    <3>3. Rows' = Rows \cup {r}
      BY <2>3, <3>2 DEF TestHostname, Rows, Held
    <3>4. /\ UNCHANGED <<main, cycle, todo, unsubmitted, outstanding, queue, job, toDerive>>
          /\ pc' = [pc EXCEPT ![w] = "pause"]
          /\ hosts' = [hosts EXCEPT ![w] = @ + 1]
          /\ pc[w] = "test"
      BY <2>3 DEF TestHostname, runVars
    <3>5. \A s \in Rows : s.host \in Nat
      BY <1>0 DEF Row
    <3> HIDE DEF r
    <3>6. \A s \in Rows' : s.cycle = cycle' =>
            s.by \notin todo' \cup unsubmitted' \cup queue'
      BY <2>0, <3>1, <3>3, <3>4
    <3>7. ASSUME NEW s \in Rows', s.cycle = cycle', NEW v \in Worker,
                 pc'[v] \in {"test", "pause", "update"}, s.by = job'[v]
          PROVE  s.node = s.by /\ s.host # 0 /\ s.host <= hosts'[v]
      <4>1. CASE v = w /\ s = r
        BY <3>1, <3>4, <4>1
      <4>2. CASE v = w /\ s \in Rows
        BY <2>0, <3>4, <3>5, <3>7, <4>2
      <4>3. CASE v # w
        <5>1. s \in Rows
          BY <3>1, <3>3, <3>4, <3>7, <4>3
        <5> QED
          BY <2>0, <3>4, <3>7, <4>3, <5>1
      <4> QED
        BY <3>3, <3>7, <4>1, <4>2, <4>3
    <3> QED
      BY <2>0, <3>4, <3>6, <3>7
  <2>4. CASE Pause(w)
    BY <2>4 DEF Pause, Rows, Held, runVars, storeVars
  <2>5. CASE GiveUp(w)
    BY <2>5 DEF GiveUp, Rows, Held, runVars, storeVars
  <2>6. CASE Update(w)
    <3> DEFINE r == ResultRow(job[w], job[w])
    <3>1. r.by = job[w]
      BY DEF ResultRow
    <3>2. Rows' \subseteq Rows \cup {r}
      BY <2>6 DEF Update, Rows, Held, storeVars
    <3>3. /\ UNCHANGED <<main, cycle, todo, unsubmitted, outstanding, queue, job, hosts>>
          /\ pc' = [pc EXCEPT ![w] = "derive"] /\ pc[w] = "update"
      BY <2>6 DEF Update, runVars
    <3>4. job[w] \notin toDerive'[w] /\ \A v \in Worker : v # w => toDerive'[v] = toDerive[v]
      BY <2>0, <2>6, TestCycleAssumption DEF Update
    <3> HIDE DEF r
    <3> QED
      BY <2>0, <3>1, <3>2, <3>3, <3>4
  <2>7. CASE Derive(w)
    <3>1. \A s \in Rows' : s \in Rows \/ s.by = job[w]
      BY <2>7 DEF Derive, Rows, Held, ResultRow, storeVars
    <3>2. /\ UNCHANGED <<main, cycle, todo, unsubmitted, outstanding, queue, job, hosts, pc>>
          /\ pc[w] = "derive"
          /\ \A v \in Worker : toDerive'[v] \subseteq toDerive[v]
      BY <2>7 DEF Derive, runVars
    <3> QED
      BY <2>0, <3>1, <3>2
  <2>8. CASE Append(w)
    <3>1. Rows' \subseteq Rows
      BY <2>8 DEF Append, Rows, Held, storeVars
    <3>2. /\ UNCHANGED <<main, cycle, todo, unsubmitted, outstanding, queue, job, hosts, toDerive>>
          /\ pc' = [pc EXCEPT ![w] = "done"]
      BY <2>8 DEF Append, runVars
    <3> QED
      BY <3>1, <3>2
  <2>9. CASE Done(w)
    BY <2>9 DEF Done, Rows, Held, runVars, storeVars
  <2> QED
    BY <1>10, <2>1, <2>2, <2>3, <2>4, <2>5, <2>6, <2>7, <2>8, <2>9 DEF WorkerStep
<1>11. CASE UNCHANGED vars
  BY <1>11 DEF vars, Rows, Held, runVars, workerVars, storeVars
<1> QED
  BY <1>1, <1>2, <1>3, <1>4, <1>5, <1>6, <1>7, <1>8, <1>9, <1>10, <1>11
  DEF Next, RunStep

LEMMA IInvInductive == Spec => []IInv
<1>1. Init => FreshInv
  BY DEF Init, FreshInv, Active
<1>2. IInv /\ [Next]_vars => FreshInv'
  BY FreshStep
<1> QED
  BY <1>1, <1>2, RowsIInvInductive, PTL DEF Spec, IInv

-----------------------------------------------------------------------------
(* The steps of the daemon as steps of the result log. *)

(* A step that produces nothing and drops nothing is a step of the log. *)
LEMMA LogStep ==
    ASSUME TypeOK', Held \subseteq Held' \cup db', db \subseteq db',
           (Held' \ Held) \cap db = {}, restarts' = restarts
    PROVE  Log!Advance
<1>1. Held' \in SUBSET Row
  BY DEF TypeOK, Held
<1> QED
  BY <1>1 DEF Log!Advance, TypeOK

LEMMA Refines == IInv /\ TypeOK' /\ [Next]_vars => [Log!Next]_(Log!vars)
<1> SUFFICES ASSUME IInv, TypeOK', [Next]_vars PROVE [Log!Next]_(Log!vars)
  OBVIOUS
<1>0. ASSUME UNCHANGED <<restarts, batchRows, mine, buffer, db>>
      PROVE  UNCHANGED Log!vars
  BY <1>0 DEF Log!vars, Held
<1>1. CASE StartCycle \/ NextBatch \/ Submit \/ BatchDone \/ EndCycle \/ StopRun \/ Signal
  BY <1>0, <1>1 DEF StartCycle, NextBatch, Submit, BatchDone, EndCycle, StopRun,
     Signal, runVars, workerVars, storeVars
<1>2. CASE StoreBatch
  <2>1. /\ \/ buffer' = {} /\ db' = db \cup buffer \cup batchRows
           \/ buffer' = buffer \cup batchRows /\ db \subseteq db'
           \/ batchRows = {} /\ buffer' = buffer /\ db' = db
        /\ batchRows' = {} /\ mine' = mine /\ restarts' = restarts
    BY <1>2 DEF StoreBatch, Flush, FlushFails, workerVars, storeVars
  <2>2. Held \subseteq Held' \cup db' /\ db \subseteq db' /\ Held' \subseteq Held
    BY <2>1 DEF Held
  <2> QED
    BY <2>1, <2>2, LogStep DEF Log!Next
<1>3. CASE Restart
  <2>1. Held' = {} /\ restarts' = restarts + 1 /\ db' = db
    BY <1>3 DEF Restart, Held
  <2> QED
    BY <2>1 DEF Log!Lose, Log!Next
<1>4. ASSUME NEW w \in Worker, WorkerStep(w)
      PROVE  [Log!Next]_(Log!vars)
  <2>1. CASE Take(w) \/ TestSingle(w) \/ Pause(w) \/ GiveUp(w) \/ Done(w)
    BY <1>0, <2>1 DEF Take, TestSingle, Pause, GiveUp, Done, runVars, storeVars
  <2>2. CASE TestHostname(w)
    <3> DEFINE r == PartialRow(job[w], hosts[w] + 1)
    <3>1. r \notin Rows
      <4>1. /\ pc[w] = "test" /\ Active /\ hosts[w] \in Nat
            /\ r.cycle = cycle /\ r.by = job[w] /\ r.host = hosts[w] + 1
        BY <2>2 DEF TestHostname, IInv, RowsIInv, TypeOK, JobsInv, Active, PartialRow
      <4> HIDE DEF r
      <4> QED
        BY <4>1 DEF IInv, FreshInv
    <3>2. /\ \/ buffer' = {} /\ db' = db \cup buffer \cup {r}
             \/ buffer' = buffer \cup {r} /\ db \subseteq db'
          /\ UNCHANGED <<batchRows, mine, restarts>>
      BY <2>2 DEF TestHostname, StoreTestResult, Flush, FlushFails, runVars
    <3> HIDE DEF r
    <3>3. Held \subseteq Held' \cup db' /\ db \subseteq db' /\ Held' \subseteq Held \cup {r}
      BY <3>2 DEF Held
    <3>4. (Held' \ Held) \cap db = {}
      BY <3>1, <3>3 DEF Rows
    <3> QED
      BY <3>2, <3>3, <3>4, LogStep DEF Log!Next
  <2>3. CASE Update(w)
    <3> DEFINE r == ResultRow(job[w], job[w])
    <3>1. r \notin Rows
      <4>1. /\ pc[w] = "update" /\ Active
            /\ r.cycle = cycle /\ r.by = job[w] /\ r.host = 0
        BY <2>3 DEF Update, IInv, RowsIInv, JobsInv, Active, ResultRow
      <4> HIDE DEF r
      <4> QED
        BY <4>1 DEF IInv, FreshInv
    <3>2. /\ mine[w] = {} /\ mine \in [Worker -> SUBSET Row]
          /\ mine' = [mine EXCEPT ![w] = {r}]
          /\ UNCHANGED <<batchRows, buffer, db, restarts>>
      BY <2>3 DEF Update, IInv, RowsIInv, JobsInv, TypeOK, runVars, storeVars
    <3> HIDE DEF r
    <3>3. UNION {mine'[v] : v \in Worker} = (UNION {mine[v] : v \in Worker}) \cup {r}
      <4>1. mine'[w] = mine[w] \cup {r} /\ \A v \in Worker : v # w => mine'[v] = mine[v]
        BY <3>2
      <4> QED
        BY <4>1, UnionGrows
    <3>4. Held' = Held \cup {r}
      BY <3>2, <3>3 DEF Held
    <3> QED
      BY <3>1, <3>2, <3>4, LogStep DEF Log!Next, Rows
  <2>4. CASE Derive(w)
    <3>1. PICK c \in toDerive[w] :
            IF c \in claimed
            THEN UNCHANGED <<claimed, mine, sched>>
            ELSE mine' = [mine EXCEPT ![w] = @ \cup {ResultRow(c, job[w])}]
      BY <2>4 DEF Derive
    <3>2. UNCHANGED <<batchRows, buffer, db, restarts>>
      BY <2>4 DEF Derive, runVars, storeVars
    <3>3. CASE c \in claimed
      BY <1>0, <3>1, <3>2, <3>3
    <3>4. CASE c \notin claimed
      <4> DEFINE r == ResultRow(c, job[w])
      <4>1. r.cycle = cycle /\ r.by = job[w] /\ r.node = c
        BY DEF ResultRow
      <4>2. Active /\ c # job[w]
        BY <2>4 DEF Derive, IInv, RowsIInv, JobsInv, FreshInv, Active
      <4> HIDE DEF r
      <4>3. r \notin Rows
        BY <3>4, <4>1, <4>2 DEF IInv, RowsIInv, RowsInv
      <4>4. UNION {mine'[v] : v \in Worker} = (UNION {mine[v] : v \in Worker}) \cup {r}
        <5>1. mine'[w] = mine[w] \cup {r} /\ \A v \in Worker : v # w => mine'[v] = mine[v]
          BY <3>1, <3>4 DEF IInv, RowsIInv, TypeOK, r
        <5> QED
          BY <5>1, UnionGrows
      <4>5. Held' = Held \cup {r}
        BY <3>2, <4>4 DEF Held
      <4> QED
        BY <3>2, <4>3, <4>5, LogStep DEF Log!Next, Rows
    <3> QED
      BY <3>3, <3>4
  <2>5. CASE Append(w)
    <3>1. UNION {mine[v] : v \in Worker} = (UNION {mine'[v] : v \in Worker}) \cup mine[w]
      <4>1. mine'[w] = {} /\ \A v \in Worker : v # w => mine'[v] = mine[v]
        BY <2>5 DEF Append, IInv, RowsIInv, TypeOK
      <4>2. mine[w] = mine'[w] \cup mine[w]
        BY <4>1
      <4> QED
        BY <4>1, <4>2, UnionGrows
    <3>2. Held' = Held
      BY <2>5, <3>1 DEF Append, Held, storeVars
    <3> QED
      BY <2>5, <3>2 DEF Append, Log!vars, runVars, storeVars
  <2> QED
    BY <1>4, <2>1, <2>2, <2>3, <2>4, <2>5 DEF WorkerStep
<1>5. CASE UNCHANGED vars
  BY <1>0, <1>5 DEF vars, runVars, workerVars, storeVars
<1> QED
  BY <1>1, <1>2, <1>3, <1>4, <1>5 DEF Next, RunStep

(* The daemon implements the result log: between a worker's memory, the       *)
(* batch's results, the accumulator and the database no row is lost while the *)
(* process lives, and no row the database has is produced again.              *)
THEOREM ImplementsLog == Spec => LogImplemented
<1>1. Init => Log!Init
  BY DEF Init, Log!Init, Held
<1>2. IInv => TypeOK
  BY DEF IInv, RowsIInv
<1> QED
  BY <1>1, <1>2, Refines, IInvInductive, PTL DEF Spec, LogImplemented, Log!Spec
-----------------------------------------------------------------------------
(* What a cycle covers.  Rows travel together: a derived row goes from the    *)
(* worker to the batch, to the accumulator and to the database in company of  *)
(* the direct row it was derived from.                                        *)
Closed(S) ==
    \A r \in S : r.by # r.node =>
        [node |-> r.by, by |-> r.by, cycle |-> r.cycle, host |-> 0] \in S

Stored == batchRows \cup buffer \cup db

CompanyInv ==
    /\ Closed(db) /\ Closed(buffer) /\ Closed(batchRows)
    /\ \A w \in Worker : Closed(mine[w])
    /\ \A w \in Worker : pc[w] = "derive" => ResultRow(job[w], job[w]) \in mine[w]

(* While the run is not cancelled, the nodes whose jobs have returned have    *)
(* their own rows, and no batch is left behind unstored.                      *)
CoverInv ==
    /\ main \in {"idle", "batch", "exited"} => batchRows = {}
    /\ ~ctx /\ Active => \A n \in selected \ (todo \cup unsubmitted \cup outstanding) :
                            ResultRow(n, n) \in Stored
    /\ ~ctx => \A w \in Worker : pc[w] = "done" => ResultRow(job[w], job[w]) \in Stored

LEMMA ClosedUnion == ASSUME NEW S, NEW T, Closed(S), Closed(T) PROVE Closed(S \cup T)
BY DEF Closed

(* A flush keeps derived rows and their direct rows together. *)
LEMMA FlushCloses ==
    ASSUME NEW P, Closed(P), Closed(buffer), Closed(db), Flush(P)
    PROVE  Closed(buffer') /\ Closed(db')
<1>1. Closed({}) /\ Closed(db \cup P)
  BY DEF Closed
<1> QED
  BY <1>1 DEF Flush, FlushFails

LEMMA CompanyStep == TypeOK /\ JobType /\ JobsInv /\ CompanyInv /\ [Next]_vars => CompanyInv'
<1> SUFFICES ASSUME TypeOK, JobType, JobsInv, CompanyInv, [Next]_vars PROVE CompanyInv'
  OBVIOUS
<1>0. Closed({})
  BY DEF Closed
<1>k. ASSUME UNCHANGED <<storeVars, batchRows, mine>>,
             \A w \in Worker : pc'[w] = "derive" =>
                 pc[w] = "derive" /\ job'[w] = job[w] /\ cycle' = cycle
      PROVE  CompanyInv'
  BY <1>k DEF CompanyInv, storeVars, ResultRow
<1>1. CASE StartCycle
  <2>1. \A w \in Worker : pc[w] = "idle"
    BY <1>1 DEF StartCycle, JobsInv
  <2> QED
    BY <1>1, <1>k, <2>1 DEF StartCycle, workerVars
<1>2. CASE NextBatch \/ Submit \/ BatchDone \/ EndCycle \/ StopRun \/ Signal
  BY <1>2, <1>k DEF NextBatch, Submit, BatchDone, EndCycle, StopRun, Signal, runVars, workerVars
<1>3. CASE StoreBatch
  <2>1. batchRows' = {} /\ UNCHANGED <<cycle, workerVars>>
    BY <1>3 DEF StoreBatch
  <2>2. Closed(buffer') /\ Closed(db')
    <3>1. Closed(buffer \cup batchRows)
      BY ClosedUnion DEF CompanyInv
    <3>2. Flush(buffer \cup batchRows) \/ UNCHANGED storeVars
      BY <1>3 DEF StoreBatch
    <3> QED
      BY <3>1, <3>2, FlushCloses DEF CompanyInv, storeVars
  <2> QED
    BY <1>0, <2>1, <2>2 DEF CompanyInv, workerVars, ResultRow
<1>4. CASE Restart
  BY <1>0, <1>4 DEF Restart, CompanyInv
<1>5. ASSUME NEW w \in Worker, WorkerStep(w) PROVE CompanyInv'
  <2>1. CASE Take(w) \/ TestSingle(w) \/ Pause(w) \/ GiveUp(w) \/ Done(w)
    BY <1>k, <2>1 DEF Take, TestSingle, Pause, GiveUp, Done, runVars, TypeOK
  <2>2. CASE TestHostname(w)
    <3> DEFINE r == PartialRow(job[w], hosts[w] + 1)
    <3>1. Closed(buffer \cup {r}) /\ Closed({r})
      BY DEF CompanyInv, Closed, PartialRow
    <3>2. \/ buffer' = buffer \cup {r} /\ UNCHANGED db
          \/ Flush(buffer \cup {r})
      BY <2>2 DEF TestHostname, StoreTestResult
    <3>3. /\ UNCHANGED <<cycle, batchRows, mine, job>>
          /\ \A v \in Worker : pc'[v] = "derive" => pc[v] = "derive"
      BY <2>2 DEF TestHostname, runVars, TypeOK
    <3> HIDE DEF r
    <3>4. Closed(buffer') /\ Closed(db')
      BY <3>1, <3>2, FlushCloses DEF CompanyInv
    <3> QED
      BY <3>3, <3>4 DEF CompanyInv, ResultRow
  <2>3. CASE Update(w)
    <3> DEFINE r == ResultRow(job[w], job[w])
    <3>1. mine' = [mine EXCEPT ![w] = {r}] /\ pc' = [pc EXCEPT ![w] = "derive"]
          /\ UNCHANGED <<cycle, batchRows, job, storeVars>>
      BY <2>3 DEF Update, runVars
    <3>2. Closed({r})
      BY DEF Closed, ResultRow
    <3>3. \A v \in Worker : /\ mine'[v] = IF v = w THEN {r} ELSE mine[v]
                            /\ pc'[v] = IF v = w THEN "derive" ELSE pc[v]
      BY <3>1 DEF TypeOK
    <3>4. \A v \in Worker : Closed(mine'[v])
      BY <3>2, <3>3 DEF CompanyInv
    <3> QED
      BY <3>1, <3>3, <3>4 DEF CompanyInv, storeVars, ResultRow
  <2>4. CASE Derive(w)
    <3>1. PICK c \in toDerive[w] :
            IF c \in claimed THEN UNCHANGED <<claimed, mine, sched>>
            ELSE mine' = [mine EXCEPT ![w] = @ \cup {ResultRow(c, job[w])}]
      BY <2>4 DEF Derive
    <3>2. UNCHANGED <<cycle, batchRows, job, pc, storeVars>> /\ pc[w] = "derive"
      BY <2>4 DEF Derive, runVars
    <3>3. CASE c \in claimed
      BY <1>k, <3>1, <3>2, <3>3
    <3>4. CASE c \notin claimed
      <4>1. \A v \in Worker :
              mine'[v] = IF v = w THEN mine[w] \cup {ResultRow(c, job[w])} ELSE mine[v]
        BY <3>1, <3>4 DEF TypeOK
      <4>2. Closed(mine[w]) /\ ResultRow(job[w], job[w]) \in mine[w]
        BY <3>2 DEF CompanyInv
      <4>3. Closed(mine[w] \cup {ResultRow(c, job[w])})
        BY <4>2 DEF Closed, ResultRow
      <4>4. \A v \in Worker : Closed(mine'[v])
        BY <4>1, <4>3 DEF CompanyInv
      <4> QED
        BY <3>2, <4>1, <4>4 DEF CompanyInv, storeVars, ResultRow
    <3> QED
      BY <3>3, <3>4
  <2>5. CASE Append(w)
    <3>1. /\ batchRows' = batchRows \cup mine[w] /\ UNCHANGED <<cycle, job, storeVars>>
          /\ \A v \in Worker : /\ mine'[v] = IF v = w THEN {} ELSE mine[v]
                               /\ pc'[v] = IF v = w THEN "done" ELSE pc[v]
      BY <2>5 DEF Append, runVars, TypeOK
    <3>2. Closed(batchRows')
      BY <3>1, ClosedUnion DEF CompanyInv
    <3>3. \A v \in Worker : Closed(mine'[v])
      BY <1>0, <3>1 DEF CompanyInv
    <3> QED
      BY <3>1, <3>2, <3>3 DEF CompanyInv, storeVars, ResultRow
  <2> QED
    BY <1>5, <2>1, <2>2, <2>3, <2>4, <2>5 DEF WorkerStep
<1>6. CASE UNCHANGED vars
  BY <1>6, <1>k DEF vars, runVars, workerVars
<1> QED
  BY <1>1, <1>2, <1>3, <1>4, <1>5, <1>6 DEF Next, RunStep

(* A step that keeps the rows of the batch, the accumulator and the database, *)
(* while no worker finishes and no node leaves the batch.                     *)
LEMMA CoverKept ==
    ASSUME CoverInv, Stored \subseteq Stored', cycle' = cycle, ~ctx' => ~ctx,
           main' \in {"idle", "batch", "exited"} => batchRows' = {},
           ~ctx' /\ Active' => /\ Active
                       /\ selected' \ (todo' \cup unsubmitted' \cup outstanding')
                            \subseteq selected \ (todo \cup unsubmitted \cup outstanding),
           ~ctx' => \A w \in Worker : pc'[w] = "done" => pc[w] = "done" /\ job'[w] = job[w]
    PROVE  CoverInv'
BY DEF CoverInv, ResultRow

LEMMA CoverStep ==
    TypeOK /\ JobType /\ JobsInv /\ CompanyInv /\ CoverInv /\ [Next]_vars => CoverInv'
<1> SUFFICES ASSUME TypeOK, JobType, JobsInv, CompanyInv, CoverInv, [Next]_vars
             PROVE  CoverInv'
  OBVIOUS
<1>1. CASE StartCycle
  <2>1. \A w \in Worker : pc[w] = "idle"
    BY <1>1 DEF StartCycle, JobsInv
  <2>2. /\ batchRows' = {} /\ pc' = pc /\ selected' = todo'
    BY <1>1 DEF StartCycle, CoverInv, workerVars
  <2> QED
    BY <2>1, <2>2 DEF CoverInv
<1>2. CASE NextBatch
  <2>1. PICK B \in SUBSET todo : unsubmitted' = B /\ todo' = todo \ B
    BY <1>2 DEF NextBatch, BatchOf
  <2>2. /\ main = "batch" /\ main' = "submit"
        /\ UNCHANGED <<ctx, cycle, selected, outstanding, batchRows, pc, job, storeVars>>
    BY <1>2 DEF NextBatch, workerVars
  <2>3. Stored' = Stored
    BY <2>2 DEF Stored, storeVars
  <2> QED
    BY <2>1, <2>2, <2>3, CoverKept DEF Active, JobsInv
<1>3. CASE Submit
  BY <1>3, CoverKept DEF Submit, Stored, Active, workerVars, storeVars, CoverInv
<1>4. CASE BatchDone
  BY <1>4, CoverKept DEF BatchDone, Stored, Active, workerVars, storeVars, CoverInv
<1>5. CASE StoreBatch
  <2>1. Stored \subseteq Stored'
    <3>1. CASE batchRows = {}
      BY <1>5, <3>1 DEF StoreBatch, Stored, storeVars
    <3>2. CASE batchRows # {}
      BY <1>5, <3>2, FlushKeeps DEF StoreBatch, Stored
    <3> QED
      BY <3>1, <3>2
  <2>2. /\ main = "store" /\ batchRows' = {}
        /\ UNCHANGED <<ctx, cycle, selected, todo, unsubmitted, outstanding, pc, job>>
    BY <1>5 DEF StoreBatch, workerVars
  <2> QED
    BY <2>1, <2>2, CoverKept DEF Active
<1>6. CASE EndCycle
  BY <1>6, CoverKept DEF EndCycle, Stored, Active, workerVars, storeVars, CoverInv
<1>7. CASE StopRun
  BY <1>7, CoverKept DEF StopRun, Stored, Active, workerVars, storeVars, CoverInv
<1>8. CASE Signal
  BY <1>8, CoverKept DEF Signal, Stored, Active, runVars, workerVars, storeVars, CoverInv
<1>9. CASE Restart
  BY <1>9 DEF Restart, CoverInv, Active
<1>10. ASSUME NEW w \in Worker, WorkerStep(w) PROVE CoverInv'
  <2>0. pc[w] # "idle" => main = "submit"
    BY DEF JobsInv
  <2>1. CASE Take(w)
    BY <2>1, CoverKept DEF Take, Stored, Active, runVars, storeVars, CoverInv, TypeOK
  <2>2. CASE TestSingle(w)
    BY <2>2, CoverKept DEF TestSingle, Stored, Active, runVars, storeVars, CoverInv, TypeOK
  <2>3. CASE TestHostname(w)
    <3>1. Stored \subseteq Stored'
      BY <2>3, FlushKeeps DEF TestHostname, StoreTestResult, Stored
    <3>2. /\ UNCHANGED <<main, ctx, cycle, selected, todo, unsubmitted, outstanding,
                         batchRows, job>>
          /\ \A v \in Worker : pc'[v] = "done" => pc[v] = "done"
      BY <2>3 DEF TestHostname, runVars, TypeOK
    <3> QED
      BY <3>1, <3>2, CoverKept DEF Active, CoverInv
  <2>4. CASE Pause(w)
    BY <2>4, CoverKept DEF Pause, Stored, Active, runVars, storeVars, CoverInv, TypeOK
  <2>5. CASE GiveUp(w)
    BY <2>5, CoverKept DEF GiveUp, Stored, Active, runVars, storeVars, CoverInv, TypeOK
  <2>6. CASE Update(w)
    BY <2>6, CoverKept DEF Update, Stored, Active, runVars, storeVars, CoverInv, TypeOK
  <2>7. CASE Derive(w)
    BY <2>7, CoverKept DEF Derive, Stored, Active, runVars, storeVars, CoverInv, TypeOK
  <2>8. CASE Append(w)
    <3>1. /\ UNCHANGED <<main, ctx, cycle, selected, todo, unsubmitted, outstanding, job>>
          /\ Stored' = Stored \cup mine[w] /\ pc[w] = "derive"
          /\ \A v \in Worker : pc'[v] = "done" => v = w \/ pc[v] = "done"
      BY <2>8 DEF Append, Stored, runVars, storeVars, TypeOK
    <3>2. ResultRow(job[w], job[w]) \in mine[w]
      BY <3>1 DEF CompanyInv
    <3>3. main' = "submit"
      BY <2>0, <3>1
    <3> QED
      BY <3>1, <3>2, <3>3 DEF CoverInv, Active, ResultRow
  <2>9. CASE Done(w)
    <3>1. /\ UNCHANGED <<main, ctx, cycle, selected, todo, unsubmitted, batchRows, storeVars>>
          /\ outstanding' = outstanding \ {job[w]} /\ pc[w] = "done"
          /\ \A v \in Worker : pc'[v] = "done" => pc[v] = "done" /\ job'[v] = job[v]
      BY <2>9 DEF Done, runVars, TypeOK
    <3>2. Stored' = Stored
      BY <3>1 DEF Stored, storeVars
    <3>3. ~ctx => ResultRow(job[w], job[w]) \in Stored
      BY <3>1 DEF CoverInv
    <3> QED
      BY <3>1, <3>2, <3>3 DEF CoverInv, Active, ResultRow
  <2> QED
    BY <1>10, <2>1, <2>2, <2>3, <2>4, <2>5, <2>6, <2>7, <2>8, <2>9 DEF WorkerStep
<1>11. CASE UNCHANGED vars
  BY <1>11, CoverKept DEF vars, Stored, Active, runVars, workerVars, storeVars, CoverInv
<1> QED
  BY <1>1, <1>2, <1>3, <1>4, <1>5, <1>6, <1>7, <1>8, <1>9, <1>10, <1>11
  DEF Next, RunStep

(* A cycle that is not cancelled leaves a direct row of every node it         *)
(* selected, however its batches, jobs and appends interleave and whichever   *)
(* flush fails, and a derived row never reaches the database without the      *)
(* direct row it comes from.                                                  *)
THEOREM CycleCoversCorrect == Spec => []CycleCovers
<1>1. Init => CompanyInv /\ CoverInv
  BY DEF Init, CompanyInv, CoverInv, Closed, Active
<1>2. RowsIInv => TypeOK /\ JobType /\ JobsInv
  BY DEF RowsIInv
<1>3. TypeOK /\ JobsInv /\ CompanyInv /\ CoverInv => CycleCovers
  BY DEF TypeOK, JobsInv, CompanyInv, CoverInv, CycleCovers, Closed, Stored, Active
<1> QED
  BY <1>1, <1>2, <1>3, CompanyStep, CoverStep, RowsIInvInductive, PTL DEF Spec
=============================================================================
