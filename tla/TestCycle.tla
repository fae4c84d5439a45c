------------------------------ MODULE TestCycle ------------------------------
(***************************************************************************)
(* One run of the testing daemon: Run ticks, runTestCycle cuts the nodes   *)
(* the scheduler selected into batches, submits a job per node to the      *)
(* worker pool, waits for the batch, and stores its results.  The storage  *)
(* layer accumulates rows and flushes them; a flush can fail, the process  *)
(* can be told to stop or can crash, and the next process rebuilds its     *)
(* schedule from the database.                                             *)
(*                                                                         *)
(* Which nodes a cycle selects is left open here (any nonempty set): the   *)
(* selection is the subject of AkaSchedule.  A tick while the daemon is    *)
(* paused, or with nothing due, changes nothing and is a stuttering step.  *)
(* The daemon runs continuously and stores results (RunOnce, CLIOnly and   *)
(* DryRun are false).                                                      *)
(***************************************************************************)
EXTENDS Integers, FiniteSets

CONSTANTS
    Node,           \* nodes the scheduler knows
    Worker,         \* goroutines of the pool
    BatchSize,      \* config.Daemon.BatchSize
    Hostnames,      \* Hostnames[n]: how many hostnames node n lists
    Announces,      \* Announces[n]: entries of other networks that share a
                    \* hostname with n and that its mailer may announce
    MaxCycles,      \* bound: test cycles over all processes
    MaxRestarts,    \* bound: processes started after the first
    None            \* no node, and no row

(* A stored row: of node `node`, from the direct test of `by`; `host` is 0    *)
(* for the node's own (or derived) result and the hostname's position for a   *)
(* partial result of a multi-hostname node.                                   *)
Row == [node : Node, by : Node, cycle : Nat, host : Nat]

ASSUME TestCycleAssumption ==
    /\ IsFiniteSet(Node) /\ IsFiniteSet(Worker)
    /\ BatchSize \in Nat \ {0}
    /\ Hostnames \in [Node -> Nat \ {0}]
    /\ Announces \in [Node -> SUBSET Node]
    /\ \A n \in Node : n \notin Announces[n]
    /\ MaxCycles \in Nat /\ MaxRestarts \in Nat
    /\ None \notin Node /\ None \notin Row

VARIABLES
    main,           \* where the Run goroutine is
    ctx,            \* TRUE once the run's context is cancelled
    cycle,          \* number of test cycles started, over all processes
    restarts,       \* processes started after the first
    selected,       \* the cycle's nodes
    todo,           \* those of them whose batch has not started
    unsubmitted,    \* nodes of the batch not submitted yet
    outstanding,    \* the batch's WaitGroup: jobs added and not done
    batchRows,      \* batchResults
    queue,          \* the pool's jobQueue
    pc,             \* where each worker is
    job,            \* the node each worker is testing
    hosts,          \* hostnames of its node a worker has tested
    mine,           \* rows a worker has produced and not appended yet
    toDerive,       \* announced entries a worker has still to look at
    claimed,        \* cycleCoverage.covered
    sched,          \* per node, the row that last updated its schedule entry
    buffer,         \* resultsBatch, the storage layer's accumulator
    db              \* rows in the database

runVars == <<main, cycle, restarts, selected, todo, unsubmitted>>
workerVars == <<pc, job, hosts, mine, toDerive>>
storeVars == <<buffer, db>>
vars == <<runVars, ctx, outstanding, batchRows, queue, workerVars, claimed,
          sched, storeVars>>

MainState == {"idle", "batch", "submit", "store", "exited"}
WorkerState == {"idle", "test", "pause", "update", "derive", "done"}

QueueCap == 2 * Cardinality(Worker)

(* The types, with the channel never above the capacity it is made with. *)
TypeOK ==
    /\ main \in MainState
    /\ ctx \in BOOLEAN
    /\ cycle \in Nat
    /\ restarts \in Nat
    /\ selected \in SUBSET Node
    /\ todo \in SUBSET Node
    /\ unsubmitted \in SUBSET Node
    /\ outstanding \in SUBSET Node
    /\ batchRows \in SUBSET Row
    /\ queue \in SUBSET Node /\ Cardinality(queue) <= QueueCap
    /\ pc \in [Worker -> WorkerState]
    /\ job \in [Worker -> Node \cup {None}]
    /\ hosts \in [Worker -> Nat]
    /\ mine \in [Worker -> SUBSET Row]
    /\ toDerive \in [Worker -> SUBSET Node]
    /\ claimed \in SUBSET Node
    /\ sched \in [Node -> Row \cup {None}]
    /\ buffer \in SUBSET Row
    /\ db \in SUBSET Row

ResultRow(n, m) == [node |-> n, by |-> m, cycle |-> cycle, host |-> 0]
PartialRow(n, i) == [node |-> n, by |-> n, cycle |-> cycle, host |-> i]

(* Rows that are in the process's memory. *)
Held == buffer \cup batchRows \cup UNION {mine[w] : w \in Worker}

-----------------------------------------------------------------------------
Init ==
    /\ main = "idle" /\ ctx = FALSE /\ cycle = 0 /\ restarts = 0
    /\ selected = {} /\ todo = {} /\ unsubmitted = {} /\ outstanding = {}
    /\ batchRows = {} /\ queue = {}
    /\ pc = [w \in Worker |-> "idle"]
    /\ job = [w \in Worker |-> None]
    /\ hosts = [w \in Worker |-> 0]
    /\ mine = [w \in Worker |-> {}]
    /\ toDerive = [w \in Worker |-> {}]
    /\ claimed = {}
    /\ sched = [n \in Node |-> None]
    /\ buffer = {} /\ db = {}

(* flushBatchLocked with rows P accumulated: the insert commits and the       *)
(* accumulator is emptied, or an error is returned and it is kept.  The error *)
(* may be that of an answer lost after the commit.  With a cancelled context  *)
(* only an error can come back.                                               *)
FlushFailsEmptied(P) ==       \* faulty variant: the accumulator is always emptied
    buffer' = {} /\ db' \in {db, db \cup P}
FlushFails(P) == buffer' = P /\ db' \in {db, db \cup P}

Flush(P) ==
    \/ ~ctx /\ buffer' = {} /\ db' = db \cup P
    \/ FlushFails(P)

(* StoreTestResult: one row is accumulated, and flushed with the others when  *)
(* the size or the age of the accumulator asks for it.                        *)
StoreTestResultAlone(r) ==    \* faulty variant: inserts one row, empties all
    buffer' = {} /\ db' = db \cup {r}
StoreTestResult(r) ==
    \/ buffer' = buffer \cup {r} /\ UNCHANGED db
    \/ Flush(buffer \cup {r})

-----------------------------------------------------------------------------
(* The Run goroutine. *)

(* A tick with something due: the cycle starts with the scheduler's selection *)
(* and an empty cycleCoverage.                                                *)
StartCycle ==
    /\ main = "idle" /\ cycle < MaxCycles
    /\ \E S \in (SUBSET Node) \ {{}} : selected' = S /\ todo' = S
    /\ main' = "batch"
    /\ cycle' = cycle + 1
    /\ claimed' = {}
    /\ UNCHANGED <<ctx, restarts, unsubmitted, outstanding, batchRows, queue,
                   workerVars, sched, storeVars>>

(* The next nodes of the selection, BatchSize of them while there are so many. *)
BatchOf(S) ==
    {B \in SUBSET S : Cardinality(B) =
        IF Cardinality(S) < BatchSize THEN Cardinality(S) ELSE BatchSize}

NextBatch ==
    /\ main = "batch" /\ todo # {}
    /\ \E B \in BatchOf(todo) : unsubmitted' = B /\ todo' = todo \ B
    /\ main' = "submit"
    /\ UNCHANGED <<ctx, cycle, restarts, selected, outstanding, batchRows,
                   queue, workerVars, claimed, sched, storeVars>>

(* wg.Add and the send on the pool's channel, which blocks while it is full. *)
Submit ==
    /\ main = "submit" /\ Cardinality(queue) < QueueCap
    /\ \E n \in unsubmitted :
        /\ unsubmitted' = unsubmitted \ {n}
        /\ outstanding' = outstanding \cup {n}
        /\ queue' = queue \cup {n}
    /\ UNCHANGED <<main, ctx, cycle, restarts, selected, todo, batchRows,
                   workerVars, claimed, sched, storeVars>>

(* wg.Wait returns. *)
BatchDoneEarly ==             \* faulty variant: waits for an empty queue only
    /\ main = "submit" /\ unsubmitted = {} /\ queue = {}
    /\ main' = "store"
    /\ UNCHANGED <<ctx, cycle, restarts, selected, todo, unsubmitted,
                   outstanding, batchRows, queue, workerVars, claimed, sched,
                   storeVars>>
BatchDone ==
    /\ main = "submit" /\ unsubmitted = {} /\ outstanding = {}
    /\ main' = "store"
    /\ UNCHANGED <<ctx, cycle, restarts, selected, todo, unsubmitted,
                   outstanding, batchRows, queue, workerVars, claimed, sched,
                   storeVars>>

(* StoreTestResults accumulates the batch's rows and always flushes; an error *)
(* is logged.  A batch without rows is not stored.                            *)
StoreBatch ==
    /\ main = "store"
    /\ IF batchRows = {} THEN UNCHANGED storeVars
                         ELSE Flush(buffer \cup batchRows)
    /\ batchRows' = {}
    /\ main' = "batch"
    /\ UNCHANGED <<ctx, cycle, restarts, selected, todo, unsubmitted,
                   outstanding, queue, workerVars, claimed, sched>>

EndCycle ==
    /\ main = "batch" /\ todo = {}
    /\ main' = "idle"
    /\ selected' = {}
    /\ UNCHANGED <<ctx, cycle, restarts, todo, unsubmitted, outstanding,
                   batchRows, queue, workerVars, claimed, sched, storeVars>>

(* Run sees the cancelled context between two cycles, stops the pool, which   *)
(* waits for its workers, and the process exits.  Nothing on this path closes *)
(* the storage.                                                               *)
StopRun ==
    /\ main = "idle" /\ ctx
    /\ \A w \in Worker : pc[w] = "idle"
    /\ main' = "exited"
    /\ UNCHANGED <<ctx, cycle, restarts, selected, todo, unsubmitted,
                   outstanding, batchRows, queue, workerVars, claimed, sched,
                   storeVars>>

(* SIGINT or SIGTERM. *)
Signal ==
    /\ main # "exited" /\ ~ctx
    /\ ctx' = TRUE
    /\ UNCHANGED <<runVars, outstanding, batchRows, queue, workerVars, claimed,
                   sched, storeVars>>

-----------------------------------------------------------------------------
(* A worker of the pool. *)

TakeUnlessCancelled(w) ==     \* faulty variant: a cancelled pool takes no job
    /\ pc[w] = "idle" /\ ~ctx
    /\ \E n \in queue :
        /\ queue' = queue \ {n}
        /\ job' = [job EXCEPT ![w] = n]
    /\ pc' = [pc EXCEPT ![w] = "test"]
    /\ UNCHANGED <<runVars, ctx, outstanding, batchRows, hosts, mine, toDerive,
                   claimed, sched, storeVars>>
Take(w) ==
    /\ pc[w] = "idle"
    /\ \E n \in queue :
        /\ queue' = queue \ {n}
        /\ job' = [job EXCEPT ![w] = n]
    /\ pc' = [pc EXCEPT ![w] = "test"]
    /\ UNCHANGED <<runVars, ctx, outstanding, batchRows, hosts, mine, toDerive,
                   claimed, sched, storeVars>>

(* testSingleHostnameNode: the result goes to the caller. *)
TestSingle(w) ==
    /\ pc[w] = "test" /\ Hostnames[job[w]] = 1
    /\ pc' = [pc EXCEPT ![w] = "update"]
    /\ UNCHANGED <<runVars, ctx, outstanding, batchRows, queue, job, hosts,
                   mine, toDerive, claimed, sched, storeVars>>

(* testMultipleHostnameNode: one hostname is tested and its row stored. *)
TestHostname(w) ==
    /\ pc[w] = "test" /\ Hostnames[job[w]] > 1
    /\ hosts' = [hosts EXCEPT ![w] = @ + 1]
    /\ StoreTestResult(PartialRow(job[w], hosts[w] + 1))
    /\ pc' = [pc EXCEPT ![w] = "pause"]
    /\ UNCHANGED <<runVars, ctx, outstanding, batchRows, queue, job, mine,
                   toDerive, claimed, sched>>

(* The pause after a hostname.  A cancelled context ends the test without a   *)
(* result, and the job returns.                                               *)
Pause(w) ==
    /\ pc[w] = "pause"
    /\ pc' = [pc EXCEPT ![w] =
                IF hosts[w] < Hostnames[job[w]] THEN "test" ELSE "update"]
    /\ UNCHANGED <<runVars, ctx, outstanding, batchRows, queue, job, hosts,
                   mine, toDerive, claimed, sched, storeVars>>

GiveUpNotDone(w) ==           \* faulty variant: returns without wg.Done
    /\ pc[w] = "pause" /\ ctx
    /\ pc' = [pc EXCEPT ![w] = "idle"]
    /\ job' = [job EXCEPT ![w] = None]
    /\ UNCHANGED <<runVars, ctx, outstanding, batchRows, queue, hosts,
                   mine, toDerive, claimed, sched, storeVars>>
GiveUp(w) ==
    /\ pc[w] = "pause" /\ ctx
    /\ pc' = [pc EXCEPT ![w] = "done"]
    /\ UNCHANGED <<runVars, ctx, outstanding, batchRows, queue, job, hosts,
                   mine, toDerive, claimed, sched, storeVars>>

(* UpdateTestResult, and the start of deriveAKAResults with the entries the   *)
(* tested mailer announced: none when the test failed.                        *)
Update(w) ==
    /\ pc[w] = "update"
    /\ LET r == ResultRow(job[w], job[w])
       IN  /\ sched' = [sched EXCEPT ![job[w]] = r]
           /\ mine' = [mine EXCEPT ![w] = {r}]
    /\ \E A \in SUBSET Announces[job[w]] : toDerive' = [toDerive EXCEPT ![w] = A]
    /\ pc' = [pc EXCEPT ![w] = "derive"]
    /\ UNCHANGED <<runVars, ctx, outstanding, batchRows, queue, job, hosts,
                   claimed, storeVars>>

(* One announced entry: skipped when another test of the cycle claimed it,    *)
(* otherwise claimed, given a derived row and marked in the schedule.         *)
DeriveUnclaimed(w) ==         \* faulty variant: no cycleCoverage
    /\ pc[w] = "derive"
    /\ \E c \in toDerive[w] :
        /\ toDerive' = [toDerive EXCEPT ![w] = @ \ {c}]
        /\ mine' = [mine EXCEPT ![w] = @ \cup {ResultRow(c, job[w])}]
        /\ sched' = [sched EXCEPT ![c] = ResultRow(c, job[w])]
    /\ UNCHANGED <<runVars, ctx, outstanding, batchRows, queue, pc, job, hosts,
                   claimed, storeVars>>
Derive(w) ==
    /\ pc[w] = "derive"
    /\ \E c \in toDerive[w] :
        /\ toDerive' = [toDerive EXCEPT ![w] = @ \ {c}]
        /\ IF c \in claimed
           THEN UNCHANGED <<claimed, mine, sched>>
           ELSE LET r == ResultRow(c, job[w])
                IN  /\ claimed' = claimed \cup {c}
                    /\ mine' = [mine EXCEPT ![w] = @ \cup {r}]
                    /\ sched' = [sched EXCEPT ![c] = r]
    /\ UNCHANGED <<runVars, ctx, outstanding, batchRows, queue, pc, job, hosts,
                   storeVars>>

(* The worker's rows are appended to the batch's under batchMu. *)
AppendUnlocked(w) ==          \* faulty variant: no batchMu, an append is lost
    /\ pc[w] = "derive" /\ toDerive[w] = {}
    /\ batchRows' \in {batchRows \cup mine[w], mine[w]}
    /\ mine' = [mine EXCEPT ![w] = {}]
    /\ pc' = [pc EXCEPT ![w] = "done"]
    /\ UNCHANGED <<runVars, ctx, outstanding, queue, job, hosts, toDerive,
                   claimed, sched, storeVars>>
Append(w) ==
    /\ pc[w] = "derive" /\ toDerive[w] = {}
    /\ batchRows' = batchRows \cup mine[w]
    /\ mine' = [mine EXCEPT ![w] = {}]
    /\ pc' = [pc EXCEPT ![w] = "done"]
    /\ UNCHANGED <<runVars, ctx, outstanding, queue, job, hosts, toDerive,
                   claimed, sched, storeVars>>

(* The deferred wg.Done, whichever way the job returned. *)
Done(w) ==
    /\ pc[w] = "done"
    /\ outstanding' = outstanding \ {job[w]}
    /\ pc' = [pc EXCEPT ![w] = "idle"]
    /\ job' = [job EXCEPT ![w] = None]
    /\ hosts' = [hosts EXCEPT ![w] = 0]
    /\ UNCHANGED <<runVars, ctx, batchRows, queue, mine, toDerive, claimed,
                   sched, storeVars>>

-----------------------------------------------------------------------------
(* The rows GetNodeTestHistory may return first for node n: those of its last *)
(* cycle.  Between an aggregate and a partial row of the same second the      *)
(* lower hostname index decides, and both the aggregate and the first partial *)
(* row have index 0.                                                          *)
LastRows(n) ==
    {r \in db : /\ r.node = n
                /\ \A s \in db : s.node = n =>
                     /\ s.cycle <= r.cycle
                     /\ s.cycle = r.cycle /\ s.by = n /\ s.host = 0 => r.host <= 1}

(* The process ends at any point, or has exited, and another one is started:  *)
(* InitializeSchedules takes each node's last row.  A history query that      *)
(* fails returns an empty history.                                            *)
Restart ==
    /\ restarts < MaxRestarts
    /\ restarts' = restarts + 1
    /\ main' = "idle" /\ ctx' = FALSE
    /\ selected' = {} /\ todo' = {} /\ unsubmitted' = {} /\ outstanding' = {}
    /\ batchRows' = {} /\ queue' = {}
    /\ pc' = [w \in Worker |-> "idle"]
    /\ job' = [w \in Worker |-> None]
    /\ hosts' = [w \in Worker |-> 0]
    /\ mine' = [w \in Worker |-> {}]
    /\ toDerive' = [w \in Worker |-> {}]
    /\ claimed' = {}
    /\ sched' \in [Node -> db \cup {None}]
    /\ \A n \in Node : sched'[n] \in LastRows(n) \cup {None}
    /\ buffer' = {}
    /\ UNCHANGED <<cycle, db>>

-----------------------------------------------------------------------------
RunStep == NextBatch \/ Submit \/ BatchDone \/ StoreBatch \/ EndCycle
WorkerStep(w) ==
    \/ Take(w) \/ TestSingle(w) \/ TestHostname(w) \/ Pause(w) \/ GiveUp(w)
    \/ Update(w) \/ Derive(w) \/ Append(w) \/ Done(w)

Next ==
    \/ StartCycle \/ RunStep \/ StopRun \/ Signal \/ Restart
    \/ \E w \in Worker : WorkerStep(w)

Spec == Init /\ [][Next]_vars

(* Goroutines that can run do; every dial has a timeout, so tests end.  When  *)
(* a tick and the cancellation are both ready Run's select picks either, and  *)
(* picks the cancellation sooner or later.                                    *)
Fairness ==
    /\ WF_vars(RunStep)
    /\ \A w \in Worker : WF_vars(WorkerStep(w))
    /\ SF_vars(StopRun)

FairSpec == Spec /\ Fairness

-----------------------------------------------------------------------------
(* Outside a batch no job of it is queued or running: the rows of a batch are *)
(* stored, and the pool is stopped, only after the last job has returned.     *)
BatchBarrier ==
    main # "submit" =>
        /\ outstanding = {} /\ queue = {}
        /\ \A w \in Worker : pc[w] = "idle" /\ mine[w] = {}

(* "Each candidate identity gets at most one derived result per cycle",       *)
(* counted over memory and database and over restarts in mid-cycle.           *)
OneDerivedPerCycle ==
    \A r, s \in Held \cup db :
        r.node = s.node /\ r.cycle = s.cycle /\ r.by # r.node /\ s.by # s.node
            => r = s

(* The schedule never counts a test that nobody holds any more: while the     *)
(* process runs, the row behind each schedule entry is on its way to the      *)
(* database or there.  A flush that fails keeps its rows for the next one.    *)
ScheduleAccounted ==
    \A n \in Node : sched[n] # None => sched[n] \in Held \cup db

(* A cycle that is not cancelled leaves a direct row of each node it selected *)
(* in the database, or in the accumulator after a failed flush: no node falls *)
(* between two batches, two jobs or two appends.  And an entry that was       *)
(* covered by another entry's test has its row stored together with that      *)
(* test's: the database never has a derived row without the direct row it was *)
(* derived from. [testNodes, StoreTestResults]                                *)
CycleCovers ==
    /\ main = "batch" /\ todo = {} /\ ~ctx =>
          \A n \in selected : ResultRow(n, n) \in buffer \cup db
    /\ \A r \in db : r.by # r.node =>
          [node |-> r.by, by |-> r.by, cycle |-> r.cycle, host |-> 0] \in db

(* The daemon implements the result log. *)
Log == INSTANCE ResultLog WITH process <- restarts, held <- Held, stored <- db
LogImplemented == Log!Spec

(* Every cycle ends: no job is lost, and Submit never waits for a queue that  *)
(* nobody empties.                                                            *)
CycleEnds == (main # "idle") ~> (main \in {"idle", "exited"})

(* A signalled daemon exits, also in the middle of a batch, unless the        *)
(* process dies first.                                                        *)
ShutdownEnds == ctx ~> (main = "exited" \/ ~ctx)
=============================================================================
