----------------------------- MODULE ModemBatch -----------------------------
(***************************************************************************)
(* A batch of modem calls: runBatchModeMulti schedules one job per node,   *)
(* ModemWorkers take the jobs from a channel, lock the phone number, call  *)
(* it through the operators until one of them connects, and send results   *)
(* to a collector.  A call window that closes defers the node, and the     *)
(* batch schedules deferred nodes again.  An interrupt stops everything.   *)
(*                                                                         *)
(* The program cancels two contexts: ctx (the batch) and, after it, poolCtx *)
(* (the workers).  A select with several ready cases takes any of them.    *)
(* A call stands for runTest with its retries; whether a node is callable  *)
(* at the moment is asked again and again and may change every time.  The  *)
(* pauses between submissions and between tests take time only.  The       *)
(* results of a call's first attempts go the way of a failed operator's.   *)
(***************************************************************************)
EXTENDS Integers, Sequences, FiniteSets

CONSTANTS
    Modem,       \* modems of the pool
    Node,        \* nodes of the batch
    Phone,       \* phone numbers
    PhoneOf,     \* the number of each node; nodes may share one
    Operator,    \* operators, also some that have left the configuration
    Operators,   \* the operators of the configuration in their order
    QueueCap,    \* capacity of the job channel (100 in the code)
    MaxClosings, \* bound: how often a call window turns out to be closed
    None

ASSUME ModemBatchAssumption ==
    /\ IsFiniteSet(Modem) /\ IsFiniteSet(Node)
    /\ PhoneOf \in [Node -> Phone]
    /\ Operators \in Seq(Operator) /\ Operators # <<>>
    /\ \A i, j \in 1..Len(Operators) : Operators[i] = Operators[j] => i = j
    /\ QueueCap \in Nat \ {0} /\ MaxClosings \in Nat
    /\ None \notin Modem \cup Node \cup Operator

VARIABLES
    main,        \* where runBatchModeMulti is
    ctx, poolCtx,  \* TRUE once cancelled
    toEmit,      \* nodes ScheduleNodes has still to emit
    submitted,   \* jobs submitted
    queue,       \* the job channel; a job is its node
    queueClosed,
    pc, job,     \* where each modem's worker is, and its job
    order, pos,  \* the operators of its job in the order of dialling, and the current one
    outcome,     \* the result of its job
    inUse,       \* PhoneCoordinator.inUse
    cache,       \* OperatorCache: the operator that connected last
    results,     \* the results channel
    resultsClosed,
    collector,   \* where the collector is
    completed,   \* completedCount
    signal,      \* TRUE: completionSignal holds a token
    deferredNodes,
    finals,      \* per node, the final results that the collector has recorded
    closings     \* closed windows so far

mainVars == <<main, toEmit, submitted>>
workerVars == <<pc, job, order, pos, outcome>>
collectorVars == <<collector, completed, finals>>
vars == <<mainVars, ctx, poolCtx, queue, queueClosed, workerVars, inUse, cache,
          results, resultsClosed, collectorVars, signal, deferredNodes, closings>>

ResultsCap == 2 * Cardinality(Modem)
Outcome == {"connected", "failed", "cancelled", "deferred"}
Result == [node : Node, outcome : Outcome, final : BOOLEAN]

WorkerState == {"open", "idle", "acquire", "try", "call", "emit",
                "release", "send", "gone"}

(* A worker that holds its job's number. *)
Holding == {"try", "call", "emit", "release"}

(* The types, with both channels within the capacity they are made with. *)
TypeOK ==
    /\ main \in {"submit", "check", "select", "redo", "stop", "join", "collect", "done"}
    /\ ctx \in BOOLEAN /\ poolCtx \in BOOLEAN
    /\ toEmit \in SUBSET Node /\ submitted \in Nat
    /\ queue \in SUBSET Node /\ Cardinality(queue) <= QueueCap
    /\ queueClosed \in BOOLEAN
    /\ pc \in [Modem -> WorkerState]
    /\ job \in [Modem -> Node \cup {None}]
    /\ order \in [Modem -> Seq(Operator)]
    /\ pos \in [Modem -> Nat]
    /\ outcome \in [Modem -> Outcome \cup {None}]
    /\ inUse \in [Phone -> Modem \cup {None}]
    /\ cache \in [Phone -> Operator \cup {None}]
    /\ results \in Seq(Result) /\ Len(results) <= ResultsCap
    /\ resultsClosed \in BOOLEAN
    /\ collector \in {"receive", "count", "signal", "done"}
    /\ completed \in Nat
    /\ signal \in BOOLEAN
    /\ deferredNodes \in SUBSET Node
    /\ finals \in [Node -> Nat]
    /\ closings \in 0..MaxClosings

Init ==
    /\ main = "submit" /\ toEmit = Node /\ submitted = 0
    /\ ctx = FALSE /\ poolCtx = FALSE
    /\ queue = {} /\ queueClosed = FALSE
    /\ pc = [m \in Modem |-> "open"]
    /\ job = [m \in Modem |-> None]
    /\ order = [m \in Modem |-> <<>>] /\ pos = [m \in Modem |-> 0]
    /\ outcome = [m \in Modem |-> None]
    /\ inUse = [p \in Phone |-> None]
    /\ cache \in [Phone -> Operator \cup {None}]
    /\ results = <<>> /\ resultsClosed = FALSE
    /\ collector = "receive" /\ completed = 0
    /\ signal = FALSE
    /\ deferredNodes = {}
    /\ finals = [n \in Node |-> 0]
    /\ closings = 0

-----------------------------------------------------------------------------
(* The batch. *)

(* A job from ScheduleNodes, in whatever order the windows open, goes into    *)
(* the channel, while that has room.                                          *)
Submit(n) ==
    /\ main = "submit" /\ n \in toEmit
    /\ Cardinality(queue) < QueueCap
    /\ toEmit' = toEmit \ {n}
    /\ queue' = queue \cup {n}
    /\ submitted' = submitted + 1
    /\ UNCHANGED <<main, ctx, poolCtx, queueClosed, workerVars, inUse, cache, results,
                   resultsClosed, collectorVars, signal, deferredNodes, closings>>

(* All jobs are submitted; or the interrupt ends ScheduleNodes, which looks   *)
(* the same to the batch ...                                                  *)
Submitted ==
    /\ main = "submit" /\ (toEmit = {} \/ ctx)
    /\ main' = "check"
    /\ toEmit' = {}
    /\ UNCHANGED <<submitted, ctx, poolCtx, queue, queueClosed, workerVars, inUse, cache,
                   results, resultsClosed, collectorVars, signal, deferredNodes, closings>>

(* ... or SubmitJob, or the pause after it, notices it.  (The job that is not *)
(* accepted has been counted, for the summary only.)                          *)
SubmitCancelled ==
    /\ main = "submit" /\ ctx
    /\ main' = "stop"
    /\ toEmit' = {}
    /\ UNCHANGED <<submitted, ctx, poolCtx, queue, queueClosed, workerVars, inUse, cache,
                   results, resultsClosed, collectorVars, signal, deferredNodes, closings>>

(* waitForCompletion: load the counter; if that is not enough, wait. *)
CheckCount ==
    /\ main = "check"
    /\ main' = IF completed >= submitted THEN "redo" ELSE "select"
    /\ UNCHANGED <<toEmit, submitted, ctx, poolCtx, queue, queueClosed, workerVars, inUse,
                   cache, results, resultsClosed, collectorVars, signal, deferredNodes, closings>>

ReceiveSignal ==
    /\ main = "select" /\ signal
    /\ signal' = FALSE
    /\ main' = "check"
    /\ UNCHANGED <<toEmit, submitted, ctx, poolCtx, queue, queueClosed, workerVars, inUse,
                   cache, results, resultsClosed, collectorVars, deferredNodes, closings>>

WaitCancelled ==
    /\ main = "select" /\ ctx
    /\ main' = "redo"
    /\ UNCHANGED <<toEmit, submitted, ctx, poolCtx, queue, queueClosed, workerVars, inUse,
                   cache, results, resultsClosed, collectorVars, signal, deferredNodes, closings>>

(* The deferred nodes are scheduled again, until there are none. *)
Reschedule ==
    /\ main = "redo"
    /\ main' = IF deferredNodes = {} THEN "stop" ELSE "submit"
    /\ toEmit' = deferredNodes
    /\ deferredNodes' = {}
    /\ UNCHANGED <<submitted, ctx, poolCtx, queue, queueClosed, workerVars, inUse, cache,
                   results, resultsClosed, collectorVars, signal, closings>>

(* ModemPool.Stop: close the job channel, wait for the workers, cancel, and   *)
(* close the results; then wait for the collector.                            *)
CloseQueue ==
    /\ main = "stop"
    /\ queueClosed' = TRUE
    /\ main' = "join"
    /\ UNCHANGED <<toEmit, submitted, ctx, poolCtx, queue, workerVars, inUse, cache, results,
                   resultsClosed, collectorVars, signal, deferredNodes, closings>>

CloseResults ==
    /\ main = "join" /\ \A m \in Modem : pc[m] = "gone"
    /\ poolCtx' = TRUE
    /\ resultsClosed' = TRUE
    /\ main' = "collect"
    /\ UNCHANGED <<toEmit, submitted, ctx, queue, queueClosed, workerVars, inUse, cache,
                   results, collectorVars, signal, deferredNodes, closings>>

Finish ==
    /\ main = "collect" /\ collector = "done"
    /\ main' = "done"
    /\ UNCHANGED <<toEmit, submitted, ctx, poolCtx, queue, queueClosed, workerVars, inUse,
                   cache, results, resultsClosed, collectorVars, signal, deferredNodes, closings>>

(* The signal handler cancels the batch, and then the pool. *)
Interrupt ==
    /\ ~ctx /\ main # "done"
    /\ ctx' = TRUE
    /\ UNCHANGED <<mainVars, poolCtx, queue, queueClosed, workerVars, inUse, cache, results,
                   resultsClosed, collectorVars, signal, deferredNodes, closings>>

CancelPool ==
    /\ ctx /\ ~poolCtx
    /\ poolCtx' = TRUE
    /\ UNCHANGED <<mainVars, ctx, queue, queueClosed, workerVars, inUse, cache, results,
                   resultsClosed, collectorVars, signal, deferredNodes, closings>>

batchVars == <<mainVars, ctx, poolCtx, queueClosed, resultsClosed, collectorVars, signal,
               deferredNodes>>

-----------------------------------------------------------------------------
(* A worker.  Opening the modem fails when a USB reset does not help; the     *)
(* worker is gone then, and nothing else hears of it.                         *)
Goto(m, s) == pc' = [pc EXCEPT ![m] = s]

Open(m) ==
    /\ pc[m] = "open"
    /\ Goto(m, "idle") \/ Goto(m, "gone")
    /\ UNCHANGED <<batchVars, queue, job, order, pos, outcome, inUse, cache, results, closings>>

Take(m) ==
    /\ pc[m] = "idle"
    /\ \E n \in queue : queue' = queue \ {n} /\ job' = [job EXCEPT ![m] = n]
    /\ Goto(m, "acquire")
    /\ UNCHANGED <<batchVars, order, pos, outcome, inUse, cache, results, closings>>

Leave(m) ==
    /\ pc[m] = "idle"
    /\ poolCtx \/ (queueClosed /\ queue = {})
    /\ Goto(m, "gone")
    /\ UNCHANGED <<batchVars, queue, job, order, pos, outcome, inUse, cache, results, closings>>

(* The configuration may have changed since the cache was written. *)
Listed == {Operators[i] : i \in 1..Len(Operators)}

(* faulty variant: the cached operator stays in its old place as well *)
ReorderOperatorsWithCachedTwice(c) == IF c \notin Listed THEN Operators ELSE <<c>> \o Operators

(* The cached operator first, if it is still listed; those before it move up. *)
ReorderOperatorsWithCached(c) ==
    IF c \notin Listed THEN Operators
    ELSE LET idx == CHOOSE i \in 1..Len(Operators) : Operators[i] = c
         IN  [i \in 1..Len(Operators) |->
                 IF i = 1 THEN c ELSE Operators[IF i <= idx THEN i - 1 ELSE i]]

(* The window is found closed: the job ends deferred. *)
FindClosed(m) ==
    /\ closings < MaxClosings /\ closings' = closings + 1
    /\ outcome' = [outcome EXCEPT ![m] = "deferred"]
    /\ Goto(m, "release")

(* runFailoverSequence looks up the cached operator and checks the window. *)
StartSequence(m) ==
    /\ order' = [order EXCEPT ![m] = ReorderOperatorsWithCached(cache[PhoneOf[job[m]]])]
    /\ pos' = [pos EXCEPT ![m] = 1]
    /\ FindClosed(m) \/ (Goto(m, "try") /\ UNCHANGED <<outcome, closings>>)

(* faulty variant: a busy number is not waited for *)
AcquireBusy(m) ==
    /\ pc[m] = "acquire" /\ ~poolCtx
    /\ inUse' = [inUse EXCEPT ![PhoneOf[job[m]]] = m]
    /\ StartSequence(m)
    /\ UNCHANGED <<batchVars, queue, job, cache, results>>

(* AcquirePhone returns when the number is free; *)
Acquire(m) ==
    /\ pc[m] = "acquire" /\ ~poolCtx
    /\ inUse[PhoneOf[job[m]]] = None
    /\ inUse' = [inUse EXCEPT ![PhoneOf[job[m]]] = m]
    /\ StartSequence(m)
    /\ UNCHANGED <<batchVars, queue, job, cache, results>>

(* or when the pool is cancelled: the job is dropped without a result. *)
AcquireCancelled(m) ==
    /\ pc[m] = "acquire" /\ poolCtx
    /\ job' = [job EXCEPT ![m] = None]
    /\ Goto(m, "idle")
    /\ UNCHANGED <<batchVars, queue, order, pos, outcome, inUse, cache, results, closings>>

(* An operator is tried, unless the pool is cancelled. *)
Try(m) ==
    /\ pc[m] = "try"
    /\ IF poolCtx
       THEN Goto(m, "release") /\ outcome' = [outcome EXCEPT ![m] = "cancelled"]
       ELSE Goto(m, "call") /\ UNCHANGED outcome
    /\ UNCHANGED <<batchVars, queue, job, order, pos, inUse, cache, results, closings>>

Last(m) == pos[m] = Len(order[m])

(* What a call comes to, with its retries.  Cancelled, it may have failed.   *)
Outcomes == {"connected", "failed"} \cup (IF poolCtx THEN {"cancelled"} ELSE {})

(* The call ends.  A connection is remembered.  A failure, or a cancellation  *)
(* between two retries, which looks like one, leads to the next operator, if  *)
(* the window is still open; after the last one the cache forgets the number. *)
Call(m) ==
    /\ pc[m] = "call"
    /\ LET number == PhoneOf[job[m]]
       IN  \/ /\ cache' = [cache EXCEPT ![number] = order[m][pos[m]]]
              /\ outcome' = [outcome EXCEPT ![m] = "connected"]
              /\ Goto(m, "release")
              /\ UNCHANGED closings
           \/ FindClosed(m) /\ UNCHANGED cache
           \/ /\ \E o \in Outcomes \ {"connected"} :
                    outcome' = [outcome EXCEPT ![m] = o]
              /\ IF Last(m)
                 THEN cache' = [cache EXCEPT ![number] = None] /\ Goto(m, "release")
                 ELSE UNCHANGED cache /\ Goto(m, "emit")
              /\ UNCHANGED closings
    /\ UNCHANGED <<batchVars, queue, job, order, pos, inUse, results>>

Room == Len(results) < ResultsCap

(* The failed operator's result is sent; a cancelled pool may skip that. *)
Emit(m) ==
    /\ pc[m] = "emit"
    /\ \/ Room /\ results' = Append(results, [node |-> job[m], outcome |-> outcome[m], final |-> FALSE])
       \/ poolCtx /\ UNCHANGED results
    /\ pos' = [pos EXCEPT ![m] = @ + 1]
    /\ Goto(m, "try")
    /\ UNCHANGED <<batchVars, queue, job, order, outcome, inUse, cache, closings>>

ReleasePhone(m) ==
    /\ pc[m] = "release"
    /\ inUse' = [inUse EXCEPT ![PhoneOf[job[m]]] = None]
    /\ order' = [order EXCEPT ![m] = <<>>] /\ pos' = [pos EXCEPT ![m] = 0]
    /\ Goto(m, "send")
    /\ UNCHANGED <<batchVars, queue, job, outcome, cache, results, closings>>

(* The final result is sent; or, when cancelled, the worker leaves with it. *)
Send(m) ==
    /\ pc[m] = "send"
    /\ \/ /\ Room
          /\ results' = Append(results, [node |-> job[m], outcome |-> outcome[m], final |-> TRUE])
          /\ Goto(m, "idle")
       \/ poolCtx /\ Goto(m, "gone") /\ UNCHANGED results
    /\ job' = [job EXCEPT ![m] = None] /\ outcome' = [outcome EXCEPT ![m] = None]
    /\ UNCHANGED <<batchVars, queue, order, pos, inUse, cache, closings>>

-----------------------------------------------------------------------------
(* The collector.  A deferred node is kept for the batch before the result is *)
(* counted; intermediate results are recorded and not counted.                *)
handlingVars == <<mainVars, ctx, poolCtx, queue, queueClosed, workerVars, inUse, cache,
                  resultsClosed, closings>>

(* faulty variant: every result counts as a finished job *)
CountedAll(r) == TRUE

Counted(r) == r.final

Receive ==
    /\ collector = "receive" /\ results # <<>>
    /\ LET r == Head(results)
       IN  /\ collector' = IF Counted(r) THEN "count" ELSE "receive"
           /\ deferredNodes' = deferredNodes \cup {n \in {r.node} : r.outcome = "deferred"}
           /\ finals' = IF r.final /\ r.outcome # "deferred"
                        THEN [finals EXCEPT ![r.node] = @ + 1] ELSE finals
    /\ results' = Tail(results)
    /\ UNCHANGED <<handlingVars, completed, signal>>

Count ==
    /\ collector = "count"
    /\ completed' = completed + 1
    /\ collector' = "signal"
    /\ UNCHANGED <<handlingVars, finals, results, signal, deferredNodes>>

(* faulty variant: a channel without buffer, whose token may find no receiver *)
SendSignalUnbuffered ==
    /\ collector = "signal"
    /\ signal' \in {signal, TRUE}
    /\ collector' = "receive"
    /\ UNCHANGED <<handlingVars, completed, finals, results, deferredNodes>>

(* A token, unless one is there already. *)
SendSignal ==
    /\ collector = "signal"
    /\ signal' = TRUE
    /\ collector' = "receive"
    /\ UNCHANGED <<handlingVars, completed, finals, results, deferredNodes>>

EndCollect ==
    /\ collector = "receive" /\ resultsClosed /\ results = <<>>
    /\ collector' = "done"
    /\ UNCHANGED <<handlingVars, completed, finals, results, signal, deferredNodes>>

-----------------------------------------------------------------------------
MainStep ==
    \/ (\E n \in Node : Submit(n)) \/ Submitted \/ SubmitCancelled
    \/ CheckCount \/ ReceiveSignal \/ WaitCancelled \/ Reschedule
    \/ CloseQueue \/ CloseResults \/ Finish
WorkerStep(m) ==
    \/ Open(m) \/ Take(m) \/ Leave(m) \/ Acquire(m) \/ AcquireCancelled(m)
    \/ Try(m) \/ Call(m) \/ Emit(m) \/ ReleasePhone(m) \/ Send(m)
CollectorStep == Receive \/ Count \/ SendSignal \/ EndCollect

Next ==
    \/ MainStep \/ CollectorStep \/ Interrupt \/ CancelPool
    \/ \E m \in Modem : WorkerStep(m)

Spec == Init /\ [][Next]_vars

-----------------------------------------------------------------------------
(* "No two modems attempt to call the same phone number simultaneously", also *)
(* when several nodes share the number and the pool is cancelled.             *)
OneCallPerPhone ==
    \A m, k \in Modem :
        m # k /\ pc[m] \in Holding /\ pc[k] \in Holding => PhoneOf[job[m]] # PhoneOf[job[k]]

(* A sequence in progress has every listed operator once, with the cached one  *)
(* first: no other worker changes the number's cache entry under it, unless it  *)
(* names an operator that is not listed.                                        *)
SequenceSound ==
    /\ TypeOK
    /\ \A m \in Modem : pc[m] \in {"try", "call", "emit"} =>
          /\ Len(order[m]) = Len(Operators)
          /\ \A i \in 1..Len(Operators) : \E k \in 1..Len(order[m]) : order[m][k] = Operators[i]
          /\ cache[PhoneOf[job[m]]] \in {None, order[m][1]} \cup (Operator \ Listed)

(* A batch that was not interrupted stops with exactly one final result of    *)
(* every node recorded: it neither stops while a job is under way, whatever   *)
(* the number of intermediate results, nor forgets a deferred node.           *)
NoneForgotten ==
    main \in {"stop", "join", "collect", "done"} /\ ~ctx =>
        deferredNodes = {} /\ \A n \in Node : finals[n] = 1

(* No wake-up is lost: a batch that waits although enough results have been   *)
(* counted has a token in the channel, or the collector is about to send one.  *)
WaitWakes ==
    main = "select" /\ completed >= submitted => signal \/ collector = "signal"
=============================================================================
