----------------------------- MODULE WorkerPool -----------------------------
(***************************************************************************)
(* The daemon's worker pool on its own, used in any order its callers like: *)
(* Submit, Stop and WaitForCompletion are called at any time and by several *)
(* goroutines.  TestCycle uses the pool the way Run does; here the pool     *)
(* itself is the subject.  A select with several ready cases takes any of   *)
(* them, and sending on a closed channel ends the process.                  *)
(***************************************************************************)
EXTENDS Integers, Sequences, FiniteSets

CONSTANTS
    Worker,      \* goroutines of the pool
    Job,         \* jobs, each submitted by a goroutine of its own
    Stopper,     \* goroutines that call Stop
    NoJob

ASSUME WorkerPoolAssumption ==
    /\ IsFiniteSet(Worker) /\ Worker # {}
    /\ NoJob \notin Job

VARIABLES
    jobQueue,    \* the buffered channel of jobs
    queueClosed, \* jobQueue has been closed
    stopChan,    \* TRUE once closed
    pc,          \* where each worker is
    running,     \* the job each worker executes
    submit,      \* where each job's Submit is
    ended,       \* jobs that have been executed
    drained,     \* jobs received by WaitForCompletion
    stop,        \* where each Stop is
    wait         \* where the caller of WaitForCompletion is

poolVars == <<jobQueue, queueClosed, stopChan>>
workerVars == <<pc, running, ended>>
waitVars == <<wait, drained>>
vars == <<poolVars, workerVars, submit, stop, waitVars>>

QueueCap == 2 * Cardinality(Worker)

Panicked == \E j \in Job : submit[j] = "panic"

(* The types, with the channel within the capacity it is made with. *)
TypeOK ==
    /\ jobQueue \in Seq(Job) /\ Len(jobQueue) <= QueueCap
    /\ queueClosed \in BOOLEAN /\ stopChan \in BOOLEAN
    /\ pc \in [Worker -> {"select", "run", "exited"}]
    /\ running \in [Worker -> Job \cup {NoJob}]
    /\ submit \in [Job -> {"new", "blocked", "accepted", "refused", "panic"}]
    /\ ended \in SUBSET Job /\ drained \in SUBSET Job
    /\ stop \in [Stopper -> {"new", "once", "closing", "returned"}]
    /\ wait \in {"new", "drain", "returned"}

Init ==
    /\ jobQueue = <<>> /\ queueClosed = FALSE /\ stopChan = FALSE
    /\ pc = [w \in Worker |-> "select"]
    /\ running = [w \in Worker |-> NoJob]
    /\ submit = [j \in Job |-> "new"]
    /\ ended = {} /\ drained = {}
    /\ stop = [s \in Stopper |-> "new"]
    /\ wait = "new"

-----------------------------------------------------------------------------
(* Submit: the select over the send and the stop channel.  It waits while     *)
(* neither is ready; a sender that waits gets its place when a job is taken.  *)
Accept(j) ==
    /\ submit[j] \in {"new", "blocked"} /\ ~queueClosed
    /\ Len(jobQueue) < QueueCap
    /\ jobQueue' = Append(jobQueue, j)
    /\ submit' = [submit EXCEPT ![j] = "accepted"]
    /\ UNCHANGED <<queueClosed, stopChan, workerVars, stop, waitVars>>

Block(j) ==
    /\ submit[j] = "new" /\ ~queueClosed /\ ~stopChan
    /\ Len(jobQueue) = QueueCap
    /\ submit' = [submit EXCEPT ![j] = "blocked"]
    /\ UNCHANGED <<poolVars, workerVars, stop, waitVars>>

Refuse(j) ==
    /\ submit[j] = "new" /\ stopChan
    /\ submit' = [submit EXCEPT ![j] = "refused"]
    /\ UNCHANGED <<poolVars, workerVars, stop, waitVars>>

SendOnClosed(j) ==
    /\ submit[j] = "new" /\ queueClosed
    /\ submit' = [submit EXCEPT ![j] = "panic"]
    /\ UNCHANGED <<poolVars, workerVars, stop, waitVars>>

(* What closing a channel does to the Submits that wait on it. *)
Released(outcome) ==
    submit' = [j \in Job |-> IF submit[j] = "blocked" THEN outcome ELSE submit[j]]

-----------------------------------------------------------------------------
(* worker: the select over the queue and the stop channel. *)
RunRequeued(w) ==             \* faulty variant: the job stays in the channel
    /\ pc[w] = "select" /\ jobQueue # <<>>
    /\ running' = [running EXCEPT ![w] = Head(jobQueue)]
    /\ pc' = [pc EXCEPT ![w] = "run"]
    /\ UNCHANGED <<poolVars, ended, submit, stop, waitVars>>
Run(w) ==
    /\ pc[w] = "select" /\ jobQueue # <<>>
    /\ running' = [running EXCEPT ![w] = Head(jobQueue)]
    /\ jobQueue' = Tail(jobQueue)
    /\ pc' = [pc EXCEPT ![w] = "run"]
    /\ UNCHANGED <<queueClosed, stopChan, ended, submit, stop, waitVars>>

Finish(w) ==
    /\ pc[w] = "run"
    /\ ended' = ended \cup {running[w]}
    /\ running' = [running EXCEPT ![w] = NoJob]
    /\ pc' = [pc EXCEPT ![w] = "select"]
    /\ UNCHANGED <<poolVars, submit, stop, waitVars>>

ExitOnClosed(w) ==            \* faulty variant: only a closed queue ends a worker
    /\ pc[w] = "select" /\ queueClosed /\ jobQueue = <<>>
    /\ pc' = [pc EXCEPT ![w] = "exited"]
    /\ UNCHANGED <<poolVars, running, ended, submit, stop, waitVars>>
Exit(w) ==
    /\ pc[w] = "select"
    /\ stopChan \/ (queueClosed /\ jobQueue = <<>>)
    /\ pc' = [pc EXCEPT ![w] = "exited"]
    /\ UNCHANGED <<poolVars, running, ended, submit, stop, waitVars>>

-----------------------------------------------------------------------------
(* Stop: the first caller runs the body of the Once, the others wait for it.  *)
CallStop(s) ==
    /\ stop[s] = "new"
    /\ stop' = [stop EXCEPT ![s] = "once"]
    /\ UNCHANGED <<poolVars, workerVars, submit, waitVars>>

CloseStopChanUnheard(s) ==    \* faulty variant: Submit does not listen to it
    /\ stop[s] = "once" /\ ~stopChan
    /\ stopChan' = TRUE
    /\ stop' = [stop EXCEPT ![s] = "closing"]
    /\ UNCHANGED <<jobQueue, queueClosed, workerVars, submit, waitVars>>
CloseStopChan(s) ==
    /\ stop[s] = "once" /\ ~stopChan
    /\ stopChan' = TRUE /\ Released("refused")
    /\ stop' = [stop EXCEPT ![s] = "closing"]
    /\ UNCHANGED <<jobQueue, queueClosed, workerVars, waitVars>>

CloseQueue(s) ==
    /\ stop[s] = "closing" /\ \A w \in Worker : pc[w] = "exited"
    /\ queueClosed' = TRUE /\ Released("panic")
    /\ stop' = [stop EXCEPT ![s] = "returned"]
    /\ UNCHANGED <<jobQueue, stopChan, workerVars, waitVars>>

StopAgainAtOnce(s) ==         \* faulty variant: a flag in place of the Once
    /\ stop[s] = "once" /\ stopChan
    /\ stop' = [stop EXCEPT ![s] = "returned"]
    /\ UNCHANGED <<poolVars, workerVars, submit, waitVars>>
StopAgain(s) ==
    /\ stop[s] = "once" /\ \E t \in Stopper : t # s /\ stop[t] = "returned"
    /\ stop' = [stop EXCEPT ![s] = "returned"]
    /\ UNCHANGED <<poolVars, workerVars, submit, waitVars>>

-----------------------------------------------------------------------------
(* WaitForCompletion: receives until the channel is empty.  Receiving from a  *)
(* closed channel always succeeds, so on a stopped pool the loop never ends.  *)
CallWait ==
    /\ wait = "new"
    /\ wait' = "drain"
    /\ UNCHANGED <<poolVars, workerVars, submit, stop, drained>>

Drain ==
    /\ wait = "drain" /\ jobQueue # <<>>
    /\ drained' = drained \cup {Head(jobQueue)}
    /\ jobQueue' = Tail(jobQueue)
    /\ UNCHANGED <<queueClosed, stopChan, workerVars, submit, stop, wait>>

ReturnFromWait ==
    /\ wait = "drain" /\ jobQueue = <<>> /\ ~queueClosed
    /\ wait' = "returned"
    /\ UNCHANGED <<poolVars, workerVars, submit, stop, drained>>

-----------------------------------------------------------------------------
SubmitStep(j) == Accept(j) \/ Block(j) \/ Refuse(j) \/ SendOnClosed(j)
WorkerStep(w) == Run(w) \/ Finish(w) \/ Exit(w)
StopStep(s) == CloseStopChan(s) \/ CloseQueue(s) \/ StopAgain(s)
WaitStep == CallWait \/ Drain \/ ReturnFromWait

Next ==
    /\ ~Panicked
    /\ \/ \E j \in Job : SubmitStep(j)
       \/ \E w \in Worker : WorkerStep(w)
       \/ \E s \in Stopper : CallStop(s) \/ StopStep(s)
       \/ WaitStep

Spec == Init /\ [][Next]_vars

(* The pool's goroutines and a caller inside Stop run; whether a method is    *)
(* called is the callers' choice.  Jobs end, because every dial has a timeout, *)
(* and a select that finds the stop channel ready takes it sooner or later.   *)
FairSpec ==
    /\ Spec
    /\ \A w \in Worker :
         /\ WF_vars(Next /\ WorkerStep(w))
         /\ SF_vars(Next /\ Exit(w))
    /\ \A s \in Stopper : WF_vars(Next /\ StopStep(s))

-----------------------------------------------------------------------------
(* An accepted job is in one place: the channel, one worker, executed, or     *)
(* thrown away by WaitForCompletion.  No job is executed twice or vanishes,   *)
(* and the channel never holds more than it is made for.                      *)
JobConserved ==
    /\ TypeOK
    /\ \A j \in Job : submit[j] = "accepted" =>
          1 = Cardinality({i \in 1..Len(jobQueue) : jobQueue[i] = j})
              + Cardinality({w \in Worker : running[w] = j})
              + Cardinality({j} \cap ended) + Cardinality({j} \cap drained)

(* Once any call of Stop has returned, also one that did not do the stopping, *)
(* no job is running and none can start.                                      *)
StopIsFinal ==
    (\E s \in Stopper : stop[s] = "returned") => \A w \in Worker : pc[w] = "exited"

(* Stop returns however many jobs are in the channel and whoever else calls.  *)
StopReturns ==
    \A s \in Stopper : stop[s] = "once" ~> (stop[s] = "returned" \/ Panicked)

(* A Submit that waits for room when the pool is stopped is refused: it never  *)
(* gets to send on the channel that Stop closes.                              *)
WaitingSubmitSafe ==
    [][\A j \in Job : submit[j] = "blocked" => submit'[j] # "panic"]_vars
=============================================================================
