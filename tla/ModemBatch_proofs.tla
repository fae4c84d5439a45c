------------------------- MODULE ModemBatch_proofs -------------------------
(***************************************************************************)
(* Proofs about ModemBatch.  That two modems never call one number rests   *)
(* on the coordinator's table: a worker that has acquired a number is the  *)
(* one the table names, until it releases it.  That no wake-up of the wait *)
(* is lost is inductive by itself.                                         *)
(***************************************************************************)
EXTENDS ModemBatch, TLAPS, FiniteSetTheorems

(* Workers with a job. *)
Busy == Holding \cup {"acquire", "send"}

Types ==
    /\ queue \subseteq Node
    /\ pc \in [Modem -> WorkerState]
    /\ job \in [Modem -> Node \cup {None}]
    /\ inUse \in [Phone -> Modem \cup {None}]

(* The table names the worker that holds a number. *)
TableNamesHolder ==
    \A m \in Modem :
        /\ pc[m] \in Busy => job[m] \in Node
        /\ pc[m] \in Holding => inUse[PhoneOf[job[m]]] = m

LockInv == Types /\ TableNamesHolder

(* A worker's step that leaves its job and the table alone keeps the         *)
(* invariant, if the worker does not begin to hold a number.                 *)
LEMMA KeepsTable ==
    ASSUME LockInv, NEW m \in Modem, NEW s \in WorkerState,
           pc' = [pc EXCEPT ![m] = s], job' = job, inUse' = inUse, queue' = queue,
           s \in Holding => pc[m] \in Holding,
           s \in Busy => pc[m] \in Busy
    PROVE  LockInv'
<1>1. Types'
  BY DEF LockInv, Types
<1>2. ASSUME NEW k \in Modem
      PROVE  /\ pc'[k] \in Busy => job'[k] \in Node
             /\ pc'[k] \in Holding => inUse'[PhoneOf[job'[k]]] = k
  <2>1. pc'[k] = IF k = m THEN s ELSE pc[k]
    BY DEF LockInv, Types
  <2> QED
    BY <2>1 DEF LockInv, TableNamesHolder
<1> QED
  BY <1>1, <1>2 DEF LockInv, TableNamesHolder

(* A worker's own steps. *)
LEMMA WorkerKeepsTable ==
    ASSUME ModemBatchAssumption, LockInv, NEW m \in Modem, WorkerStep(m)
    PROVE  LockInv'
<1> USE DEF WorkerState, Holding, Busy
<1>1. CASE Open(m)
  BY <1>1, KeepsTable DEF Open, Goto
<1>2. CASE Leave(m)
  BY <1>2, KeepsTable DEF Leave, Goto
<1>3. CASE Try(m)
  BY <1>3, KeepsTable DEF Try, Goto
<1>4. CASE Call(m)
  <2>1. pc[m] = "call" /\ UNCHANGED <<job, inUse, queue>>
    BY <1>4 DEF Call, Outcomes
  <2>2. pc' = [pc EXCEPT ![m] = "release"] \/ pc' = [pc EXCEPT ![m] = "emit"]
    BY <1>4 DEF Call, Outcomes, FindClosed, Goto
  <2> QED
    BY <2>1, <2>2, KeepsTable
<1>5. CASE Emit(m)
  BY <1>5, KeepsTable DEF Emit, Goto
<1>6. CASE Take(m)
  <2>1. PICK n \in queue : queue' = queue \ {n} /\ job' = [job EXCEPT ![m] = n]
    BY <1>6 DEF Take
  <2>2. pc' = [pc EXCEPT ![m] = "acquire"] /\ inUse' = inUse /\ n \in Node
    BY <1>6 DEF Take, Goto, LockInv, Types
  <2>3. Types'
    BY <2>1, <2>2 DEF LockInv, Types
  <2> QED
    BY <2>1, <2>2, <2>3 DEF LockInv, Types, TableNamesHolder
<1>7. CASE Acquire(m)
  <2> DEFINE number == PhoneOf[job[m]]
  <2>1. /\ pc[m] = "acquire" /\ inUse[number] = None
        /\ inUse' = [inUse EXCEPT ![number] = m]
        /\ UNCHANGED <<job, queue>>
    BY <1>7 DEF Acquire
  <2>2. pc' = [pc EXCEPT ![m] = "release"] \/ pc' = [pc EXCEPT ![m] = "try"]
    BY <1>7 DEF Acquire, StartSequence, FindClosed, Goto
  <2>3. number \in Phone
    BY <2>1 DEF LockInv, TableNamesHolder, ModemBatchAssumption
  <2>4. Types'
    BY <2>1, <2>2 DEF LockInv, Types
  <2>5. ASSUME NEW k \in Modem, k # m, pc'[k] \in Holding
        PROVE  inUse'[PhoneOf[job'[k]]] = k
    <3>1. pc[k] \in Holding
      BY <2>2, <2>5 DEF LockInv, Types
    <3>2. inUse[PhoneOf[job[k]]] = k /\ PhoneOf[job[k]] \in Phone
      BY <3>1 DEF LockInv, TableNamesHolder, ModemBatchAssumption
    <3>3. PhoneOf[job[k]] # number
      BY <3>2, <2>1 DEF ModemBatchAssumption
    <3> QED
      BY <3>2, <3>3, <2>1 DEF LockInv, Types
  <2>6. inUse'[PhoneOf[job'[m]]] = m
    BY <2>1, <2>3 DEF LockInv, Types
  <2>7. ASSUME NEW k \in Modem, pc'[k] \in Busy
        PROVE  job'[k] \in Node
    BY <2>7, <2>1, <2>2 DEF LockInv, Types, TableNamesHolder
  <2> QED
    BY <2>4, <2>5, <2>6, <2>7 DEF LockInv, TableNamesHolder
<1>8. CASE AcquireCancelled(m)
  <2>1. /\ job' = [job EXCEPT ![m] = None] /\ pc' = [pc EXCEPT ![m] = "idle"]
        /\ UNCHANGED <<inUse, queue>>
    BY <1>8 DEF AcquireCancelled, Goto
  <2> QED
    BY <2>1 DEF LockInv, Types, TableNamesHolder
<1>9. CASE ReleasePhone(m)
  <2> DEFINE number == PhoneOf[job[m]]
  <2>1. /\ pc[m] = "release" /\ pc' = [pc EXCEPT ![m] = "send"]
        /\ inUse' = [inUse EXCEPT ![number] = None]
        /\ UNCHANGED <<job, queue>>
    BY <1>9 DEF ReleasePhone, Goto
  <2>2. inUse[number] = m
    BY <2>1 DEF LockInv, TableNamesHolder
  <2>3. Types'
    BY <2>1 DEF LockInv, Types
  <2>4. ASSUME NEW k \in Modem, pc'[k] \in Holding
        PROVE  inUse'[PhoneOf[job'[k]]] = k
    <3>1. k # m /\ pc[k] \in Holding
      BY <2>1, <2>4 DEF LockInv, Types
    <3>2. inUse[PhoneOf[job[k]]] = k
      BY <3>1 DEF LockInv, TableNamesHolder
    <3> QED
      BY <3>1, <3>2, <2>1, <2>2 DEF LockInv, Types
  <2>5. ASSUME NEW k \in Modem, pc'[k] \in Busy
        PROVE  job'[k] \in Node
    BY <2>5, <2>1 DEF LockInv, Types, TableNamesHolder
  <2> QED
    BY <2>3, <2>4, <2>5 DEF LockInv, TableNamesHolder
<1>10. CASE Send(m)
  <2>1. job' = [job EXCEPT ![m] = None] /\ UNCHANGED <<inUse, queue>>
    BY <1>10 DEF Send
  <2>2. pc' = [pc EXCEPT ![m] = "idle"] \/ pc' = [pc EXCEPT ![m] = "gone"]
    BY <1>10 DEF Send, Goto
  <2> QED
    BY <2>1, <2>2 DEF LockInv, Types, TableNamesHolder
<1> QED
  BY <1>1, <1>2, <1>3, <1>4, <1>5, <1>6, <1>7, <1>8, <1>9, <1>10 DEF WorkerStep

LEMMA NextKeepsTable ==
    ASSUME ModemBatchAssumption, LockInv, [Next]_vars
    PROVE  LockInv'
<1>1. CASE \E m \in Modem : WorkerStep(m)
  BY <1>1, WorkerKeepsTable
<1>2. CASE \E n \in Node : Submit(n)
  <2>1. UNCHANGED <<pc, job, inUse>> /\ queue' \subseteq Node
    BY <1>2 DEF Submit, workerVars, LockInv, Types
  <2> QED
    BY <2>1 DEF LockInv, Types, TableNamesHolder
<1>3. CASE \/ Submitted \/ SubmitCancelled \/ CheckCount \/ ReceiveSignal \/ WaitCancelled
           \/ Reschedule \/ CloseQueue \/ CloseResults \/ Finish
           \/ CollectorStep \/ Interrupt \/ CancelPool \/ UNCHANGED vars
  <2>1. UNCHANGED <<pc, job, inUse, queue>>
    BY <1>3 DEF Submitted, SubmitCancelled, CheckCount, ReceiveSignal, WaitCancelled,
      Reschedule, CloseQueue, CloseResults, Finish, CollectorStep, Receive, Count,
      SendSignal, EndCollect, Interrupt, CancelPool, workerVars, handlingVars, vars
  <2> QED
    BY <2>1 DEF LockInv, Types, TableNamesHolder
<1> QED
  BY <1>1, <1>2, <1>3 DEF Next, MainStep

LEMMA InitHasTable ==
    ASSUME Init PROVE LockInv
  BY DEF Init, LockInv, Types, TableNamesHolder, WorkerState, Holding, Busy

(* Two workers that hold numbers hold different ones: the table cannot name   *)
(* both.                                                                      *)
LEMMA TableExcludes ==
    ASSUME LockInv PROVE OneCallPerPhone
  BY DEF LockInv, TableNamesHolder, OneCallPerPhone

(* PhoneCoordinator: no two modems call the same phone number at a time,      *)
(* whatever the modems, nodes, numbers and operators.                         *)
THEOREM OneCallCorrect == Spec => []OneCallPerPhone
<1>1. Init => LockInv
  BY InitHasTable
<1>2. LockInv /\ [Next]_vars => LockInv'
  BY NextKeepsTable, ModemBatchAssumption
<1>3. LockInv => OneCallPerPhone
  BY TableExcludes
<1> QED
  BY <1>1, <1>2, <1>3, PTL DEF Spec

(* waitForCompletion: the one-token channel loses no wake-up, whatever the    *)
(* order of counting, signalling and waiting.                                 *)
THEOREM WaitWakesCorrect == Spec => []WaitWakes
<1>1. Init => WaitWakes
  BY DEF Init, WaitWakes
<1>2. ASSUME WaitWakes, [Next]_vars PROVE WaitWakes'
  <2>1. CASE MainStep
    BY <2>1, <1>2 DEF MainStep, Submit, Submitted, SubmitCancelled, CheckCount,
      ReceiveSignal, WaitCancelled, Reschedule, CloseQueue, CloseResults, Finish,
      collectorVars, WaitWakes
  <2>2. CASE CollectorStep
    BY <2>2, <1>2 DEF CollectorStep, Receive, Count, SendSignal, EndCollect,
      handlingVars, mainVars, WaitWakes
  <2>3. CASE Interrupt \/ CancelPool \/ UNCHANGED vars
    BY <2>3, <1>2 DEF Interrupt, CancelPool, vars, mainVars, collectorVars, WaitWakes
  <2>4. ASSUME NEW m \in Modem, WorkerStep(m) PROVE WaitWakes'
    <3>1. UNCHANGED batchVars
      BY <2>4 DEF WorkerStep, Open, Take, Leave, Acquire, AcquireCancelled, Try, Call,
        Emit, ReleasePhone, Send
    <3> QED
      BY <3>1, <1>2 DEF batchVars, mainVars, collectorVars, WaitWakes
  <2> QED
    BY <2>1, <2>2, <2>3, <2>4, <1>2 DEF Next
<1> QED
  BY <1>1, <1>2, PTL DEF Spec
-----------------------------------------------------------------------------
(* Where a node is: at a worker, or its final result in the channel. *)
AtWorker(n) == \E m \in Modem : job[m] = n
Sent(n) == \E i \in 1..Len(results) : results[i].final /\ results[i].node = n

(* No node has two final results in the channel. *)
SentOnce ==
    \A i, k \in 1..Len(results) :
        results[i].final /\ results[k].final /\ results[i].node = results[k].node => i = k

(* The nodes whose jobs are submitted and not yet received by the collector. *)
Outstanding == {n \in Node : n \in queue \/ AtWorker(n) \/ Sent(n)}

BatchTypes ==
    /\ toEmit \subseteq Node /\ queue \subseteq Node /\ deferredNodes \subseteq Node
    /\ submitted \in Nat /\ completed \in Nat
    /\ pc \in [Modem -> WorkerState]
    /\ job \in [Modem -> Node \cup {None}]
    /\ outcome \in [Modem -> Outcome \cup {None}]
    /\ results \in Seq(Result)
    /\ finals \in [Node -> {0, 1}]

(* What a worker has at hand.  Nobody leaves with a job, because the pool's   *)
(* context ends only when all have left.                                      *)
WorkersHold ==
    /\ \A m \in Modem :
          /\ pc[m] \in Busy <=> job[m] # None
          /\ pc[m] \in {"emit", "release", "send"} => outcome[m] \in Outcome
          /\ pc[m] = "emit" => outcome[m] # "deferred"
          /\ poolCtx => pc[m] = "gone"

(* A node is deferred by its final result only. *)
DeferredFinal ==
    \A i \in 1..Len(results) : results[i].outcome = "deferred" => results[i].final

(* No node is in two places, or twice in one; and exactly the nodes that are  *)
(* nowhere have their final result.                                           *)
OnePlace ==
    /\ \A m, k \in Modem : job[m] = job[k] /\ job[m] # None => m = k
    /\ SentOnce
    /\ \A n \in Node :
          /\ n \in toEmit => ~(n \in queue \/ AtWorker(n) \/ Sent(n) \/ n \in deferredNodes)
          /\ n \in queue => ~(AtWorker(n) \/ Sent(n) \/ n \in deferredNodes)
          /\ AtWorker(n) => ~(Sent(n) \/ n \in deferredNodes)
          /\ Sent(n) => n \notin deferredNodes
          /\ finals[n] = 0 <=>
                n \in toEmit \/ n \in queue \/ AtWorker(n) \/ Sent(n) \/ n \in deferredNodes

(* The counters: what is submitted and not counted is outstanding, or just     *)
(* received.                                                                  *)
Tally ==
    submitted = completed + Cardinality(Outstanding) + (IF collector = "count" THEN 1 ELSE 0)

MainKnows ==
    /\ toEmit # {} => main = "submit"
    /\ main = "redo" => completed >= submitted
    /\ main \in {"stop", "join", "collect", "done"} =>
          deferredNodes = {} /\ \A n \in Node : finals[n] = 1

Accounted == BatchTypes /\ WorkersHold /\ DeferredFinal /\ OnePlace /\ Tally /\ MainKnows

(* As long as nobody interrupts the batch. *)
BatchInv == ctx \/ Accounted

(* A result goes into the channel, *)
LEMMA AppendResult ==
    ASSUME results \in Seq(Result), NEW r \in Result, results' = Append(results, r)
    PROVE  /\ results' \in Seq(Result)
           /\ \A i \in 1..Len(results') :
                 results'[i] = r \/ \E k \in 1..Len(results) : results'[i] = results[k]
           /\ \A n : Sent(n)' <=> Sent(n) \/ (r.final /\ r.node = n)
           /\ SentOnce /\ (r.final => ~Sent(r.node)) => SentOnce'
<1>1. /\ results' \in Seq(Result) /\ Len(results') = Len(results) + 1 /\ Len(results) \in Nat
      /\ \A i \in 1..Len(results) : results'[i] = results[i]
      /\ results'[Len(results')] = r
  OBVIOUS
<1>2. \A i \in 1..Len(results') : i \in 1..Len(results) \/ i = Len(results')
  BY <1>1
<1>3. ASSUME NEW n, Sent(n)' PROVE Sent(n) \/ (r.final /\ r.node = n)
  <2>1. PICK i \in 1..Len(results') : results'[i].final /\ results'[i].node = n
    BY <1>3 DEF Sent
  <2>2. CASE i \in 1..Len(results)
    BY <1>1, <2>1, <2>2 DEF Sent
  <2>3. CASE i = Len(results')
    BY <1>1, <2>1, <2>3
  <2> QED
    BY <1>2, <2>2, <2>3
<1>4. ASSUME NEW n, Sent(n) PROVE Sent(n)'
  <2>1. PICK i \in 1..Len(results) : results[i].final /\ results[i].node = n
    BY <1>4 DEF Sent
  <2>2. i \in 1..Len(results') /\ results'[i] = results[i]
    BY <1>1
  <2> QED
    BY <2>1, <2>2 DEF Sent
<1>5. ASSUME NEW n, r.final, r.node = n PROVE Sent(n)'
  <2>1. Len(results') \in 1..Len(results')
    BY <1>1
  <2> QED
    BY <1>1, <1>5, <2>1 DEF Sent
<1>6. ASSUME SentOnce, r.final => ~Sent(r.node),
             NEW i \in 1..Len(results'), NEW k \in 1..Len(results'),
             results'[i].final, results'[k].final, results'[i].node = results'[k].node
      PROVE  i = k
  <2>1. CASE i \in 1..Len(results) /\ k \in 1..Len(results)
    BY <1>1, <1>6, <2>1 DEF SentOnce
  <2>2. CASE i \in 1..Len(results) /\ k = Len(results')
    <3>1. results'[i] = results[i] /\ results'[k] = r
      BY <1>1, <2>2
    <3> QED
      BY <1>6, <2>2, <3>1 DEF Sent
  <2>3. CASE i = Len(results') /\ k \in 1..Len(results)
    <3>1. results'[k] = results[k] /\ results'[i] = r
      BY <1>1, <2>3
    <3> QED
      BY <1>6, <2>3, <3>1 DEF Sent
  <2> QED
    BY <1>2, <2>1, <2>2, <2>3
<1>7. SentOnce /\ (r.final => ~Sent(r.node)) => SentOnce'
  BY <1>6 DEF SentOnce
<1>8. \A i \in 1..Len(results') :
          results'[i] = r \/ \E k \in 1..Len(results) : results'[i] = results[k]
  BY <1>1, <1>2
<1>9. \A n : Sent(n)' <=> Sent(n) \/ (r.final /\ r.node = n)
  BY <1>3, <1>4, <1>5
<1> QED
  BY <1>1, <1>7, <1>8, <1>9

(* and the collector takes it from there. *)
LEMMA TakeResult ==
    ASSUME results \in Seq(Result), results # <<>>, results' = Tail(results), SentOnce,
           NEW r, r = Head(results)
    PROVE  /\ r \in Result /\ results' \in Seq(Result)
           /\ \E k \in 1..Len(results) : r = results[k]
           /\ \A i \in 1..Len(results') : \E k \in 1..Len(results) : results'[i] = results[k]
           /\ r.final => Sent(r.node)
           /\ \A n : Sent(n)' <=> Sent(n) /\ ~(r.final /\ r.node = n)
           /\ SentOnce'
<1>1. /\ r \in Result /\ results' \in Seq(Result) /\ Len(results') = Len(results) - 1
      /\ \A i \in 1..Len(results') : results'[i] = results[i + 1]
      /\ r = results[1] /\ Len(results) \in Nat /\ Len(results) > 0
  OBVIOUS
<1>2. \A i \in 1..Len(results') : i + 1 \in 1..Len(results) /\ i + 1 # 1
  BY <1>1
<1>3. 1 \in 1..Len(results)
  BY <1>1
<1>4. SentOnce'
  <2> SUFFICES ASSUME NEW i \in 1..Len(results'), NEW k \in 1..Len(results'),
                      results'[i].final, results'[k].final,
                      results'[i].node = results'[k].node
               PROVE  i = k
    BY DEF SentOnce
  <2>1. i + 1 = k + 1
    BY <1>1, <1>2 DEF SentOnce
  <2> QED
    BY <2>1
<1>5. ASSUME NEW n, Sent(n)' PROVE Sent(n) /\ ~(r.final /\ r.node = n)
  <2>1. PICK i \in 1..Len(results') : results'[i].final /\ results'[i].node = n
    BY <1>5 DEF Sent
  <2>2. i + 1 \in 1..Len(results) /\ i + 1 # 1 /\ results[i + 1] = results'[i]
    BY <1>1, <1>2
  <2> QED
    BY <1>1, <1>3, <2>1, <2>2 DEF Sent, SentOnce
<1>6. ASSUME NEW n, Sent(n), ~(r.final /\ r.node = n) PROVE Sent(n)'
  <2>1. PICK i \in 1..Len(results) : results[i].final /\ results[i].node = n
    BY <1>6 DEF Sent
  <2>2. i # 1
    BY <1>1, <1>6, <2>1
  <2>3. i - 1 \in 1..Len(results') /\ results'[i - 1] = results[i]
    BY <1>1, <2>1, <2>2
  <2> QED
    BY <2>1, <2>3 DEF Sent
<1>7. r.final => Sent(r.node)
  BY <1>1, <1>3 DEF Sent
<1>8. \A i \in 1..Len(results') : \E k \in 1..Len(results) : results'[i] = results[k]
  BY <1>1, <1>2
<1>9. \A n : Sent(n)' <=> Sent(n) /\ ~(r.final /\ r.node = n)
  BY <1>5, <1>6
<1> QED
  BY <1>1, <1>3, <1>4, <1>7, <1>8, <1>9

LEMMA OutstandingFinite ==
    ASSUME ModemBatchAssumption
    PROVE  IsFiniteSet(Outstanding) /\ Cardinality(Outstanding) \in Nat
<1>1. IsFiniteSet(Node) /\ Outstanding \subseteq Node
  BY DEF ModemBatchAssumption, Outstanding
<1>2. IsFiniteSet(Outstanding)
  BY <1>1, FS_Subset
<1> QED
  BY <1>2, FS_CardinalityType

LEMMA BatchInvInit == ModemBatchAssumption /\ Init => BatchInv
<1> SUFFICES ASSUME ModemBatchAssumption, Init PROVE Accounted
  BY DEF BatchInv
<1>1. BatchTypes
  BY DEF Init, BatchTypes, WorkerState
<1>2. WorkersHold
  BY DEF Init, WorkersHold, Busy, Holding
<1>3. \A n \in Node : ~AtWorker(n) /\ ~Sent(n)
  BY DEF Init, AtWorker, Sent, ModemBatchAssumption
<1>4. OnePlace /\ DeferredFinal
  BY <1>3 DEF Init, OnePlace, SentOnce, DeferredFinal
<1>5. Outstanding = {}
  BY <1>3 DEF Init, Outstanding
<1>6. Tally
  BY <1>5, FS_EmptySet DEF Init, Tally
<1> QED
  BY <1>1, <1>2, <1>4, <1>6 DEF Init, Accounted, MainKnows

(* A step that moves no node and changes no counter keeps places and counts. *)
LEMMA NothingMoves ==
    ASSUME Accounted,
           UNCHANGED <<toEmit, queue, job, deferredNodes, finals, submitted, completed>>,
           \A n \in Node : Sent(n)' <=> Sent(n),
           SentOnce',
           (collector' = "count") <=> (collector = "count")
    PROVE  OnePlace' /\ Tally'
<1>1. \A n \in Node : AtWorker(n)' <=> AtWorker(n)
  BY DEF AtWorker
<1>2. OnePlace'
  BY <1>1 DEF Accounted, OnePlace
<1>3. Outstanding' = Outstanding
  BY <1>1 DEF Outstanding
<1> QED
  BY <1>2, <1>3 DEF Accounted, Tally

(* A worker's step in the middle of a job: it changes its place and the outcome. *)
LEMMA WorkerMoves ==
    ASSUME Accounted, ~poolCtx,
           NEW m \in Modem, NEW s \in WorkerState, NEW o \in Outcome \cup {None},
           pc' = [pc EXCEPT ![m] = s], outcome' = [outcome EXCEPT ![m] = o],
           UNCHANGED <<poolCtx, toEmit, submitted, queue, job, results, deferredNodes,
                       finals, completed>>,
           s \in Busy <=> pc[m] \in Busy,
           s \in {"emit", "release", "send"} => o \in Outcome,
           s = "emit" => o # "deferred"
    PROVE  BatchTypes' /\ WorkersHold'
<1>1. /\ pc' \in [Modem -> WorkerState]
      /\ outcome' \in [Modem -> Outcome \cup {None}]
      /\ \A k \in Modem : pc'[k] = IF k = m THEN s ELSE pc[k]
      /\ \A k \in Modem : outcome'[k] = IF k = m THEN o ELSE outcome[k]
  BY DEF Accounted, BatchTypes
<1>2. BatchTypes'
  BY <1>1 DEF Accounted, BatchTypes
<1>3. ASSUME NEW k \in Modem
      PROVE  /\ pc'[k] \in Busy <=> job'[k] # None
             /\ pc'[k] \in {"emit", "release", "send"} => outcome'[k] \in Outcome
             /\ pc'[k] = "emit" => outcome'[k] # "deferred"
  <2>1. /\ pc[k] \in Busy <=> job[k] # None
        /\ pc[k] \in {"emit", "release", "send"} => outcome[k] \in Outcome
        /\ pc[k] = "emit" => outcome[k] # "deferred"
    BY DEF Accounted, WorkersHold
  <2> QED
    BY <1>1, <2>1
<1> QED
  BY <1>2, <1>3 DEF WorkersHold

(* A worker's steps. *)
LEMMA WorkerKeepsBatch ==
    ASSUME ModemBatchAssumption, Accounted, NEW m \in Modem, WorkerStep(m)
    PROVE  Accounted'
<1> USE DEF WorkerState, Busy, Holding
<1>1. pc[m] # "gone" /\ ~poolCtx
  <2>1. pc[m] # "gone"
    BY DEF WorkerStep, Open, Take, Leave, Acquire, AcquireCancelled, Try, Call, Emit,
           ReleasePhone, Send
  <2> QED
    BY <2>1 DEF Accounted, WorkersHold
<1>2. UNCHANGED batchVars
  BY DEF WorkerStep, Open, Take, Leave, Acquire, AcquireCancelled, Try, Call, Emit,
         ReleasePhone, Send
<1>3. MainKnows'
  <2>1. UNCHANGED <<main, toEmit, completed, submitted, deferredNodes, finals>>
    BY <1>2 DEF batchVars, mainVars, collectorVars
  <2> QED
    BY <2>1 DEF Accounted, MainKnows
<1>4. CASE UNCHANGED <<queue, job, results>>
  <2> SUFFICES BatchTypes' /\ WorkersHold'
    BY <1>2, <1>3, <1>4, NothingMoves
       DEF Accounted, OnePlace, Sent, SentOnce, DeferredFinal, batchVars, mainVars, collectorVars
  <2>1. UNCHANGED <<poolCtx, toEmit, submitted, deferredNodes, finals, completed>>
    BY <1>2 DEF batchVars, mainVars, collectorVars
  <2>2. /\ outcome[m] \in Outcome \cup {None}
        /\ outcome' = outcome => outcome' = [outcome EXCEPT ![m] = outcome[m]]
    BY DEF Accounted, BatchTypes
  <2>3. CASE Open(m) \/ Leave(m)
    <3>1. /\ pc[m] \in {"open", "idle"} /\ outcome' = outcome
          /\ \E s \in {"idle", "gone"} : pc' = [pc EXCEPT ![m] = s]
      BY <2>3 DEF Open, Leave, Goto
    <3> QED
      BY <1>1, <1>4, <2>1, <2>2, <3>1, WorkerMoves
  <2>4. CASE Acquire(m)
    <3>1. /\ pc[m] = "acquire"
          /\ \/ /\ pc' = [pc EXCEPT ![m] = "release"]
                /\ outcome' = [outcome EXCEPT ![m] = "deferred"]
             \/ /\ pc' = [pc EXCEPT ![m] = "try"]
                /\ outcome' = outcome
      BY <2>4 DEF Acquire, StartSequence, FindClosed, Goto
    <3> QED
      BY <1>1, <1>4, <2>1, <2>2, <3>1, WorkerMoves DEF Outcome
  <2>5. CASE Try(m)
    <3>1. pc[m] = "try" /\ outcome' = outcome /\ pc' = [pc EXCEPT ![m] = "call"]
      BY <2>5, <1>1 DEF Try, Goto
    <3> QED
      BY <1>1, <1>4, <2>1, <2>2, <3>1, WorkerMoves
  <2>6. CASE Call(m)
    <3>1. /\ pc[m] = "call"
          /\ \/ /\ pc' = [pc EXCEPT ![m] = "release"]
                /\ \E o \in Outcome : outcome' = [outcome EXCEPT ![m] = o]
             \/ /\ pc' = [pc EXCEPT ![m] = "emit"]
                /\ outcome' = [outcome EXCEPT ![m] = "failed"]
      BY <2>6, <1>1 DEF Call, Outcomes, FindClosed, Goto, Outcome
    <3> QED
      BY <1>1, <1>4, <2>1, <3>1, WorkerMoves DEF Outcome
  <2>7. CASE ReleasePhone(m)
    <3>1. pc[m] = "release" /\ outcome' = outcome /\ pc' = [pc EXCEPT ![m] = "send"]
      BY <2>7 DEF ReleasePhone, Goto
    <3>2. outcome[m] \in Outcome
      BY <3>1 DEF Accounted, WorkersHold
    <3> QED
      BY <1>1, <1>4, <2>1, <2>2, <3>1, <3>2, WorkerMoves
  <2>8. ~Take(m) /\ ~AcquireCancelled(m) /\ ~Emit(m) /\ ~Send(m)
    <3>1. ~Take(m)
      BY <1>4 DEF Take, Accounted, BatchTypes
    <3>2. ~AcquireCancelled(m)
      BY <1>1 DEF AcquireCancelled
    <3>3. ~Emit(m) /\ ~Send(m)
      BY <1>1, <1>4 DEF Emit, Send, Accounted, BatchTypes
    <3> QED
      BY <3>1, <3>2, <3>3
  <2> QED
    BY <2>3, <2>4, <2>5, <2>6, <2>7, <2>8 DEF WorkerStep
<1>5. CASE Take(m)
  <2>1. PICK n \in queue : queue' = queue \ {n} /\ job' = [job EXCEPT ![m] = n]
    BY <1>5 DEF Take
  <2>2. /\ pc[m] = "idle" /\ pc' = [pc EXCEPT ![m] = "acquire"]
        /\ UNCHANGED <<outcome, results>> /\ n \in Node /\ job[m] = None
    BY <1>5 DEF Take, Goto, Accounted, BatchTypes, WorkersHold
  <2>3. BatchTypes'
    BY <1>2, <2>1, <2>2 DEF Accounted, BatchTypes, batchVars, mainVars, collectorVars
  <2>4. WorkersHold'
    BY <1>2, <2>1, <2>2 DEF Accounted, BatchTypes, WorkersHold, batchVars, ModemBatchAssumption
  <2>5. /\ \A x \in Node : AtWorker(x)' <=> AtWorker(x) \/ x = n
        /\ \A x \in Node : Sent(x)' <=> Sent(x)
    BY <2>1, <2>2 DEF AtWorker, Sent, Accounted, BatchTypes, ModemBatchAssumption
  <2>6. ~AtWorker(n)
    BY <2>1, <2>2 DEF Accounted, OnePlace
  <2>7. \A k, l \in Modem : job'[k] = job'[l] /\ job'[k] # None => k = l
    <3>1. \A k \in Modem : job'[k] = IF k = m THEN n ELSE job[k]
      BY <2>1 DEF Accounted, BatchTypes
    <3>2. \A k \in Modem : job[k] # n
      BY <2>6 DEF AtWorker
    <3> QED
      BY <3>1, <3>2 DEF Accounted, OnePlace
  <2>8. OnePlace' /\ DeferredFinal'
    BY <1>2, <2>1, <2>2, <2>5, <2>6, <2>7
       DEF Accounted, OnePlace, SentOnce, DeferredFinal, batchVars, mainVars, collectorVars
  <2>9. Outstanding' = Outstanding
    BY <2>1, <2>2, <2>5 DEF Outstanding
  <2>10. Tally'
    BY <1>2, <2>9 DEF Accounted, Tally, batchVars, mainVars, collectorVars
  <2> QED
    BY <1>3, <2>3, <2>4, <2>8, <2>10 DEF Accounted
<1>7. CASE Emit(m)
  <2> DEFINE r == [node |-> job[m], outcome |-> outcome[m], final |-> FALSE]
  <2>1. /\ pc[m] = "emit" /\ pc' = [pc EXCEPT ![m] = "try"]
        /\ results' = Append(results, r)
        /\ UNCHANGED <<queue, job, outcome>>
    BY <1>7, <1>1 DEF Emit, Goto
  <2>2. r \in Result /\ ~r.final /\ r.outcome # "deferred"
    BY <2>1 DEF Accounted, BatchTypes, WorkersHold, Result
  <2> HIDE DEF r
  <2>3. /\ results' \in Seq(Result)
        /\ \A i \in 1..Len(results') :
              results'[i] = r \/ \E k \in 1..Len(results) : results'[i] = results[k]
        /\ \A n \in Node : Sent(n)' <=> Sent(n)
        /\ SentOnce'
    BY <2>1, <2>2, AppendResult DEF Accounted, BatchTypes, OnePlace
  <2>4. BatchTypes'
    BY <1>2, <2>1, <2>3 DEF Accounted, BatchTypes, batchVars, mainVars, collectorVars
  <2>5. WorkersHold'
    BY <1>2, <2>1, <2>2, <2>3 DEF Accounted, BatchTypes, WorkersHold, batchVars
  <2>6. DeferredFinal'
    <3>1. \A k \in 1..Len(results) : results[k].outcome = "deferred" => results[k].final
      BY DEF Accounted, DeferredFinal
    <3>2. \A i \in 1..Len(results') : results'[i].outcome = "deferred" => results'[i].final
      BY <2>2, <2>3, <3>1, Zenon
    <3> QED
      BY <3>2 DEF DeferredFinal
  <2>7. OnePlace' /\ Tally'
    BY <1>2, <2>1, <2>3, NothingMoves DEF batchVars, mainVars, collectorVars
  <2> QED
    BY <1>3, <2>4, <2>5, <2>6, <2>7 DEF Accounted
<1>8. CASE Send(m)
  <2> DEFINE n == job[m]
             r == [node |-> n, outcome |-> outcome[m], final |-> TRUE]
  <2>1. /\ pc[m] = "send" /\ pc' = [pc EXCEPT ![m] = "idle"]
        /\ results' = Append(results, r)
        /\ job' = [job EXCEPT ![m] = None] /\ outcome' = [outcome EXCEPT ![m] = None]
        /\ UNCHANGED queue
    BY <1>8, <1>1 DEF Send, Goto
  <2>2. r \in Result /\ r.final /\ r.node = n /\ n \in Node /\ AtWorker(n)
    BY <2>1 DEF Accounted, BatchTypes, WorkersHold, Result, AtWorker
  <2> HIDE DEF r
  <2>3. ~Sent(n)
    BY <2>2 DEF Accounted, OnePlace
  <2>4. /\ results' \in Seq(Result)
        /\ \A i \in 1..Len(results') :
              results'[i] = r \/ \E k \in 1..Len(results) : results'[i] = results[k]
        /\ \A x \in Node : Sent(x)' <=> Sent(x) \/ x = n
        /\ SentOnce'
    BY <2>1, <2>2, <2>3, AppendResult DEF Accounted, BatchTypes, OnePlace
  <2>5. BatchTypes'
    BY <1>2, <2>1, <2>4 DEF Accounted, BatchTypes, batchVars, mainVars, collectorVars
  <2>6. WorkersHold' /\ DeferredFinal'
    <3>1. WorkersHold'
      BY <1>2, <2>1, <2>2, <2>4 DEF Accounted, BatchTypes, WorkersHold, batchVars
    <3>2. DeferredFinal'
      BY <2>2, <2>4 DEF Accounted, DeferredFinal
    <3> QED
      BY <3>1, <3>2
  <2>7. \A x \in Node : AtWorker(x)' <=> AtWorker(x) /\ x # n
    BY <2>1, <2>2 DEF AtWorker, Accounted, BatchTypes, OnePlace, ModemBatchAssumption
  <2>8. \A k, l \in Modem : job'[k] = job'[l] /\ job'[k] # None => k = l
    BY <2>1 DEF Accounted, OnePlace, BatchTypes
  <2>9. OnePlace'
    BY <1>2, <2>1, <2>2, <2>4, <2>7, <2>8
       DEF Accounted, OnePlace, batchVars, mainVars, collectorVars
  <2>10. Outstanding' = Outstanding
    BY <2>1, <2>2, <2>4, <2>7 DEF Outstanding
  <2>11. Tally'
    BY <1>2, <2>10 DEF Accounted, Tally, batchVars, mainVars, collectorVars
  <2> QED
    BY <1>3, <2>5, <2>6, <2>9, <2>11 DEF Accounted
<1>9. Open(m) \/ Leave(m) \/ Acquire(m) \/ Try(m) \/ Call(m) \/ ReleasePhone(m)
      => UNCHANGED <<queue, job, results>>
  BY DEF Open, Leave, Acquire, Try, Call, ReleasePhone
<1>10. ~AcquireCancelled(m)
  BY <1>1 DEF AcquireCancelled
<1> QED
  BY <1>4, <1>5, <1>7, <1>8, <1>9, <1>10 DEF WorkerStep

(* The collector takes a node's final result from the channel and counts it. *)
LEMMA CollectorKeepsBatch ==
    ASSUME ModemBatchAssumption, Accounted, CollectorStep
    PROVE  Accounted'
<1>1. CASE Receive
  <2> DEFINE r == Head(results)
  <2>1. /\ collector = "receive" /\ collector' = IF r.final THEN "count" ELSE "receive"
        /\ deferredNodes' = deferredNodes \cup {n \in {r.node} : r.outcome = "deferred"}
        /\ finals' = IF r.final /\ r.outcome # "deferred"
                     THEN [finals EXCEPT ![r.node] = @ + 1] ELSE finals
        /\ UNCHANGED <<main, toEmit, submitted, poolCtx, queue, pc, job, outcome, completed>>
    BY <1>1 DEF Receive, Counted, handlingVars, mainVars, workerVars
  <2>2. /\ r \in Result /\ results' \in Seq(Result)
        /\ \E k \in 1..Len(results) : r = results[k]
        /\ \A i \in 1..Len(results') : \E k \in 1..Len(results) : results'[i] = results[k]
        /\ r.final => Sent(r.node)
        /\ \A x \in Node : Sent(x)' <=> Sent(x) /\ ~(r.final /\ x = r.node)
        /\ SentOnce'
    BY <1>1, TakeResult DEF Receive, Accounted, BatchTypes, OnePlace
  <2> HIDE DEF r
  <2>3. r.node \in Node /\ r.final \in BOOLEAN /\ (r.outcome = "deferred" => r.final)
    BY <2>2 DEF Result, Accounted, DeferredFinal
  <2>4. r.final => finals[r.node] = 0
    BY <2>2, <2>3 DEF Accounted, OnePlace
  <2>5. BatchTypes'
    <3>1. deferredNodes' \subseteq Node
      BY <2>1, <2>3 DEF Accounted, BatchTypes
    <3>2. finals' \in [Node -> {0, 1}]
      BY <2>1, <2>3, <2>4 DEF Accounted, BatchTypes
    <3> QED
      BY <2>1, <2>2, <3>1, <3>2 DEF Accounted, BatchTypes
  <2>6. WorkersHold' /\ DeferredFinal'
    <3>1. WorkersHold'
      BY <2>1 DEF Accounted, WorkersHold
    <3>2. \A k \in 1..Len(results) : results[k].outcome = "deferred" => results[k].final
      BY DEF Accounted, DeferredFinal
    <3>3. \A i \in 1..Len(results') : results'[i].outcome = "deferred" => results'[i].final
      BY <2>2, <3>2, Zenon
    <3> QED
      BY <3>1, <3>3 DEF DeferredFinal
  <2>7. \A x \in Node : AtWorker(x)' <=> AtWorker(x)
    BY <2>1 DEF AtWorker
  <2>8. MainKnows'
    BY <2>1, <2>2, <2>3, <2>4, <2>5 DEF Accounted, MainKnows, BatchTypes
  <2>9. CASE ~r.final
    <3>1. OnePlace' /\ Tally'
      BY <2>1, <2>2, <2>3, <2>9, NothingMoves
    <3> QED
      BY <2>5, <2>6, <2>8, <3>1 DEF Accounted
  <2>10. CASE r.final
    <3>1. \A x \in Node :
            /\ x # r.node => finals'[x] = finals[x]
            /\ x # r.node => (x \in deferredNodes' <=> x \in deferredNodes)
            /\ x = r.node => (x \in deferredNodes' <=> r.outcome = "deferred")
            /\ x = r.node => finals'[x] = IF r.outcome = "deferred" THEN 0 ELSE 1
      <4>1. r.node \notin deferredNodes
        BY <2>2, <2>3, <2>10 DEF Accounted, OnePlace
      <4>2. finals \in [Node -> {0, 1}]
        BY DEF Accounted, BatchTypes
      <4> QED
        BY <2>1, <2>3, <2>4, <2>10, <4>1, <4>2
    <3>2. OnePlace'
      BY <2>1, <2>2, <2>3, <2>4, <2>7, <2>10, <3>1 DEF Accounted, OnePlace
    <3>3. Outstanding' = Outstanding \ {r.node} /\ r.node \in Outstanding
      BY <2>1, <2>2, <2>3, <2>4, <2>7, <2>10 DEF Outstanding, Accounted, OnePlace
    <3>4. Cardinality(Outstanding') = Cardinality(Outstanding) - 1
      BY <3>3, OutstandingFinite, FS_RemoveElement
    <3>5. Tally'
      BY <2>1, <2>10, <3>4, OutstandingFinite DEF Accounted, Tally, BatchTypes
    <3> QED
      BY <2>5, <2>6, <2>8, <3>2, <3>5 DEF Accounted
  <2> QED
    BY <2>3, <2>9, <2>10
<1>2. CASE Count
  <2>1. /\ collector = "count" /\ collector' = "signal" /\ completed' = completed + 1
        /\ UNCHANGED <<main, toEmit, submitted, poolCtx, queue, pc, job, outcome, results,
                       deferredNodes, finals>>
    BY <1>2 DEF Count, handlingVars, mainVars, workerVars
  <2>2. /\ \A x \in Node : AtWorker(x)' <=> AtWorker(x)
        /\ \A x \in Node : Sent(x)' <=> Sent(x)
    BY <2>1 DEF AtWorker, Sent
  <2>3. BatchTypes' /\ WorkersHold' /\ DeferredFinal' /\ MainKnows'
    BY <2>1 DEF Accounted, BatchTypes, WorkersHold, DeferredFinal, MainKnows
  <2>4. OnePlace'
    BY <2>1, <2>2 DEF Accounted, OnePlace, SentOnce
  <2>5. Outstanding' = Outstanding
    BY <2>1, <2>2 DEF Outstanding
  <2>6. Cardinality(Outstanding') = Cardinality(Outstanding)
    BY <2>5
  <2>7. submitted \in Nat /\ completed \in Nat /\ Cardinality(Outstanding) \in Nat
    BY OutstandingFinite DEF Accounted, BatchTypes
  <2>8. submitted = completed + Cardinality(Outstanding) + 1
    BY <2>1 DEF Accounted, Tally
  <2>9. Tally'
    <3>1. submitted' = completed' + Cardinality(Outstanding') + 0
      BY <2>1, <2>6, <2>7, <2>8
    <3>2. (IF collector = "count" THEN 1 ELSE 0)' = 0
      BY <2>1
    <3> QED
      BY <3>1, <3>2 DEF Tally
  <2> QED
    BY <2>3, <2>4, <2>9 DEF Accounted
<1>3. CASE SendSignal \/ EndCollect
  <2>1. /\ collector # "count" /\ collector' # "count"
        /\ UNCHANGED <<main, toEmit, submitted, poolCtx, queue, pc, job, outcome, results,
                       deferredNodes, finals, completed>>
    BY <1>3 DEF SendSignal, EndCollect, handlingVars, mainVars, workerVars
  <2>2. BatchTypes' /\ WorkersHold' /\ DeferredFinal' /\ MainKnows'
    BY <2>1 DEF Accounted, BatchTypes, WorkersHold, DeferredFinal, MainKnows
  <2>3. OnePlace' /\ Tally'
    BY <2>1, NothingMoves DEF Accounted, OnePlace, Sent, SentOnce
  <2> QED
    BY <2>2, <2>3 DEF Accounted
<1> QED
  BY <1>1, <1>2, <1>3 DEF CollectorStep

(* The batch.  It goes on to the deferred nodes only when the counts agree,   *)
(* and then nothing is outstanding.                                           *)
LEMMA MainKeepsBatch ==
    ASSUME ModemBatchAssumption, Accounted, ~ctx, MainStep
    PROVE  Accounted'
<1>1. ASSUME NEW n \in Node, Submit(n) PROVE Accounted'
  <2>1. /\ main = "submit" /\ n \in toEmit /\ toEmit' = toEmit \ {n}
        /\ queue' = queue \cup {n} /\ submitted' = submitted + 1
        /\ UNCHANGED <<main, poolCtx, pc, job, outcome, results, deferredNodes, finals,
                       collector, completed>>
    BY <1>1 DEF Submit, workerVars, collectorVars
  <2>2. /\ \A x \in Node : AtWorker(x)' <=> AtWorker(x)
        /\ \A x \in Node : Sent(x)' <=> Sent(x)
    BY <2>1 DEF AtWorker, Sent
  <2>3. BatchTypes' /\ WorkersHold' /\ DeferredFinal' /\ MainKnows'
    BY <2>1 DEF Accounted, BatchTypes, WorkersHold, DeferredFinal, MainKnows
  <2>4. OnePlace'
    BY <2>1, <2>2 DEF Accounted, OnePlace, SentOnce
  <2>5. n \notin Outstanding /\ Outstanding' = Outstanding \cup {n}
    BY <2>1, <2>2 DEF Outstanding, Accounted, OnePlace
  <2>6. Cardinality(Outstanding') = Cardinality(Outstanding) + 1
    BY <2>5, OutstandingFinite, FS_AddElement
  <2>7. Tally'
    BY <2>1, <2>6, OutstandingFinite DEF Accounted, Tally, BatchTypes
  <2> QED
    BY <2>3, <2>4, <2>7 DEF Accounted
<1>2. CASE Reschedule
  <2>1. /\ main = "redo" /\ main' = IF deferredNodes = {} THEN "stop" ELSE "submit"
        /\ toEmit' = deferredNodes /\ deferredNodes' = {}
        /\ UNCHANGED <<submitted, poolCtx, queue, pc, job, outcome, results, finals,
                       collector, completed>>
    BY <1>2 DEF Reschedule, workerVars, collectorVars
  <2>2. toEmit = {} /\ completed >= submitted
    BY <2>1 DEF Accounted, MainKnows
  <2>3. Cardinality(Outstanding) = 0
    BY <2>2, OutstandingFinite DEF Accounted, Tally, BatchTypes
  <2>4. Outstanding = {}
    BY <2>3, OutstandingFinite, FS_EmptySet
  <2>5. \A n \in Node : finals[n] = 0 <=> n \in deferredNodes
    BY <2>2, <2>4 DEF Outstanding, Accounted, OnePlace
  <2>6. /\ \A x \in Node : AtWorker(x)' <=> AtWorker(x)
        /\ \A x \in Node : Sent(x)' <=> Sent(x)
    BY <2>1 DEF AtWorker, Sent
  <2>7. OnePlace'
    BY <2>1, <2>2, <2>6 DEF Accounted, OnePlace, SentOnce
  <2>8. BatchTypes' /\ WorkersHold' /\ DeferredFinal'
    BY <2>1 DEF Accounted, BatchTypes, WorkersHold, DeferredFinal
  <2>9. MainKnows'
    BY <2>1, <2>5, <2>8 DEF MainKnows, BatchTypes
  <2>10. Outstanding' = Outstanding
    BY <2>1, <2>6 DEF Outstanding
  <2>11. Tally'
    BY <2>1, <2>10 DEF Accounted, Tally
  <2> QED
    BY <2>7, <2>8, <2>9, <2>11 DEF Accounted
<1>3. ASSUME UNCHANGED <<submitted, queue, pc, job, outcome, results, deferredNodes, finals,
                         collector, completed>>,
             toEmit' = toEmit, MainKnows',
             poolCtx' => poolCtx \/ \A m \in Modem : pc[m] = "gone"
      PROVE  Accounted'
  <2>1. BatchTypes' /\ WorkersHold' /\ DeferredFinal'
    BY <1>3 DEF Accounted, BatchTypes, WorkersHold, DeferredFinal
  <2>2. OnePlace' /\ Tally'
    BY <1>3, NothingMoves DEF Accounted, OnePlace, Sent, SentOnce
  <2> QED
    BY <1>3, <2>1, <2>2 DEF Accounted
<1>4. CASE Submitted \/ CheckCount \/ ReceiveSignal
  <2>1. MainKnows' /\ toEmit' = toEmit
    BY <1>4 DEF Submitted, CheckCount, ReceiveSignal, Accounted, MainKnows, collectorVars
  <2> QED
    BY <1>3, <1>4, <2>1 DEF Submitted, CheckCount, ReceiveSignal, workerVars, collectorVars
<1>5. CASE CloseQueue \/ CloseResults \/ Finish
  <2>1. MainKnows' /\ toEmit' = toEmit
    BY <1>5 DEF CloseQueue, CloseResults, Finish, Accounted, MainKnows, collectorVars
  <2> QED
    BY <1>3, <1>5, <2>1 DEF CloseQueue, CloseResults, Finish, workerVars, collectorVars
<1>6. ~SubmitCancelled /\ ~WaitCancelled
  BY DEF SubmitCancelled, WaitCancelled
<1> QED
  BY <1>1, <1>2, <1>4, <1>5, <1>6 DEF MainStep

LEMMA BatchInvStep ==
    ASSUME ModemBatchAssumption, BatchInv, [Next]_vars
    PROVE  BatchInv'
<1> SUFFICES ASSUME ~ctx' PROVE Accounted'
  BY DEF BatchInv
<1>1. ctx => ctx'
  <2>1. CASE MainStep
    BY <2>1 DEF MainStep, Submit, Submitted, SubmitCancelled, CheckCount, ReceiveSignal,
      WaitCancelled, Reschedule, CloseQueue, CloseResults, Finish
  <2>2. CASE CollectorStep
    BY <2>2 DEF CollectorStep, Receive, Count, SendSignal, EndCollect, handlingVars
  <2>3. ASSUME NEW m \in Modem, WorkerStep(m) PROVE ctx => ctx'
    BY <2>3 DEF WorkerStep, Open, Take, Leave, Acquire, AcquireCancelled, Try, Call, Emit,
      ReleasePhone, Send, batchVars
  <2>4. CASE Interrupt \/ CancelPool \/ UNCHANGED vars
    BY <2>4 DEF Interrupt, CancelPool, vars
  <2> QED
    BY <2>1, <2>2, <2>3, <2>4 DEF Next
<1>2. ~ctx /\ Accounted
  BY <1>1 DEF BatchInv
<1>3. CASE UNCHANGED vars
  <2>1. UNCHANGED <<main, toEmit, submitted, poolCtx, queue, pc, job, outcome, results,
                    deferredNodes, finals, collector, completed>>
    BY <1>3 DEF vars, mainVars, workerVars, collectorVars
  <2>2. BatchTypes' /\ WorkersHold' /\ DeferredFinal' /\ MainKnows'
    BY <1>2, <2>1 DEF Accounted, BatchTypes, WorkersHold, DeferredFinal, MainKnows
  <2>3. OnePlace' /\ Tally'
    BY <1>2, <2>1, NothingMoves DEF Accounted, OnePlace, Sent, SentOnce
  <2> QED
    BY <2>2, <2>3 DEF Accounted
<1>4. ~Interrupt /\ ~CancelPool
  BY <1>2 DEF Interrupt, CancelPool
<1> QED
  BY <1>2, <1>3, <1>4, MainKeepsBatch, CollectorKeepsBatch, WorkerKeepsBatch DEF Next

(* A batch that nobody interrupts ends with one final result of every node,   *)
(* however many windows closed and operators failed.                          *)
THEOREM NoneForgottenCorrect == Spec => []NoneForgotten
<1>1. Init => BatchInv
  BY BatchInvInit, ModemBatchAssumption
<1>2. BatchInv /\ [Next]_vars => BatchInv'
  BY BatchInvStep, ModemBatchAssumption
<1>3. BatchInv => NoneForgotten
  BY DEF BatchInv, Accounted, MainKnows, NoneForgotten
<1> QED
  BY <1>1, <1>2, <1>3, PTL DEF Spec

-----------------------------------------------------------------------------
(* An order of dialling: every listed operator, once each because there are   *)
(* as many.                                                                   *)
IsOrder(s) ==
    /\ s \in Seq(Operator) /\ Len(s) = Len(Operators)
    /\ \A i \in 1..Len(Operators) : \E k \in 1..Len(s) : s[k] = Operators[i]

Dialling == {"try", "call", "emit"}

(* A sequence in progress: its order, the operator it has come to, and what    *)
(* the cache says of its number, which nobody else changes.                    *)
SequenceAt(m) ==
    /\ IsOrder(order[m])
    /\ pos[m] \in 1..Len(Operators)
    /\ pc[m] = "emit" => pos[m] < Len(Operators)
    /\ cache[PhoneOf[job[m]]] \in {None, order[m][1]} \cup (Operator \ Listed)

SequenceInv ==
    /\ TypeOK /\ LockInv
    /\ \A m \in Modem : pc[m] \in {"emit", "release", "send"} => outcome[m] \in Outcome
    /\ \A m \in Modem : pc[m] \in Dialling => SequenceAt(m)

LEMMA ListAssumption ==
    ASSUME ModemBatchAssumption
    PROVE  /\ Len(Operators) \in Nat \ {0} /\ 1 \in 1..Len(Operators)
           /\ Operators \in Seq(Operator) /\ IsOrder(Operators)
           /\ \A i \in 1..Len(Operators) : Operators[i] \in Operator
           /\ Listed \subseteq Operator /\ None \notin Listed
           /\ None \notin Modem /\ None \notin Node /\ None \notin Operator
<1>1. /\ Len(Operators) \in Nat \ {0} /\ Operators \in Seq(Operator)
      /\ \A i \in 1..Len(Operators) : Operators[i] \in Operator
  BY DEF ModemBatchAssumption
<1>2. None \notin Modem /\ None \notin Node /\ None \notin Operator
  BY DEF ModemBatchAssumption
<1>3. Listed \subseteq Operator
  BY <1>1 DEF Listed
<1> QED
  BY <1>1, <1>2, <1>3 DEF IsOrder

(* Putting the cached operator first keeps all the others, and what the cache  *)
(* says is then the first of them.                                             *)
LEMMA CachedFirst ==
    ASSUME ModemBatchAssumption, NEW c \in Operator \cup {None}
    PROVE  /\ IsOrder(ReorderOperatorsWithCached(c))
           /\ c \in {None, ReorderOperatorsWithCached(c)[1]} \cup (Operator \ Listed)
<1> USE ListAssumption
<1>1. CASE c \notin Listed
  BY <1>1 DEF ReorderOperatorsWithCached
<1>2. CASE c \in Listed
  <2> DEFINE idx == CHOOSE i \in 1..Len(Operators) : Operators[i] = c
             r == [i \in 1..Len(Operators) |->
                      IF i = 1 THEN c ELSE Operators[IF i <= idx THEN i - 1 ELSE i]]
  <2>1. idx \in 1..Len(Operators) /\ Operators[idx] = c
    BY <1>2 DEF Listed
  <2>2. ReorderOperatorsWithCached(c) = r
    BY <1>2 DEF ReorderOperatorsWithCached
  <2> HIDE DEF idx
  <2>3. \A i \in 1..Len(Operators) : r[i] \in Operator
    BY <1>2, <2>1
  <2>4. r \in Seq(Operator) /\ Len(r) = Len(Operators) /\ r[1] = c
    BY <2>3
  <2>5. ASSUME NEW i \in 1..Len(Operators)
        PROVE  \E k \in 1..Len(r) : r[k] = Operators[i]
    <3>1. CASE i = idx
      BY <3>1, <2>1, <2>4
    <3>2. CASE i < idx
      <4>1. i + 1 \in 1..Len(Operators) /\ i + 1 # 1 /\ i + 1 <= idx
        BY <3>2, <2>1
      <4>2. r[i + 1] = Operators[i]
        BY <4>1
      <4> QED
        BY <4>1, <4>2, <2>4
    <3>3. CASE i > idx
      <4>1. i # 1 /\ ~(i <= idx)
        BY <3>3, <2>1
      <4>2. r[i] = Operators[i]
        BY <4>1
      <4> QED
        BY <4>2, <2>4
    <3> QED
      BY <2>1, <3>1, <3>2, <3>3
  <2>6. IsOrder(r)
    BY <2>4, <2>5 DEF IsOrder
  <2> QED
    BY <2>2, <2>4, <2>6
<1> QED
  BY <1>1, <1>2

LEMMA CapAssumption ==
    ASSUME ModemBatchAssumption
    PROVE  /\ QueueCap \in Nat \ {0} /\ ResultsCap \in Nat /\ MaxClosings \in Nat
           /\ \A S \in SUBSET Node : IsFiniteSet(S) /\ Cardinality(S) \in Nat
<1>1. QueueCap \in Nat \ {0} /\ MaxClosings \in Nat /\ IsFiniteSet(Modem) /\ IsFiniteSet(Node)
  BY DEF ModemBatchAssumption
<1>2. Cardinality(Modem) \in Nat
  BY <1>1, FS_CardinalityType
<1>3. \A S \in SUBSET Node : IsFiniteSet(S)
  BY <1>1, FS_Subset
<1>4. \A S \in SUBSET Node : Cardinality(S) \in Nat
  BY <1>3, FS_CardinalityType
<1> QED
  BY <1>1, <1>2, <1>3, <1>4 DEF ResultsCap

LEMMA SequenceInit == ModemBatchAssumption /\ Init => SequenceInv
<1> SUFFICES ASSUME ModemBatchAssumption, Init PROVE SequenceInv
  OBVIOUS
<1>1. LockInv
  BY InitHasTable
<1>2. Cardinality({}) = 0
  BY FS_EmptySet
<1>3. /\ ctx \in BOOLEAN /\ poolCtx \in BOOLEAN /\ queueClosed \in BOOLEAN
      /\ resultsClosed \in BOOLEAN /\ signal \in BOOLEAN
  BY Zenon DEF Init
<1>4. /\ toEmit \in SUBSET Node /\ queue = {} /\ results = <<>> /\ submitted = 0
      /\ completed = 0 /\ deferredNodes = {} /\ closings = 0
      /\ main = "submit" /\ collector = "receive"
      /\ pc = [m \in Modem |-> "open"] /\ job = [m \in Modem |-> None]
      /\ order = [m \in Modem |-> <<>>] /\ pos = [m \in Modem |-> 0]
      /\ outcome = [m \in Modem |-> None] /\ inUse = [p \in Phone |-> None]
      /\ cache \in [Phone -> Operator \cup {None}]
      /\ finals = [n \in Node |-> 0]
  BY DEF Init
<1>5. TypeOK
  BY <1>2, <1>3, <1>4, CapAssumption DEF TypeOK, WorkerState
<1> QED
  BY <1>1, <1>4, <1>5 DEF SequenceInv, Dialling

(* Steps of the batch and the collector leave the workers alone. *)
LEMMA OthersKeepSequence ==
    ASSUME ModemBatchAssumption, SequenceInv, LockInv', TypeOK',
           UNCHANGED <<pc, job, order, pos, outcome, cache>>
    PROVE  SequenceInv'
  BY DEF SequenceInv, SequenceAt, IsOrder

LEMMA BatchTyped ==
    ASSUME ModemBatchAssumption, TypeOK,
           MainStep \/ CollectorStep \/ Interrupt \/ CancelPool \/ UNCHANGED vars
    PROVE  TypeOK' /\ UNCHANGED <<pc, job, order, pos, outcome, cache>>
<1> USE CapAssumption
<1>1. ASSUME NEW n \in Node, Submit(n) PROVE TypeOK' /\ UNCHANGED <<workerVars, cache>>
  <2>1. queue' \in SUBSET Node /\ Cardinality(queue') <= QueueCap
    <3>1. /\ queue \in SUBSET Node /\ IsFiniteSet(queue) /\ Cardinality(queue) \in Nat
          /\ queue' = queue \cup {n} /\ Cardinality(queue) < QueueCap
      BY <1>1 DEF Submit, TypeOK
    <3>2. Cardinality(queue \cup {n}) = IF n \in queue THEN Cardinality(queue)
                                        ELSE Cardinality(queue) + 1
      BY <3>1, FS_AddElement
    <3>3. Cardinality(queue') <= Cardinality(queue) + 1
      BY <3>1, <3>2
    <3>4. QueueCap \in Nat
      BY CapAssumption
    <3>5. queue' \in SUBSET Node /\ Cardinality(queue') \in Nat
      BY <3>1, <3>2
    <3> QED
      BY <3>1, <3>3, <3>4, <3>5
  <2> QED
    BY <1>1, <2>1 DEF Submit, TypeOK, workerVars, collectorVars
<1>2. CASE Submitted \/ SubmitCancelled \/ CheckCount \/ ReceiveSignal \/ WaitCancelled
  BY <1>2 DEF Submitted, SubmitCancelled, CheckCount, ReceiveSignal, WaitCancelled, TypeOK,
     workerVars, collectorVars
<1>3. CASE Reschedule \/ CloseQueue \/ CloseResults \/ Finish
  BY <1>3 DEF Reschedule, CloseQueue, CloseResults, Finish, TypeOK, workerVars, collectorVars
<1>4. CASE Interrupt \/ CancelPool \/ UNCHANGED vars
  <2>1. ctx' \in BOOLEAN /\ poolCtx' \in BOOLEAN
    <3>1. ctx' = ctx \/ ctx' = TRUE
      BY <1>4 DEF Interrupt, CancelPool, vars
    <3>2. poolCtx' = poolCtx \/ poolCtx' = TRUE
      BY <1>4 DEF Interrupt, CancelPool, vars
    <3>3. ctx \in BOOLEAN /\ poolCtx \in BOOLEAN
      BY DEF TypeOK
    <3> QED
      BY <3>1, <3>2, <3>3, Zenon
  <2>2. UNCHANGED <<mainVars, queue, queueClosed, workerVars, inUse, cache, results,
                    resultsClosed, collectorVars, signal, deferredNodes, closings>>
    BY <1>4 DEF Interrupt, CancelPool, vars
  <2> QED
    BY <2>1, <2>2 DEF TypeOK, mainVars, workerVars, collectorVars
<1>5. CASE Receive
  <2> DEFINE r == Head(results)
  <2>1. r \in Result /\ results' \in Seq(Result) /\ Len(results') <= ResultsCap
    BY <1>5 DEF Receive, TypeOK
  <2>2. r.node \in Node
    BY <2>1 DEF Result
  <2> HIDE DEF r
  <2>3. deferredNodes' \in SUBSET Node
    <3>1. deferredNodes' = deferredNodes \cup {n \in {r.node} : r.outcome = "deferred"}
      BY <1>5 DEF Receive, r
    <3> QED
      BY <2>2, <3>1 DEF TypeOK
  <2>4. finals' \in [Node -> Nat]
    <3>1. finals' = finals \/ finals' = [finals EXCEPT ![r.node] = @ + 1]
      BY <1>5 DEF Receive, r
    <3> QED
      BY <2>2, <3>1 DEF TypeOK
  <2>5. collector' \in {"receive", "count", "signal", "done"}
    BY <1>5 DEF Receive
  <2> QED
    BY <1>5, <2>1, <2>3, <2>4, <2>5
       DEF Receive, TypeOK, handlingVars, mainVars, workerVars
<1>6. CASE Count \/ SendSignal \/ EndCollect
  <2>1. signal' \in BOOLEAN
    <3>1. (signal' = signal \/ signal' = TRUE) /\ signal \in BOOLEAN
      BY <1>6 DEF Count, SendSignal, EndCollect, TypeOK
    <3> QED
      BY <3>1, Zenon
  <2>2. /\ UNCHANGED <<handlingVars, finals, results, deferredNodes>>
        /\ completed' \in Nat
        /\ collector' \in {"receive", "count", "signal", "done"}
    BY <1>6 DEF Count, SendSignal, EndCollect, TypeOK
  <2> QED
    BY <2>1, <2>2 DEF TypeOK, handlingVars, mainVars, workerVars
<1> QED
  BY <1>1, <1>2, <1>3, <1>4, <1>5, <1>6 DEF MainStep, CollectorStep, workerVars

(* A worker's steps are typed; each changes what belongs to the worker, and    *)
(* the cache entry of a number only in a call to it.                           *)
LEMMA WorkerTyped ==
    ASSUME ModemBatchAssumption, SequenceInv, NEW m \in Modem, WorkerStep(m)
    PROVE  TypeOK'
<1> USE CapAssumption, ListAssumption DEF WorkerState
<1>1. UNCHANGED batchVars
  BY DEF WorkerStep, Open, Take, Leave, Acquire, AcquireCancelled, Try, Call, Emit,
         ReleasePhone, Send
<1>2. TypeOK /\ LockInv
  BY DEF SequenceInv
<1>3. pc[m] \in Busy => job[m] \in Node /\ PhoneOf[job[m]] \in Phone
  BY <1>2 DEF LockInv, TableNamesHolder, ModemBatchAssumption
<1>4. ASSUME /\ queue' \in SUBSET Node /\ Cardinality(queue') <= QueueCap
             /\ pc' \in [Modem -> WorkerState]
             /\ job' \in [Modem -> Node \cup {None}]
             /\ order' \in [Modem -> Seq(Operator)]
             /\ pos' \in [Modem -> Nat]
             /\ outcome' \in [Modem -> Outcome \cup {None}]
             /\ inUse' \in [Phone -> Modem \cup {None}]
             /\ cache' \in [Phone -> Operator \cup {None}]
             /\ results' \in Seq(Result) /\ Len(results') <= ResultsCap
             /\ closings' \in 0..MaxClosings
      PROVE  TypeOK'
  BY <1>1, <1>2, <1>4 DEF TypeOK, batchVars, mainVars, collectorVars
<1>5. CASE Open(m) \/ Leave(m)
  BY <1>2, <1>4, <1>5 DEF Open, Leave, Goto, TypeOK
<1>6. CASE Take(m)
  <2>1. PICK n \in queue : queue' = queue \ {n} /\ job' = [job EXCEPT ![m] = n]
    BY <1>6 DEF Take
  <2>2. queue' \in SUBSET Node /\ Cardinality(queue') <= QueueCap
    <3>1. IsFiniteSet(queue) /\ Cardinality(queue) <= QueueCap /\ queue \in SUBSET Node
      BY <1>2 DEF TypeOK
    <3>2. Cardinality(queue') = Cardinality(queue) - 1
      BY <2>1, <3>1, FS_RemoveElement
    <3> QED
      BY <2>1, <3>1, <3>2
  <2>3. job' \in [Modem -> Node \cup {None}]
    BY <1>2, <2>1 DEF TypeOK
  <2> QED
    BY <1>2, <1>4, <1>6, <2>2, <2>3 DEF Take, Goto, TypeOK
<1>7. CASE Acquire(m)
  <2>1. job[m] \in Node /\ PhoneOf[job[m]] \in Phone
    BY <1>3, <1>7 DEF Acquire, Busy
  <2>2. order' \in [Modem -> Seq(Operator)]
    <3>1. cache[PhoneOf[job[m]]] \in Operator \cup {None}
      BY <1>2, <2>1 DEF TypeOK
    <3>2. ReorderOperatorsWithCached(cache[PhoneOf[job[m]]]) \in Seq(Operator)
      BY <3>1, CachedFirst DEF IsOrder
    <3> QED
      BY <1>2, <1>7, <3>2 DEF Acquire, StartSequence, TypeOK
  <2>3. pos' \in [Modem -> Nat]
    BY <1>2, <1>7 DEF Acquire, StartSequence, TypeOK
  <2>5. /\ outcome' \in [Modem -> Outcome \cup {None}]
        /\ pc' \in [Modem -> WorkerState]
        /\ closings' \in 0..MaxClosings
    <3>1. \/ /\ pc' = [pc EXCEPT ![m] = "release"]
             /\ outcome' = [outcome EXCEPT ![m] = "deferred"]
             /\ closings < MaxClosings /\ closings' = closings + 1
          \/ pc' = [pc EXCEPT ![m] = "try"] /\ outcome' = outcome /\ closings' = closings
      BY <1>7 DEF Acquire, StartSequence, FindClosed, Goto
    <3>2. /\ outcome \in [Modem -> Outcome \cup {None}] /\ pc \in [Modem -> WorkerState]
          /\ closings \in 0..MaxClosings
      BY <1>2 DEF TypeOK
    <3> QED
      BY <3>1, <3>2 DEF Outcome
  <2>4. inUse' \in [Phone -> Modem \cup {None}]
    BY <1>2, <1>7 DEF Acquire, TypeOK
  <2> QED
    BY <1>2, <1>4, <1>7, <2>2, <2>3, <2>4, <2>5 DEF Acquire, TypeOK
<1>8. CASE AcquireCancelled(m)
  BY <1>2, <1>4, <1>8 DEF AcquireCancelled, Goto, TypeOK
<1>9. CASE Try(m)
  <2>1. pc' \in [Modem -> WorkerState] /\ outcome' \in [Modem -> Outcome \cup {None}]
    BY <1>2, <1>9 DEF Try, Goto, TypeOK, Outcome
  <2> QED
    BY <1>2, <1>4, <1>9, <2>1 DEF Try, TypeOK
<1>10. CASE Call(m)
  <2>1. pc[m] = "call" /\ SequenceAt(m)
    BY <1>10 DEF Call, SequenceInv, Dialling
  <2>2. order[m][pos[m]] \in Operator
    <3>1. order[m] \in Seq(Operator) /\ pos[m] \in 1..Len(order[m])
      BY <2>1 DEF SequenceAt, IsOrder
    <3> QED
      BY <3>1
  <2>3. cache' \in [Phone -> Operator \cup {None}]
    BY <1>2, <1>10, <2>2 DEF Call, TypeOK
  <2>4. /\ outcome' \in [Modem -> Outcome \cup {None}]
        /\ pc' \in [Modem -> WorkerState]
        /\ closings' \in 0..MaxClosings
    <3>1. \E o \in Outcome : outcome' = [outcome EXCEPT ![m] = o]
      BY <1>10 DEF Call, FindClosed, Outcomes, Outcome
    <3>2. pc' = [pc EXCEPT ![m] = "release"] \/ pc' = [pc EXCEPT ![m] = "emit"]
      BY <1>10 DEF Call, FindClosed, Goto
    <3>3. closings' = closings \/ (closings < MaxClosings /\ closings' = closings + 1)
      BY <1>10 DEF Call, FindClosed
    <3>4. /\ outcome \in [Modem -> Outcome \cup {None}] /\ pc \in [Modem -> WorkerState]
          /\ closings \in 0..MaxClosings
      BY <1>2 DEF TypeOK
    <3> QED
      BY <3>1, <3>2, <3>3, <3>4
  <2> QED
    BY <1>2, <1>4, <1>10, <2>3, <2>4 DEF Call, TypeOK
<1>11. CASE Emit(m)
  <2>1. job[m] \in Node /\ outcome[m] \in Outcome
    BY <1>3, <1>11 DEF Emit, Busy, Holding, SequenceInv
  <2>2. results' \in Seq(Result) /\ Len(results') <= ResultsCap
    <3> DEFINE r == [node |-> job[m], outcome |-> outcome[m], final |-> FALSE]
    <3>1. r \in Result
      BY <2>1 DEF Result
    <3>2. results' = results \/ (Len(results) < ResultsCap /\ results' = Append(results, r))
      BY <1>11 DEF Emit, Room
    <3>3. results \in Seq(Result) /\ Len(results) <= ResultsCap
      BY <1>2 DEF TypeOK
    <3> HIDE DEF r
    <3>4. CASE results' = results
      BY <3>3, <3>4
    <3>5. CASE Len(results) < ResultsCap /\ results' = Append(results, r)
      <4>1. /\ results' \in Seq(Result) /\ Len(results') = Len(results) + 1
            /\ Len(results) \in Nat
        BY <3>1, <3>3, <3>5
      <4> QED
        BY <3>5, <4>1, CapAssumption
    <3> QED
      BY <3>2, <3>4, <3>5
  <2>3. pos' \in [Modem -> Nat] /\ pc' \in [Modem -> WorkerState]
    BY <1>2, <1>11 DEF Emit, Goto, TypeOK
  <2> QED
    BY <1>2, <1>4, <1>11, <2>2, <2>3 DEF Emit, TypeOK
<1>12. CASE ReleasePhone(m)
  <2>1. /\ order' \in [Modem -> Seq(Operator)] /\ pos' \in [Modem -> Nat]
        /\ pc' \in [Modem -> WorkerState]
    BY <1>2, <1>12 DEF ReleasePhone, Goto, TypeOK
  <2>2. inUse' \in [Phone -> Modem \cup {None}]
    BY <1>2, <1>12 DEF ReleasePhone, TypeOK
  <2> QED
    BY <1>2, <1>4, <1>12, <2>1, <2>2 DEF ReleasePhone, TypeOK
<1>13. CASE Send(m)
  <2>1. job[m] \in Node /\ outcome[m] \in Outcome
    BY <1>3, <1>13 DEF Send, Busy, SequenceInv
  <2>2. results' \in Seq(Result) /\ Len(results') <= ResultsCap
    <3> DEFINE r == [node |-> job[m], outcome |-> outcome[m], final |-> TRUE]
    <3>1. r \in Result
      BY <2>1 DEF Result
    <3>2. results' = results \/ (Len(results) < ResultsCap /\ results' = Append(results, r))
      BY <1>13 DEF Send, Room
    <3>3. results \in Seq(Result) /\ Len(results) <= ResultsCap
      BY <1>2 DEF TypeOK
    <3> HIDE DEF r
    <3>4. CASE results' = results
      BY <3>3, <3>4
    <3>5. CASE Len(results) < ResultsCap /\ results' = Append(results, r)
      <4>1. /\ results' \in Seq(Result) /\ Len(results') = Len(results) + 1
            /\ Len(results) \in Nat
        BY <3>1, <3>3, <3>5
      <4> QED
        BY <3>5, <4>1, CapAssumption
    <3> QED
      BY <3>2, <3>4, <3>5
  <2>3. /\ job' \in [Modem -> Node \cup {None}] /\ pc' \in [Modem -> WorkerState]
        /\ outcome' \in [Modem -> Outcome \cup {None}]
    BY <1>2, <1>13 DEF Send, Goto, TypeOK
  <2> QED
    BY <1>2, <1>4, <1>13, <2>2, <2>3 DEF Send, TypeOK
<1> QED
  BY <1>5, <1>6, <1>7, <1>8, <1>9, <1>10, <1>11, <1>12, <1>13 DEF WorkerStep

(* What a worker's step leaves to the others. *)
LEMMA WorkerAlone ==
    ASSUME ModemBatchAssumption, SequenceInv, NEW m \in Modem, WorkerStep(m),
           NEW k \in Modem, k # m
    PROVE  /\ pc'[k] = pc[k] /\ job'[k] = job[k] /\ order'[k] = order[k]
           /\ pos'[k] = pos[k] /\ outcome'[k] = outcome[k]
           /\ pc[k] \in Holding => cache'[PhoneOf[job[k]]] = cache[PhoneOf[job[k]]]
<1>1. TypeOK /\ LockInv /\ OneCallPerPhone
  BY TableExcludes DEF SequenceInv
<1>2. /\ pc'[k] = pc[k] /\ job'[k] = job[k] /\ order'[k] = order[k]
      /\ pos'[k] = pos[k] /\ outcome'[k] = outcome[k]
  <2> USE <1>1 DEF TypeOK, Goto
  <2>1. CASE Open(m) \/ Take(m) \/ Leave(m)
    BY <2>1 DEF Open, Take, Leave
  <2>2. CASE Acquire(m)
    BY <2>2 DEF Acquire, StartSequence, FindClosed
  <2>3. CASE AcquireCancelled(m) \/ Try(m)
    BY <2>3 DEF AcquireCancelled, Try
  <2>4. CASE Call(m)
    BY <2>4 DEF Call, FindClosed
  <2>5. CASE Emit(m)
    BY <2>5 DEF Emit
  <2>6. CASE ReleasePhone(m) \/ Send(m)
    BY <2>6 DEF ReleasePhone, Send
  <2> QED
    BY <2>1, <2>2, <2>3, <2>4, <2>5, <2>6 DEF WorkerStep
<1>3. ASSUME pc[k] \in Holding
      PROVE  cache'[PhoneOf[job[k]]] = cache[PhoneOf[job[k]]]
  <2>1. CASE Call(m)
    <3>1. pc[m] \in Holding
      BY <2>1 DEF Call, Holding
    <3>2. PhoneOf[job[m]] # PhoneOf[job[k]]
      BY <1>1, <1>3, <3>1 DEF OneCallPerPhone
    <3>3. \/ cache' = cache
          \/ \E c : cache' = [cache EXCEPT ![PhoneOf[job[m]]] = c]
      BY <2>1 DEF Call
    <3>4. PhoneOf[job[k]] \in Phone
      <4>1. job[k] \in Node
        BY <1>1, <1>3 DEF LockInv, TableNamesHolder, Holding, Busy
      <4> QED
        BY <4>1, ModemBatchAssumption DEF ModemBatchAssumption
    <3>5. CASE cache' = cache
      BY <3>5
    <3>6. CASE \E c : cache' = [cache EXCEPT ![PhoneOf[job[m]]] = c]
      <4>1. PICK c : cache' = [cache EXCEPT ![PhoneOf[job[m]]] = c]
        BY <3>6
      <4>2. cache \in [Phone -> Operator \cup {None}]
        BY <1>1 DEF TypeOK
      <4> QED
        BY <3>2, <3>4, <4>1, <4>2
    <3> QED
      BY <3>3, <3>5, <3>6
  <2>2. CASE ~Call(m)
    <3>1. cache' = cache
      BY <2>2 DEF WorkerStep, Open, Take, Leave, Acquire, AcquireCancelled, Try, Emit,
         ReleasePhone, Send
    <3> QED
      BY <3>1
  <2> QED
    BY <2>1, <2>2
<1> QED
  BY <1>2, <1>3

(* The worker's own sequence. *)
LEMMA WorkerOwn ==
    ASSUME ModemBatchAssumption, SequenceInv, NEW m \in Modem, WorkerStep(m)
    PROVE  /\ pc'[m] \in {"emit", "release", "send"} => outcome'[m] \in Outcome
           /\ pc'[m] \in Dialling => SequenceAt(m)'
<1> USE ListAssumption
<1>1. /\ TypeOK /\ LockInv
      /\ pc[m] \in {"emit", "release", "send"} => outcome[m] \in Outcome
      /\ pc[m] \in Dialling => SequenceAt(m)
  BY DEF SequenceInv
<1>2. pc[m] \in Busy => job[m] \in Node /\ PhoneOf[job[m]] \in Phone
  BY <1>1 DEF LockInv, TableNamesHolder, ModemBatchAssumption
<1>3. CASE Open(m) \/ Take(m) \/ Leave(m)
  BY <1>1, <1>3 DEF Open, Take, Leave, Goto, TypeOK, Dialling
<1>4. CASE Acquire(m)
  <2> DEFINE c == cache[PhoneOf[job[m]]]
  <2>1. pc[m] = "acquire" /\ PhoneOf[job[m]] \in Phone
    BY <1>2, <1>4 DEF Acquire, Busy
  <2>2. c \in Operator \cup {None}
    BY <1>1, <2>1 DEF TypeOK
  <2>3. /\ order'[m] = ReorderOperatorsWithCached(c) /\ pos'[m] = 1
        /\ cache' = cache /\ job' = job
        /\ \/ pc'[m] = "release" /\ outcome'[m] = "deferred"
           \/ pc'[m] = "try"
    BY <1>1, <1>4 DEF Acquire, StartSequence, FindClosed, Goto, TypeOK
  <2>4. SequenceAt(m)' \/ pc'[m] = "release"
    BY <2>2, <2>3, CachedFirst DEF SequenceAt
  <2> QED
    BY <2>3, <2>4 DEF Outcome, Dialling
<1>5. CASE AcquireCancelled(m)
  BY <1>1, <1>5 DEF AcquireCancelled, Goto, TypeOK, Dialling
<1>6. CASE Try(m)
  <2>1. /\ pc[m] = "try" /\ UNCHANGED <<job, order, pos, cache>>
        /\ \/ pc'[m] = "release" /\ outcome'[m] = "cancelled"
           \/ pc'[m] = "call"
    BY <1>1, <1>6 DEF Try, Goto, TypeOK
  <2>2. SequenceAt(m)
    BY <1>1, <2>1 DEF Dialling
  <2> QED
    BY <2>1, <2>2 DEF Outcome, Dialling, SequenceAt
<1>7. CASE Call(m)
  <2>1. /\ pc[m] = "call" /\ UNCHANGED <<job, order, pos>>
        /\ \/ pc'[m] = "release" /\ outcome'[m] \in Outcome
           \/ pc'[m] = "emit" /\ outcome'[m] \in Outcome /\ ~Last(m) /\ cache' = cache
    BY <1>1, <1>7 DEF Call, FindClosed, Outcomes, Goto, TypeOK, Outcome
  <2>2. SequenceAt(m)
    BY <1>1, <2>1 DEF Dialling
  <2>3. ~Last(m) => pos[m] < Len(Operators)
    BY <2>2 DEF Last, SequenceAt, IsOrder
  <2> QED
    BY <2>1, <2>2, <2>3 DEF Dialling, SequenceAt
<1>8. CASE Emit(m)
  <2>1. /\ pc[m] = "emit" /\ pc'[m] = "try" /\ pos'[m] = pos[m] + 1
        /\ UNCHANGED <<job, order, cache>>
    BY <1>1, <1>8 DEF Emit, Goto, TypeOK
  <2>2. SequenceAt(m)
    BY <1>1, <2>1 DEF Dialling
  <2>3. pos'[m] \in 1..Len(Operators)
    BY <2>1, <2>2 DEF SequenceAt
  <2> QED
    BY <2>1, <2>2, <2>3 DEF Dialling, SequenceAt
<1>9. CASE ReleasePhone(m)
  <2>1. pc[m] = "release" /\ pc'[m] = "send" /\ outcome' = outcome
    BY <1>1, <1>9 DEF ReleasePhone, Goto, TypeOK
  <2> QED
    BY <1>1, <2>1 DEF Dialling
<1>10. CASE Send(m)
  <2>1. pc'[m] \in {"idle", "gone"}
    BY <1>1, <1>10 DEF Send, Goto, TypeOK
  <2> QED
    BY <2>1 DEF Dialling
<1> QED
  BY <1>3, <1>4, <1>5, <1>6, <1>7, <1>8, <1>9, <1>10 DEF WorkerStep

LEMMA SequenceStep ==
    ASSUME ModemBatchAssumption, SequenceInv, [Next]_vars
    PROVE  SequenceInv'
<1>1. LockInv'
  BY NextKeepsTable DEF SequenceInv
<1>2. CASE \E m \in Modem : WorkerStep(m)
  <2>1. PICK m \in Modem : WorkerStep(m)
    BY <1>2
  <2>2. TypeOK'
    BY <2>1, WorkerTyped
  <2>3. ASSUME NEW k \in Modem
        PROVE  /\ pc'[k] \in {"emit", "release", "send"} => outcome'[k] \in Outcome
               /\ pc'[k] \in Dialling => SequenceAt(k)'
    <3>1. CASE k = m
      BY <2>1, <3>1, WorkerOwn
    <3>2. CASE k # m
      <4>1. /\ pc'[k] = pc[k] /\ job'[k] = job[k] /\ order'[k] = order[k]
            /\ pos'[k] = pos[k] /\ outcome'[k] = outcome[k]
            /\ pc[k] \in Holding => cache'[PhoneOf[job[k]]] = cache[PhoneOf[job[k]]]
        BY <2>1, <3>2, WorkerAlone
      <4>2. /\ pc[k] \in {"emit", "release", "send"} => outcome[k] \in Outcome
            /\ pc[k] \in Dialling => SequenceAt(k)
        BY DEF SequenceInv
      <4>3. pc[k] \in Dialling => pc[k] \in Holding
        BY DEF Dialling, Holding
      <4> QED
        BY <4>1, <4>2, <4>3 DEF SequenceAt
    <3> QED
      BY <3>1, <3>2
  <2> QED
    BY <1>1, <2>2, <2>3 DEF SequenceInv
<1>3. CASE MainStep \/ CollectorStep \/ Interrupt \/ CancelPool \/ UNCHANGED vars
  <2>1. TypeOK' /\ UNCHANGED <<pc, job, order, pos, outcome, cache>>
    BY <1>3, BatchTyped DEF SequenceInv
  <2> QED
    BY <1>1, <2>1, OthersKeepSequence
<1> QED
  BY <1>2, <1>3 DEF Next

(* The failover sequence: every listed operator once, the cached one first,    *)
(* and no other worker's result gets in between; with the types.               *)
THEOREM SequenceCorrect == Spec => []SequenceSound
<1>1. Init => SequenceInv
  BY SequenceInit, ModemBatchAssumption
<1>2. SequenceInv /\ [Next]_vars => SequenceInv'
  BY SequenceStep, ModemBatchAssumption
<1>3. SequenceInv => SequenceSound
  BY DEF SequenceInv, SequenceAt, IsOrder, SequenceSound, Dialling
<1> QED
  BY <1>1, <1>2, <1>3, PTL DEF Spec
=============================================================================
