------------------------- MODULE NodeTesting_proofs --------------------------
(***************************************************************************)
(* Theorems about how the nodes are tested: about the worker pool, for     *)
(* every number of workers, jobs and callers of Stop, about the test of    *)
(* one node, for every number of hostnames and of addresses, about the     *)
(* clients of the protocols, whatever the peer sends and however it is     *)
(* cut, and about the hours of the calls by modem, for any flags.          *)
(***************************************************************************)
EXTENDS WorkerPool, NodeTest, TesterCalls, FiniteSetTheorems, SequenceTheorems, WellFoundedInduction, TLAPS

-----------------------------------------------------------------------------
(* The worker pool. *)

PoolTypes ==
    /\ queueClosed \in BOOLEAN /\ stopChan \in BOOLEAN
    /\ pc \in [Worker -> {"select", "run", "exited"}]
    /\ submit \in [Job -> {"new", "blocked", "accepted", "refused", "panic"}]
    /\ stop \in [Stopper -> {"new", "once", "closing", "returned"}]

(* No Submit waits once the stop channel is closed, the channel of jobs is    *)
(* closed after it, and a Stop that has got that far left no worker behind.   *)
StopInv ==
    /\ PoolTypes
    /\ StopIsFinal
    /\ (\E s \in Stopper : stop[s] \in {"closing", "returned"}) => stopChan
    /\ queueClosed => stopChan
    /\ stopChan => \A j \in Job : submit[j] # "blocked"

LEMMA StopInvInit == Init => StopInv
<1> SUFFICES ASSUME Init PROVE StopInv
  OBVIOUS
<1>1. queueClosed \in BOOLEAN /\ stopChan \in BOOLEAN
  BY Zenon DEF Init
<1>2. \A s \in Stopper : stop[s] = "new"
  BY DEF Init
<1>3. /\ pc \in [Worker -> {"select", "run", "exited"}]
      /\ submit \in [Job -> {"new", "blocked", "accepted", "refused", "panic"}]
      /\ stop \in [Stopper -> {"new", "once", "closing", "returned"}]
  BY DEF Init
<1>4. ~queueClosed /\ ~stopChan
  BY Zenon DEF Init
<1> QED
  BY <1>1, <1>2, <1>3, <1>4 DEF StopInv, PoolTypes, StopIsFinal

LEMMA StopInvStep == StopInv /\ [Next]_vars => StopInv'
<1> SUFFICES ASSUME StopInv, [Next]_vars PROVE StopInv'
  OBVIOUS
<1> USE DEF StopInv, PoolTypes, StopIsFinal
<1>1. ASSUME NEW j \in Job, SubmitStep(j) PROVE StopInv'
  <2>1. CASE Accept(j)
    BY <2>1 DEF Accept, workerVars
  <2>2. CASE Block(j)
    BY <2>2 DEF Block, poolVars, workerVars
  <2>3. CASE Refuse(j)
    BY <2>3 DEF Refuse, poolVars, workerVars
  <2>4. CASE SendOnClosed(j)
    BY <2>4 DEF SendOnClosed, poolVars, workerVars
  <2> QED
    BY <1>1, <2>1, <2>2, <2>3, <2>4 DEF SubmitStep
<1>2. ASSUME NEW w \in Worker, WorkerStep(w) PROVE StopInv'
  <2>1. CASE Run(w)
    BY <2>1 DEF Run
  <2>2. CASE Finish(w)
    BY <2>2 DEF Finish, poolVars
  <2>3. CASE Exit(w)
    BY <2>3 DEF Exit, poolVars
  <2> QED
    BY <1>2, <2>1, <2>2, <2>3 DEF WorkerStep
<1>3. ASSUME NEW s \in Stopper, CallStop(s) \/ StopStep(s) PROVE StopInv'
  <2>1. CASE CallStop(s)
    BY <2>1 DEF CallStop, poolVars, workerVars
  <2>2. CASE CloseStopChan(s)
    BY <2>2 DEF CloseStopChan, Released, workerVars
  <2>3. CASE CloseQueue(s)
    BY <2>3 DEF CloseQueue, Released, workerVars
  <2>4. CASE StopAgain(s)
    BY <2>4 DEF StopAgain, poolVars, workerVars
  <2> QED
    BY <1>3, <2>1, <2>2, <2>3, <2>4 DEF StopStep
<1>4. CASE WaitStep
  BY <1>4 DEF WaitStep, CallWait, Drain, ReturnFromWait, poolVars, workerVars
<1>5. CASE UNCHANGED vars
  BY <1>5 DEF vars, poolVars, workerVars
<1> QED
  BY <1>1, <1>2, <1>3, <1>4, <1>5 DEF Next

LEMMA StopInvAlways == Spec => []StopInv
BY StopInvInit, StopInvStep, PTL DEF Spec

(* When any Stop has returned no worker is left to run a job. *)
THEOREM StopFinal == Spec => []StopIsFinal
<1>1. StopInv => StopIsFinal
  BY DEF StopInv
<1> QED
  BY <1>1, StopInvAlways, PTL

(* No Submit that is waiting ends in a send on the closed channel. *)
THEOREM WaitingSafe == Spec => WaitingSubmitSafe
<1>1. StopInv /\ [Next]_vars =>
        [\A j \in Job : submit[j] = "blocked" => submit'[j] # "panic"]_vars
  <2> SUFFICES ASSUME StopInv, Next, NEW i \in Job, submit[i] = "blocked"
               PROVE  submit'[i] # "panic"
    OBVIOUS
  <2> USE DEF StopInv, PoolTypes
  <2>1. ASSUME NEW j \in Job, SubmitStep(j) PROVE submit'[i] # "panic"
    BY <2>1 DEF SubmitStep, Accept, Block, Refuse, SendOnClosed
  <2>2. ASSUME NEW w \in Worker, WorkerStep(w) PROVE submit'[i] # "panic"
    BY <2>2 DEF WorkerStep, Run, Finish, Exit
  <2>3. ASSUME NEW s \in Stopper, CallStop(s) \/ StopStep(s) PROVE submit'[i] # "panic"
    BY <2>3 DEF StopStep, CallStop, CloseStopChan, CloseQueue, StopAgain, Released
  <2>4. CASE WaitStep
    BY <2>4 DEF WaitStep, CallWait, Drain, ReturnFromWait
  <2> QED
    BY <2>1, <2>2, <2>3, <2>4 DEF Next
<1> QED
  BY <1>1, StopInvAlways, PTL DEF Spec, WaitingSubmitSafe

-----------------------------------------------------------------------------
(* Where a job is. *)
InQueue(j) == \E i \in 1..Len(jobQueue) : jobQueue[i] = j
AtWorker(j) == \E w \in Worker : running[w] = j

(* A job is somewhere exactly when its Submit was accepted, and in one place:  *)
(* the channel and the workers hold no job twice, and what one of the four     *)
(* places holds the others do not.                                             *)
Placed ==
    /\ TypeOK
    /\ \A w \in Worker : pc[w] = "run" <=> running[w] # NoJob
    /\ \A i, k \in 1..Len(jobQueue) : jobQueue[i] = jobQueue[k] => i = k
    /\ \A v, w \in Worker : running[v] = running[w] /\ running[v] # NoJob => v = w
    /\ \A j \in Job :
          /\ submit[j] = "accepted" <=> InQueue(j) \/ AtWorker(j) \/ j \in ended \/ j \in drained
          /\ InQueue(j) => ~AtWorker(j) /\ j \notin ended /\ j \notin drained
          /\ AtWorker(j) => j \notin ended /\ j \notin drained
          /\ j \in ended => j \notin drained

LEMMA Capacity == QueueCap \in Nat \ {0}
BY WorkerPoolAssumption, FS_CardinalityType, FS_EmptySet DEF QueueCap

LEMMA PlacedInit == Init => Placed
<1> SUFFICES ASSUME Init PROVE Placed
  OBVIOUS
<1>1. jobQueue = <<>> /\ ended = {} /\ drained = {} /\ wait = "new"
  BY DEF Init
<1>2. queueClosed \in BOOLEAN /\ stopChan \in BOOLEAN
  BY Zenon DEF Init
<1>3. /\ pc = [w \in Worker |-> "select"]
      /\ running = [w \in Worker |-> NoJob]
      /\ submit = [j \in Job |-> "new"]
      /\ stop = [s \in Stopper |-> "new"]
  BY DEF Init
<1> QED
  BY <1>1, <1>2, <1>3, Capacity, WorkerPoolAssumption DEF Placed, TypeOK, InQueue, AtWorker

LEMMA PlacedStep == Placed /\ [Next]_vars => Placed'
<1> SUFFICES ASSUME Placed, [Next]_vars PROVE Placed'
  OBVIOUS
<1> USE Capacity, WorkerPoolAssumption
<1>1. ASSUME NEW j \in Job, Accept(j) PROVE Placed'
  <2> USE <1>1 DEF Accept, workerVars, waitVars
  <2>1. TypeOK'
    BY DEF Placed, TypeOK
  <2>2. \A w \in Worker : pc'[w] = "run" <=> running'[w] # NoJob
    BY DEF Placed
  <2>3. \A x \in Job : InQueue(x)' <=> InQueue(x) \/ x = j
    BY DEF InQueue, Placed, TypeOK
  <2>4. ~InQueue(j) /\ ~AtWorker(j) /\ j \notin ended /\ j \notin drained
    BY DEF Placed, TypeOK
  <2>5. \A i, k \in 1..Len(jobQueue') : jobQueue'[i] = jobQueue'[k] => i = k
    BY <2>4 DEF InQueue, Placed, TypeOK
  <2>6. \A x \in Job : submit'[x] = "accepted" <=> submit[x] = "accepted" \/ x = j
    BY DEF Placed, TypeOK
  <2>7. \A x \in Job : AtWorker(x)' <=> AtWorker(x)
    BY DEF AtWorker
  <2> QED
    BY <2>1, <2>2, <2>3, <2>4, <2>5, <2>6, <2>7 DEF Placed
<1>2. ASSUME /\ TypeOK'
             /\ UNCHANGED <<jobQueue, workerVars, drained>>
             /\ \A j \in Job : submit'[j] = "accepted" <=> submit[j] = "accepted"
      PROVE  Placed'
  BY <1>2 DEF Placed, InQueue, AtWorker, workerVars
<1>3. ASSUME NEW j \in Job, Block(j) \/ Refuse(j) \/ SendOnClosed(j) PROVE Placed'
  <2>1. TypeOK'
    BY <1>3 DEF Placed, TypeOK, Block, Refuse, SendOnClosed, poolVars, workerVars, waitVars
  <2> QED
    BY <1>3, <1>2, <2>1 DEF Placed, TypeOK, Block, Refuse, SendOnClosed, poolVars, waitVars
<1>4. ASSUME NEW w \in Worker, Run(w) PROVE Placed'
  <2> USE <1>4 DEF Run, waitVars
  <2> DEFINE h == Head(jobQueue)
  <2>1. /\ h \in Job /\ jobQueue' \in Seq(Job) /\ Len(jobQueue') = Len(jobQueue) - 1
        /\ \A i \in 1..Len(jobQueue') : jobQueue'[i] = jobQueue[i + 1]
        /\ h = jobQueue[1] /\ Len(jobQueue) \in Nat /\ Len(jobQueue) > 0
    BY DEF Placed, TypeOK
  <2>2. TypeOK'
    BY <2>1 DEF Placed, TypeOK
  <2>3. InQueue(h)
    BY <2>1 DEF InQueue
  <2>4. \A i, k \in 1..Len(jobQueue') : jobQueue'[i] = jobQueue'[k] => i = k
    BY <2>1 DEF Placed
  <2>5. \A x \in Job : InQueue(x)' <=> InQueue(x) /\ x # h
    <3>1. ASSUME NEW x \in Job, InQueue(x)' PROVE InQueue(x) /\ x # h
      BY <3>1, <2>1 DEF InQueue, Placed
    <3>2. ASSUME NEW x \in Job, InQueue(x), x # h PROVE InQueue(x)'
      <4>1. PICK i \in 1..Len(jobQueue) : jobQueue[i] = x
        BY <3>2 DEF InQueue
      <4>2. i - 1 \in 1..Len(jobQueue') /\ jobQueue'[i - 1] = x
        BY <4>1, <3>2, <2>1
      <4> QED
        BY <4>2 DEF InQueue
    <3> QED
      BY <3>1, <3>2
  <2>6. running[w] = NoJob
    BY DEF Placed, TypeOK
  <2>7. \A x \in Job : AtWorker(x)' <=> AtWorker(x) \/ x = h
    BY <2>1, <2>6 DEF AtWorker, Placed, TypeOK
  <2>8. \A v, u \in Worker : running'[v] = running'[u] /\ running'[v] # NoJob => v = u
    BY <2>1, <2>3 DEF AtWorker, Placed, TypeOK
  <2>9. \A v \in Worker : pc'[v] = "run" <=> running'[v] # NoJob
    BY <2>1 DEF Placed, TypeOK
  <2> QED
    BY <2>1, <2>2, <2>3, <2>4, <2>5, <2>7, <2>8, <2>9 DEF Placed
<1>5. ASSUME NEW w \in Worker, Finish(w) PROVE Placed'
  <2> USE <1>5 DEF Finish, poolVars, waitVars
  <2>1. running[w] \in Job /\ AtWorker(running[w])
    BY DEF Placed, TypeOK, AtWorker
  <2>2. TypeOK'
    BY <2>1 DEF Placed, TypeOK
  <2>3. \A x \in Job : AtWorker(x)' <=> AtWorker(x) /\ x # running[w]
    BY <2>1 DEF AtWorker, Placed, TypeOK
  <2>4. \A x \in Job : InQueue(x)' <=> InQueue(x)
    BY DEF InQueue
  <2>5. /\ \A v \in Worker : pc'[v] = "run" <=> running'[v] # NoJob
        /\ \A v, u \in Worker : running'[v] = running'[u] /\ running'[v] # NoJob => v = u
    BY DEF Placed, TypeOK
  <2> QED
    BY <2>1, <2>2, <2>3, <2>4, <2>5 DEF Placed
<1>6. ASSUME NEW w \in Worker, Exit(w) PROVE Placed'
  <2>1. TypeOK'
    BY <1>6 DEF Exit, Placed, TypeOK, poolVars, waitVars
  <2>2. \A v \in Worker : pc'[v] = "run" <=> running'[v] # NoJob
    BY <1>6 DEF Exit, Placed, TypeOK
  <2> QED
    BY <1>6, <2>1, <2>2 DEF Exit, Placed, InQueue, AtWorker, poolVars, waitVars
<1>7. ASSUME NEW s \in Stopper, CallStop(s) \/ StopStep(s) PROVE Placed'
  <2>1. TypeOK'
    <3> USE DEF Placed, TypeOK
    <3>1. CASE CallStop(s)
      BY <3>1 DEF CallStop, poolVars, workerVars, waitVars
    <3>2. CASE CloseStopChan(s)
      BY <3>2 DEF CloseStopChan, Released, workerVars, waitVars
    <3>3. CASE CloseQueue(s)
      BY <3>3 DEF CloseQueue, Released, workerVars, waitVars
    <3>4. CASE StopAgain(s)
      BY <3>4 DEF StopAgain, poolVars, workerVars, waitVars
    <3> QED
      BY <1>7, <3>1, <3>2, <3>3, <3>4 DEF StopStep
  <2>2. \A j \in Job : submit'[j] = "accepted" <=> submit[j] = "accepted"
    BY <1>7 DEF StopStep, CallStop, CloseStopChan, CloseQueue, StopAgain, Released
  <2>3. UNCHANGED <<jobQueue, workerVars, drained>>
    BY <1>7 DEF StopStep, CallStop, CloseStopChan, CloseQueue, StopAgain, poolVars, waitVars
  <2> QED
    BY <1>2, <2>1, <2>2, <2>3
<1>8. CASE Drain
  <2> USE <1>8 DEF Drain, workerVars
  <2> DEFINE h == Head(jobQueue)
  <2>1. /\ h \in Job /\ jobQueue' \in Seq(Job) /\ Len(jobQueue') = Len(jobQueue) - 1
        /\ \A i \in 1..Len(jobQueue') : jobQueue'[i] = jobQueue[i + 1]
        /\ h = jobQueue[1] /\ Len(jobQueue) \in Nat /\ Len(jobQueue) > 0
    BY DEF Placed, TypeOK
  <2>2. TypeOK'
    BY <2>1 DEF Placed, TypeOK
  <2>3. InQueue(h)
    BY <2>1 DEF InQueue
  <2>4. \A i, k \in 1..Len(jobQueue') : jobQueue'[i] = jobQueue'[k] => i = k
    BY <2>1 DEF Placed
  <2>5. \A x \in Job : InQueue(x)' <=> InQueue(x) /\ x # h
    <3>1. ASSUME NEW x \in Job, InQueue(x)' PROVE InQueue(x) /\ x # h
      BY <3>1, <2>1 DEF InQueue, Placed
    <3>2. ASSUME NEW x \in Job, InQueue(x), x # h PROVE InQueue(x)'
      <4>1. PICK i \in 1..Len(jobQueue) : jobQueue[i] = x
        BY <3>2 DEF InQueue
      <4>2. i - 1 \in 1..Len(jobQueue') /\ jobQueue'[i - 1] = x
        BY <4>1, <3>2, <2>1
      <4> QED
        BY <4>2 DEF InQueue
    <3> QED
      BY <3>1, <3>2
  <2>6. \A x \in Job : AtWorker(x)' <=> AtWorker(x)
    BY DEF AtWorker
  <2> QED
    BY <2>1, <2>2, <2>3, <2>4, <2>5, <2>6 DEF Placed
<1>9. CASE CallWait \/ ReturnFromWait
  <2>1. TypeOK'
    BY <1>9 DEF CallWait, ReturnFromWait, Placed, TypeOK, poolVars, workerVars
  <2> QED
    BY <1>9, <1>2, <2>1 DEF CallWait, ReturnFromWait, poolVars
<1>10. CASE UNCHANGED vars
  <2>1. TypeOK'
    BY <1>10 DEF vars, Placed, TypeOK, poolVars, workerVars, waitVars
  <2> QED
    BY <1>10, <1>2, <2>1 DEF vars, poolVars, waitVars
<1> QED
  BY <1>1, <1>3, <1>4, <1>5, <1>6, <1>7, <1>8, <1>9, <1>10 DEF Next, SubmitStep, WorkerStep, WaitStep

(* One place each: the four counts of JobConserved are of sets with one member *)
(* or none, and exactly one of them has it.                                    *)
LEMMA PlacedOnce == Placed => JobConserved
<1> SUFFICES ASSUME Placed, NEW j \in Job, submit[j] = "accepted"
             PROVE  1 = Cardinality({i \in 1..Len(jobQueue) : jobQueue[i] = j})
                        + Cardinality({w \in Worker : running[w] = j})
                        + Cardinality({j} \cap ended) + Cardinality({j} \cap drained)
  BY DEF JobConserved, Placed
<1> DEFINE Q == {i \in 1..Len(jobQueue) : jobQueue[i] = j}
           W == {w \in Worker : running[w] = j}
           E == {j} \cap ended
           D == {j} \cap drained
<1>1. /\ Cardinality({}) = 0
      /\ \A x : Cardinality({x}) = 1
  BY FS_EmptySet, FS_Singleton
<1>2. ASSUME InQueue(j) PROVE \E i : Q = {i}
  <2>1. PICK i \in 1..Len(jobQueue) : jobQueue[i] = j
    BY <1>2 DEF InQueue
  <2>2. \A k \in 1..Len(jobQueue) : jobQueue[k] = j => k = i
    BY <2>1 DEF Placed
  <2> QED
    BY <2>1, <2>2
<1>3. ASSUME AtWorker(j) PROVE \E w : W = {w}
  <2>1. PICK w \in Worker : running[w] = j
    BY <1>3 DEF AtWorker
  <2>2. \A v \in Worker : running[v] = j => v = w
    BY <2>1, WorkerPoolAssumption DEF Placed
  <2> QED
    BY <2>1, <2>2
<1>4. /\ ~InQueue(j) => Q = {}
      /\ ~AtWorker(j) => W = {}
      /\ j \in ended => E = {j}
      /\ j \notin ended => E = {}
      /\ j \in drained => D = {j}
      /\ j \notin drained => D = {}
  BY DEF InQueue, AtWorker
<1> HIDE DEF Q, W, E, D
<1>5. /\ Cardinality(Q) = IF InQueue(j) THEN 1 ELSE 0
      /\ Cardinality(W) = IF AtWorker(j) THEN 1 ELSE 0
  BY <1>1, <1>2, <1>3, <1>4, Zenon
<1>6. /\ Cardinality(E) = IF j \in ended THEN 1 ELSE 0
      /\ Cardinality(D) = IF j \in drained THEN 1 ELSE 0
  BY <1>1, <1>4, Zenon
<1>7. 1 = Cardinality(Q) + Cardinality(W) + Cardinality(E) + Cardinality(D)
  BY <1>5, <1>6 DEF Placed
<1> QED
  BY <1>7 DEF Q, W, E, D

(* No accepted job is executed twice or vanishes, and the channel stays within *)
(* its capacity.                                                               *)
THEOREM ConservedCorrect == Spec => []JobConserved
BY PlacedInit, PlacedStep, PlacedOnce, PTL DEF Spec

-----------------------------------------------------------------------------
(* The test of one node. *)

(* Induction, over a set. *)
LEMMA NaturalsInSet ==
  ASSUME NEW S, 0 \in S, \A n \in Nat : n \in S => n + 1 \in S
  PROVE  Nat \subseteq S
<1> SUFFICES ASSUME Nat \ S # {} PROVE FALSE OBVIOUS
<1>1. Nat \ S \subseteq Nat OBVIOUS
<1>2. PICK x \in Nat \ S : \A y \in Nat \ S : ~ (<<y, x>> \in OpToRel(<, Nat))
  BY <1>1, NatLessThanWellFounded, WFMin
<1>3. \A y \in Nat \ S : ~ (y < x)  BY <1>2 DEF OpToRel
<1>4. x \in Nat /\ x \notin S /\ x # 0  BY <1>2
<1>5. x - 1 \in Nat /\ x - 1 < x /\ (x - 1) + 1 = x  BY <1>4
<1>6. x - 1 \in S  BY <1>3, <1>5
<1> QED BY <1>4, <1>5, <1>6

(* The fold is what its definition says: a function with that equation exists *)
(* for every number of hostnames.                                             *)
LEMMA MergedHostsEquation ==
  ASSUME Len(results) \in Nat, NEW p
  PROVE  \A h \in 0..Len(results) :
            MergedHosts(p)[h] = IF h = 0 THEN Empty ELSE MergeHost(p, MergedHosts(p)[h - 1], h)
<1> DEFINE Body(g, h) == IF h = 0 THEN Empty ELSE MergeHost(p, g[h - 1], h)
           Is(n, g) == g = [h \in 0..n |-> Body(g, h)]
           S == {n \in Nat : \E g : Is(n, g)}
<1>1. 0 \in S
  <2> DEFINE g0 == [h \in 0..0 |-> Empty]
  <2>1. Is(0, g0) OBVIOUS
  <2> QED BY <2>1
<1>2. ASSUME NEW n \in Nat, n \in S PROVE n + 1 \in S
  <2>1. PICK g : Is(n, g) BY <1>2
  <2> DEFINE m == MergeHost(p, g[n], n + 1)
             e == [h \in 0..(n + 1) |-> IF h = n + 1 THEN m ELSE g[h]]
  <2>2. ASSUME NEW h \in 0..(n + 1) PROVE e[h] = Body(e, h)
    <3>1. CASE h = n + 1
      <4>1. h - 1 = n /\ h # 0 /\ n \in 0..(n + 1) /\ n # n + 1 BY <3>1
      <4>2. e[h] = m /\ e[h - 1] = g[n] BY <3>1, <4>1
      <4> QED BY <3>1, <4>1, <4>2
    <3>2. CASE h # n + 1
      <4>1. h \in 0..n /\ e[h] = g[h] BY <3>2
      <4>2. g[h] = Body(g, h) BY <2>1, <4>1
      <4>3. CASE h = 0 BY <4>1, <4>2, <4>3
      <4>4. CASE h # 0
        <5>1. h - 1 \in 0..(n + 1) /\ h - 1 # n + 1 BY <4>1, <4>4
        <5>2. e[h - 1] = g[h - 1] BY <5>1
        <5> QED BY <4>1, <4>2, <4>4, <5>2
      <4> QED BY <4>3, <4>4
    <3> QED BY <3>1, <3>2
  <2>3. Is(n + 1, e)
    <3> HIDE DEF Body, m
    <3>1. e = [h \in 0..(n + 1) |-> e[h]] OBVIOUS
    <3>2. [h \in 0..(n + 1) |-> e[h]] = [h \in 0..(n + 1) |-> Body(e, h)] BY <2>2, Zenon
    <3> QED BY <3>1, <3>2, Zenon
  <2>4. n + 1 \in Nat OBVIOUS
  <2> HIDE DEF Is, e
  <2> QED BY <2>3, <2>4
<1>3. \E g : Is(Len(results), g)
  <2> HIDE DEF S
  <2>1. Nat \subseteq S BY <1>1, <1>2, NaturalsInSet
  <2> QED BY <2>1 DEF S
<1>4. MergedHosts(p) = CHOOSE g : Is(Len(results), g)
  BY DEF MergedHosts
<1>5. Is(Len(results), MergedHosts(p))
  <2> HIDE DEF Is
  <2> QED BY <1>3, <1>4
<1> HIDE DEF Body
<1> USE DEF Is
<1>6. \A h \in 0..Len(results) : MergedHosts(p)[h] = Body(MergedHosts(p), h)
  BY <1>5
<1> QED BY <1>6 DEF Body

-----------------------------------------------------------------------------
(* A family of a protocol: without a probe it says nothing, a success has no  *)
(* error, only a success has a response time, and only a success can be of a  *)
(* confirmed VMODEM.                                                          *)
FamilySound(f) ==
    /\ f \in FamilyResult
    /\ f.success => f.tested /\ ~f.error
    /\ f.error => f.tested
    /\ ~f.success => f.ms = 0
    /\ f.details = "confirmed" => f.success

(* f says what the family results T say together. *)
Together(f, T) ==
    /\ f \in FamilyResult /\ T \subseteq FamilyResult
    /\ f.tested <=> \E x \in T : x.tested
    /\ f.success <=> \E x \in T : x.success
    /\ f.error <=> ~f.success /\ \E x \in T : x.error
    /\ f.success => \E x \in T : x.success /\ x.ms = f.ms
    /\ \A x \in T : x.success => f.ms <= x.ms
    /\ ~f.success => f.ms = 0

LEMMA UntestedTogether == ASSUME Parameters PROVE Together(Untested, {})
BY DEF Together, Untested, FamilyResult, Details, Parameters

LEMMA MergeFamilyTogether ==
  ASSUME Parameters, NEW dst, NEW src, NEW T, Together(dst, T), FamilySound(src)
  PROVE  Together(MergeFamily(dst, src), T \cup {src})
<1> DEFINE new == MergeFamily(dst, src)
<1> SUFFICES Together(new, T \cup {src}) OBVIOUS
<1>1. dst \in FamilyResult /\ src \in FamilyResult BY DEF Together, FamilySound
<1>2. /\ dst.ms \in Nat /\ src.ms \in Nat /\ dst.ms \in 0..MaxMs /\ src.ms \in 0..MaxMs
      /\ dst.tested \in BOOLEAN /\ dst.success \in BOOLEAN /\ dst.error \in BOOLEAN
      /\ src.tested \in BOOLEAN /\ src.success \in BOOLEAN /\ src.error \in BOOLEAN
  BY <1>1 DEF FamilyResult
<1> HIDE DEF new
<1>3. CASE ~src.tested
  <2>1. new = dst BY <1>3 DEF MergeFamily, new
  <2>2. ~src.success /\ ~src.error BY <1>3 DEF FamilySound
  <2> QED BY <1>1, <1>2, <1>3, <2>1, <2>2 DEF Together
<1>4. CASE src.tested /\ src.success
  <2>1. /\ new \in FamilyResult /\ new.tested = TRUE /\ new.success = TRUE /\ new.error = FALSE
        /\ new.ms = IF ~dst.success \/ src.ms < dst.ms THEN src.ms ELSE dst.ms
    BY <1>1, <1>2, <1>4 DEF MergeFamily, FamilyResult, new
  <2>2. ~src.error BY <1>4 DEF FamilySound
  <2>3. \E x \in T \cup {src} : x.success /\ x.ms = new.ms
    BY <1>2, <1>4, <2>1 DEF Together
  <2>4. ASSUME NEW x \in T \cup {src}, x.success PROVE new.ms <= x.ms
    <3>1. CASE x = src BY <1>2, <2>1, <3>1
    <3>2. CASE x \in T
      <4>1. dst.success /\ dst.ms <= x.ms BY <2>4, <3>2 DEF Together
      <4>2. PICK y \in T : y.success /\ y.ms = dst.ms BY <4>1 DEF Together
      <4>3. CASE src.ms < dst.ms
        <5>1. new.ms = src.ms BY <2>1, <4>3
        <5>2. x.ms \in Int BY <3>2 DEF Together, FamilyResult
        <5> QED BY <1>2, <4>1, <4>3, <5>1, <5>2
      <4>4. CASE ~(src.ms < dst.ms) BY <2>1, <4>1, <4>4
      <4> QED BY <4>3, <4>4
    <3> QED BY <3>1, <3>2
  <2> QED BY <1>1, <1>4, <2>1, <2>3, <2>4 DEF Together
<1>5. CASE src.tested /\ ~src.success
  <2>1. /\ new \in FamilyResult /\ new.tested = TRUE /\ new.success = dst.success
        /\ new.error = (dst.error \/ (~dst.success /\ src.error)) /\ new.ms = dst.ms
    BY <1>1, <1>2, <1>5 DEF MergeFamily, FamilyResult, new
  <2> QED BY <1>1, <1>2, <1>5, <2>1 DEF Together
<1> QED BY <1>2, <1>3, <1>4, <1>5

-----------------------------------------------------------------------------
(* What is folded of a protocol so far. *)
Folded == [v6 : FamilyResult, v4 : FamilyResult, from : Nat \cup {None},
           sawSuccess : BOOLEAN, foundVMP : BOOLEAN]

First(i, S) == i \in S /\ \A j \in S : i <= j

(* acc has the details of the best hostname: of have a result, succeeded a    *)
(* success, confirmed a confirmed VMODEM.                                     *)
Best(acc, of, succeeded, confirmed) ==
    /\ confirmed \subseteq succeeded /\ succeeded \subseteq of /\ of \subseteq Nat
    /\ acc.sawSuccess <=> succeeded # {}
    /\ acc.foundVMP <=> confirmed # {}
    /\ confirmed # {} => First(acc.from, confirmed)
    /\ confirmed = {} /\ succeeded # {} => First(acc.from, succeeded)
    /\ succeeded = {} /\ of # {} => First(acc.from, of)
    /\ of = {} => acc.from = None

MergedVModem(dst, pr, h) ==
    PreferConfirmedVMODEM(KeepFailureDetails(MergeProtocolResult(dst, pr, h), pr, h), pr, h)

With(S, h, holds) == IF holds THEN S \cup {h} ELSE S

LEMMA MergeBest ==
  ASSUME Parameters, NEW dst \in Folded, NEW pr \in ProtocolResult, NEW h \in Nat,
         NEW of, NEW succeeded, NEW confirmed, Best(dst, of, succeeded, confirmed),
         \A i \in of : i < h,
         VModemDetails(pr) = "confirmed" => pr.success,
         MergeFamily(dst.v6, pr.v6) \in FamilyResult, MergeFamily(dst.v4, pr.v4) \in FamilyResult
  PROVE  /\ MergedVModem(dst, pr, h) \in Folded
         /\ MergedVModem(dst, pr, h).v6 = MergeFamily(dst.v6, pr.v6)
         /\ MergedVModem(dst, pr, h).v4 = MergeFamily(dst.v4, pr.v4)
         /\ Best(MergedVModem(dst, pr, h), of \cup {h}, With(succeeded, h, pr.success),
                 With(confirmed, h, VModemDetails(pr) = "confirmed"))
<1> DEFINE acc == MergedVModem(dst, pr, h)
           new == MergeProtocolResult(dst, pr, h)
           kept == KeepFailureDetails(new, pr, h)
<1>1. /\ new \in Folded
      /\ new.v6 = MergeFamily(dst.v6, pr.v6) /\ new.v4 = MergeFamily(dst.v4, pr.v4)
      /\ new.sawSuccess = dst.sawSuccess /\ new.foundVMP = dst.foundVMP
      /\ new.from = IF pr.success /\ dst.from = None THEN h ELSE dst.from
  BY DEF MergeProtocolResult, Folded
<1> HIDE DEF new
<1>2. /\ kept \in Folded /\ kept.v6 = new.v6 /\ kept.v4 = new.v4
      /\ kept.foundVMP = new.foundVMP
      /\ pr.success /\ ~new.sawSuccess => kept.from = h /\ kept.sawSuccess = TRUE
      /\ ~pr.success /\ ~new.sawSuccess /\ new.from = None
            => kept.from = h /\ kept.sawSuccess = new.sawSuccess
      /\ ~(pr.success /\ ~new.sawSuccess) /\ ~(~pr.success /\ ~new.sawSuccess /\ new.from = None)
            => kept.from = new.from /\ kept.sawSuccess = new.sawSuccess
  BY <1>1 DEF KeepFailureDetails, Folded
<1> HIDE DEF kept
<1>3. acc = PreferConfirmedVMODEM(kept, pr, h) BY DEF kept, new, MergedVModem
<1> HIDE DEF acc
<1> DEFINE best == Best(acc, of \cup {h}, With(succeeded, h, pr.success),
                       With(confirmed, h, VModemDetails(pr) = "confirmed"))
<1>4. /\ acc \in Folded /\ acc.v6 = kept.v6 /\ acc.v4 = kept.v4 /\ acc.sawSuccess = kept.sawSuccess
      /\ ~kept.foundVMP /\ VModemDetails(pr) = "confirmed" => acc.from = h /\ acc.foundVMP = TRUE
      /\ ~(~kept.foundVMP /\ VModemDetails(pr) = "confirmed")
            => acc.from = kept.from /\ acc.foundVMP = kept.foundVMP
  BY <1>2, <1>3 DEF PreferConfirmedVMODEM, Folded
<1>5. h # None BY DEF Parameters
<1>6. dst.sawSuccess \in BOOLEAN /\ dst.foundVMP \in BOOLEAN BY DEF Folded
<1>7. \A S \in SUBSET of : S # {} => \A i : First(i, S) => First(i, S \cup {h})
  BY DEF First, Best
<1>8. First(h, {h}) BY DEF First
<1>9. dst.from # None <=> of # {} BY DEF Best, First, Parameters
<1>10. ASSUME pr.success, VModemDetails(pr) = "confirmed" PROVE best
  BY <1>1, <1>2, <1>4, <1>5, <1>6, <1>7, <1>8, <1>9, <1>10 DEF Best, With
<1>11. ASSUME pr.success, VModemDetails(pr) # "confirmed" PROVE best
  BY <1>1, <1>2, <1>4, <1>5, <1>6, <1>7, <1>8, <1>9, <1>11 DEF Best, With
<1>12. ASSUME ~pr.success PROVE best
  BY <1>1, <1>2, <1>4, <1>5, <1>6, <1>7, <1>8, <1>9, <1>12 DEF Best, With
<1>13. best BY <1>10, <1>11, <1>12
<1> QED BY <1>1, <1>2, <1>4, <1>13 DEF acc

-----------------------------------------------------------------------------
(* The result of a protocol at a hostname; a telnet success may be one that   *)
(* its families forget.                                                       *)
ResultSound(p, pr) ==
    /\ pr \in ProtocolResult /\ FamilySound(pr.v6) /\ FamilySound(pr.v4)
    /\ pr.v6.success \/ pr.v4.success => pr.success
    /\ p # "telnet" /\ pr.success => pr.v6.success \/ pr.v4.success

HostSound(r) ==
    /\ r \in HostResult
    /\ \A p \in Protocol : r.protocol[p] # None => ResultSound(p, r.protocol[p])
    /\ r.operational <=> \E p \in Protocol : Succeeded(r.protocol[p])

ResultsSound == results \in Seq(HostResult) /\ \A h \in DOMAIN results : HostSound(results[h])

LEMMA ConfirmedSucceeded ==
  ASSUME Parameters, NEW p, NEW pr, ResultSound(p, pr), VModemDetails(pr) = "confirmed"
  PROVE  pr.success
<1>1. pr.v6.success \in BOOLEAN /\ pr.v4.success \in BOOLEAN /\ pr.success \in BOOLEAN
  BY DEF ResultSound, ProtocolResult, FamilyResult
<1> QED BY <1>1 DEF ResultSound, VModemDetails, FamilySound

(* The hostnames among the first n that have a result of the protocol. *)
Of(p, n) == {h \in 1..n : results[h].protocol[p] # None}
Succeeding(p, n) == {h \in Of(p, n) : results[h].protocol[p].success}
Confirming(p, n) == {h \in Of(p, n) : VModemDetails(results[h].protocol[p]) = "confirmed"}
FamiliesOf(p, family, n) == {results[h].protocol[p][family] : h \in Of(p, n)}

FoldHolds(p, n) ==
    /\ MergedHosts(p)[n] \in Folded
    /\ Together(MergedHosts(p)[n].v6, FamiliesOf(p, "v6", n))
    /\ Together(MergedHosts(p)[n].v4, FamiliesOf(p, "v4", n))
    /\ p = "vmodem" => Best(MergedHosts(p)[n], Of(p, n), Succeeding(p, n), Confirming(p, n))

LEMMA FoldBase ==
  ASSUME Parameters, ResultsSound, NEW p \in Protocol
  PROVE  FoldHolds(p, 0)
<1>1. Len(results) \in Nat /\ 0 \in 0..Len(results) BY DEF ResultsSound
<1>2. MergedHosts(p)[0] = Empty BY <1>1, MergedHostsEquation
<1>3. Of(p, 0) = {} BY DEF Of
<1>4. FamiliesOf(p, "v6", 0) = {} /\ FamiliesOf(p, "v4", 0) = {} /\ Succeeding(p, 0) = {} /\ Confirming(p, 0) = {}
  BY <1>3 DEF FamiliesOf, Succeeding, Confirming
<1>5. Empty \in Folded
  BY DEF Empty, Folded, Untested, FamilyResult, Details, Parameters
<1>6. Empty.v6 = Untested /\ Empty.v4 = Untested /\ Empty.from = None
      /\ Empty.sawSuccess = FALSE /\ Empty.foundVMP = FALSE
  BY DEF Empty
<1> QED BY <1>2, <1>3, <1>4, <1>5, <1>6, UntestedTogether DEF FoldHolds, Best

LEMMA FoldStep ==
  ASSUME Parameters, ResultsSound, NEW p \in Protocol,
         NEW n \in Nat, n + 1 <= Len(results), FoldHolds(p, n)
  PROVE  FoldHolds(p, n + 1)
<1> DEFINE h == n + 1
           pr == results[h].protocol[p]
           dst == MergedHosts(p)[n]
           acc == MergedHosts(p)[h]
<1>1. Len(results) \in Nat /\ h \in DOMAIN results /\ h \in 0..Len(results) /\ h # 0 /\ h - 1 = n
  BY DEF ResultsSound
<1>2. acc = MergeHost(p, dst, h)
  BY <1>1, MergedHostsEquation
<1>3. HostSound(results[h]) BY <1>1 DEF ResultsSound
<1>4. dst \in Folded BY DEF FoldHolds
<1>5. Of(p, h) = IF pr = None THEN Of(p, n) ELSE Of(p, n) \cup {h}
  BY DEF Of
<1>6. CASE pr = None
  <2>1. acc = dst BY <1>2, <1>6 DEF MergeHost
  <2>2. Of(p, h) = Of(p, n) BY <1>5, <1>6
  <2> QED BY <2>1, <2>2 DEF FoldHolds, FamiliesOf, Succeeding, Confirming
<1>7. CASE pr # None
  <2>1. ResultSound(p, pr) BY <1>3, <1>7 DEF HostSound
  <2>2. /\ FamiliesOf(p, "v6", h) = FamiliesOf(p, "v6", n) \cup {pr.v6}
        /\ FamiliesOf(p, "v4", h) = FamiliesOf(p, "v4", n) \cup {pr.v4}
    BY <1>5, <1>7 DEF FamiliesOf
  <2>3. /\ Together(MergeFamily(dst.v6, pr.v6), FamiliesOf(p, "v6", h))
        /\ Together(MergeFamily(dst.v4, pr.v4), FamiliesOf(p, "v4", h))
    BY <2>1, <2>2, MergeFamilyTogether DEF FoldHolds, ResultSound
  <2>4. MergeFamily(dst.v6, pr.v6) \in FamilyResult /\ MergeFamily(dst.v4, pr.v4) \in FamilyResult
    BY <2>3 DEF Together
  <2>5. CASE p # "vmodem"
    <3>1. acc = MergeProtocolResult(dst, pr, h) BY <1>2, <1>7, <2>5 DEF MergeHost
    <3>0. h \in Nat OBVIOUS
    <3> HIDE DEF h, pr, dst, acc
    <3>2. acc \in Folded /\ acc.v6 = MergeFamily(dst.v6, pr.v6) /\ acc.v4 = MergeFamily(dst.v4, pr.v4)
      BY <1>4, <2>4, <3>0, <3>1 DEF MergeProtocolResult, Folded
    <3>3. FoldHolds(p, h) BY <2>3, <2>5, <3>2 DEF FoldHolds, acc
    <3> QED BY <3>3 DEF h
  <2>6. CASE p = "vmodem"
    <3>1. acc = MergedVModem(dst, pr, h)
      BY <1>2, <1>7, <2>6 DEF MergeHost, MergedVModem
    <3>2. Best(dst, Of(p, n), Succeeding(p, n), Confirming(p, n)) BY <2>6 DEF FoldHolds
    <3>3. \A i \in Of(p, n) : i < h BY DEF Of
    <3>4. VModemDetails(pr) = "confirmed" => pr.success BY <2>1, ConfirmedSucceeded
    <3>5. pr \in ProtocolResult /\ h \in Nat BY <2>1 DEF ResultSound
    <3>6. /\ Succeeding(p, h) = With(Succeeding(p, n), h, pr.success)
          /\ Confirming(p, h) = With(Confirming(p, n), h, VModemDetails(pr) = "confirmed")
      BY <1>5, <1>7 DEF Succeeding, Confirming, With
    <3>7. Of(p, h) = Of(p, n) \cup {h} BY <1>5, <1>7
    <3> HIDE DEF h, pr, dst, acc
    <3>8. /\ acc \in Folded
          /\ acc.v6 = MergeFamily(dst.v6, pr.v6) /\ acc.v4 = MergeFamily(dst.v4, pr.v4)
          /\ Best(acc, Of(p, h), Succeeding(p, h), Confirming(p, h))
      <4> DEFINE of == Of(p, n)  succeeding == Succeeding(p, n)  confirming == Confirming(p, n)
      <4>1. Best(dst, of, succeeding, confirming) /\ \A i \in of : i < h BY <3>2, <3>3
      <4>2. dst \in Folded /\ pr \in ProtocolResult /\ h \in Nat BY <1>4, <3>5
      <4> HIDE DEF of, succeeding, confirming
      <4>3. /\ MergedVModem(dst, pr, h) \in Folded
            /\ MergedVModem(dst, pr, h).v6 = MergeFamily(dst.v6, pr.v6)
            /\ MergedVModem(dst, pr, h).v4 = MergeFamily(dst.v4, pr.v4)
            /\ Best(MergedVModem(dst, pr, h), of \cup {h}, With(succeeding, h, pr.success),
                    With(confirming, h, VModemDetails(pr) = "confirmed"))
        BY <2>4, <3>4, <4>1, <4>2, MergeBest
      <4> QED BY <3>1, <3>6, <3>7, <4>3 DEF of, succeeding, confirming
    <3>9. FoldHolds(p, h)
      BY <2>3, <3>8 DEF FoldHolds, acc
    <3> QED BY <3>9 DEF h
  <2> QED BY <2>5, <2>6
<1> QED BY <1>6, <1>7

LEMMA FoldAll ==
  ASSUME Parameters, ResultsSound, NEW p \in Protocol
  PROVE  FoldHolds(p, Len(results))
<1> DEFINE S == {n \in Nat : n <= Len(results) => FoldHolds(p, n)}
<1>1. 0 \in S BY FoldBase
<1>2. ASSUME NEW n \in Nat, n \in S PROVE n + 1 \in S
  <2>1. Len(results) \in Nat BY DEF ResultsSound
  <2>2. ASSUME n + 1 <= Len(results) PROVE FoldHolds(p, n + 1)
    <3>1. FoldHolds(p, n) BY <1>2, <2>1, <2>2
    <3> QED BY <2>2, <3>1, FoldStep
  <2> QED BY <2>2
<1>3. Nat \subseteq S
  <2> HIDE DEF S
  <2> QED BY <1>1, <1>2, NaturalsInSet
<1> QED BY <1>3 DEF ResultsSound

-----------------------------------------------------------------------------
LEMMA MinIs ==
  ASSUME NEW S \in SUBSET Int, NEW m, First(m, S)
  PROVE  Min(S) = m
<1>1. m \in S /\ \A y \in S : m <= y BY DEF First
<1>2. Min(S) \in S /\ \A y \in S : Min(S) <= y BY <1>1 DEF Min
<1>3. Min(S) \in Int /\ m \in Int /\ Min(S) <= m /\ m <= Min(S) BY <1>1, <1>2
<1> QED BY <1>3

(* What the aggregated row says of a protocol. *)
LEMMA AggregatedFamilies ==
  ASSUME Parameters, ResultsSound, NEW p \in Protocol, AggregatedProtocol(p) # None
  PROVE  /\ Of(p, Len(results)) # {}
         /\ AggregatedProtocol(p) = Finalize(MergedHosts(p)[Len(results)])
         /\ AggregatedProtocol(p).v6 = MergedHosts(p)[Len(results)].v6
         /\ AggregatedProtocol(p).v4 = MergedHosts(p)[Len(results)].v4
         /\ AggregatedProtocol(p).from = MergedHosts(p)[Len(results)].from
         /\ AggregatedProtocol(p).success = (AggregatedProtocol(p).v4.success \/ AggregatedProtocol(p).v6.success)
<1>1. ~ \A h \in DOMAIN results : results[h].protocol[p] = None
  BY DEF AggregatedProtocol
<1>2. DOMAIN results = 1..Len(results) BY DEF ResultsSound
<1>3. AggregatedProtocol(p) = Finalize(MergedHosts(p)[Len(results)])
  BY <1>1 DEF AggregatedProtocol
<1> QED BY <1>1, <1>2, <1>3 DEF Of, Finalize

LEMMA FinalizeType ==
  ASSUME Parameters, NEW acc \in Folded
  PROVE  Finalize(acc) \in FinalResult /\ Finalize(acc) # None
<1>1. /\ acc.v6 \in FamilyResult /\ acc.v4 \in FamilyResult /\ acc.from \in Nat \cup {None}
      /\ acc.v6.tested \in BOOLEAN /\ acc.v4.tested \in BOOLEAN
      /\ acc.v6.success \in BOOLEAN /\ acc.v4.success \in BOOLEAN
  BY DEF Folded, FamilyResult
<1>2. Finalize(acc) \in FinalResult BY <1>1 DEF Finalize, FinalResult
<1> QED BY <1>2 DEF Parameters

LEMMA MergedSays ==
  ASSUME Parameters, NEW f, NEW T, Together(f, T)
  PROVE  SaysTogether(f, T)
<1> DEFINE good == {x \in T : x.success}
<1>1. f.tested \in BOOLEAN /\ f.success \in BOOLEAN /\ f.error \in BOOLEAN /\ T \subseteq FamilyResult
  BY DEF Together, FamilyResult
<1>2. f.success <=> good # {} BY DEF Together
<1>3. CASE good = {} BY <1>1, <1>2, <1>3 DEF Together, SaysTogether
<1>4. CASE good # {}
  <2>1. {x.ms : x \in good} \subseteq Int BY <1>1 DEF FamilyResult, Parameters
  <2>2. First(f.ms, {x.ms : x \in good}) BY <1>2, <1>4 DEF Together, First
  <2>3. f.ms = Min({x.ms : x \in good}) BY <2>1, <2>2, MinIs
  <2> QED BY <1>1, <1>2, <1>4, <2>3 DEF Together, SaysTogether
<1> QED BY <1>3, <1>4 DEF SaysTogether

(* The three parts of the property, of a row returned in a state whose        *)
(* results are sound.                                                         *)
Reached(p) ==
    \/ \E h \in DOMAIN results : Succeeded(results[h].protocol[p])
    \/ current # None /\ Succeeded(current.protocol[p])

ReachedSound == reached = {p \in Protocol : Reached(p)}

LEMMA OperationalOfRow ==
  ASSUME Parameters, ResultsSound, ReachedSound, current = None
  PROVE  Operational(Aggregated.protocol) = (reached # {})
<1>1. Operational(Aggregated.protocol) =
        \E h \in DOMAIN results : results[h].operational \/ \E p \in Protocol : Succeeded(results[h].protocol[p])
  BY DEF Operational
<1>2. \A h \in DOMAIN results : results[h].operational <=> \E p \in Protocol : Succeeded(results[h].protocol[p])
  BY DEF ResultsSound, HostSound
<1>3. (\E h \in DOMAIN results : \E p \in Protocol : Succeeded(results[h].protocol[p])) <=> reached # {}
  BY DEF ReachedSound, Reached
<1> QED BY <1>1, <1>2, <1>3

LEMMA SuccessOfRow ==
  ASSUME Parameters, ResultsSound, ReachedSound, current = None,
         NEW p \in Protocol \ {"telnet"}
  PROVE  Succeeded(AggregatedProtocol(p)) = (p \in reached)
<1>1. p \in reached <=> \E h \in DOMAIN results : Succeeded(results[h].protocol[p])
  BY DEF ReachedSound, Reached
<1>2. CASE AggregatedProtocol(p) = None
  <2>1. FoldHolds(p, Len(results)) BY FoldAll
  <2>2. MergedHosts(p)[Len(results)] \in Folded BY <2>1 DEF FoldHolds
  <2>3. Finalize(MergedHosts(p)[Len(results)]) # None BY <2>2, FinalizeType
  <2>4. \A h \in DOMAIN results : results[h].protocol[p] = None
    BY <1>2, <2>3 DEF AggregatedProtocol
  <2> QED BY <1>1, <1>2, <2>4 DEF Succeeded
<1>3. CASE AggregatedProtocol(p) # None
  <2> DEFINE n == Len(results)  acc == MergedHosts(p)[n]
  <2>1. FoldHolds(p, n) BY FoldAll
  <2>2. DOMAIN results = 1..n BY DEF ResultsSound
  <2>3. AggregatedProtocol(p).success = (acc.v4.success \/ acc.v6.success)
    BY <1>3, AggregatedFamilies
  <2>4. acc.v6.success <=> \E h \in Of(p, n) : results[h].protocol[p].v6.success
    BY <2>1 DEF FoldHolds, Together, FamiliesOf
  <2>5. acc.v4.success <=> \E h \in Of(p, n) : results[h].protocol[p].v4.success
    BY <2>1 DEF FoldHolds, Together, FamiliesOf
  <2>6. \A h \in Of(p, n) : ResultSound(p, results[h].protocol[p])
    BY <2>2 DEF ResultsSound, HostSound, Of
  <2>7. \A h \in Of(p, n) : results[h].protocol[p].success
                           <=> results[h].protocol[p].v6.success \/ results[h].protocol[p].v4.success
    BY <2>6 DEF ResultSound
  <2>8. p \in reached <=> \E h \in Of(p, n) : results[h].protocol[p].success
    BY <1>1, <2>2 DEF Of, Succeeded
  <2> HIDE DEF n, acc
  <2>9. (acc.v4.success \/ acc.v6.success) <=> p \in reached
    BY <2>4, <2>5, <2>7, <2>8
  <2>10. AggregatedProtocol(p).success <=> p \in reached BY <2>3, <2>9
  <2> QED BY <1>3, <2>10 DEF Succeeded
<1> QED BY <1>2, <1>3

LEMMA RowFamilyMerged ==
  ASSUME Parameters, ResultsSound, row' = Aggregated, results' = results, flags' = flags,
         flags \subseteq Protocol
  PROVE  FamilyMerged'
<1> SUFFICES ASSUME NEW p \in flags, NEW family \in Family, AggregatedProtocol(p) # None
             PROVE  SaysTogether(AggregatedProtocol(p)[family], OfHosts(p, family))
  <2>1. \A p \in flags : row'.protocol[p] = AggregatedProtocol(p) BY DEF Aggregated
  <2>2. \A p, family : OfHosts(p, family)' = OfHosts(p, family) BY DEF OfHosts
  <2>3. ASSUME NEW p \in flags, NEW family \in Family, row'.protocol[p] # None
        PROVE  SaysTogether(row'.protocol[p][family], OfHosts(p, family)')
    <3>1. row'.protocol[p] = AggregatedProtocol(p) BY <2>1
    <3>2. OfHosts(p, family)' = OfHosts(p, family) BY <2>2
    <3> QED BY <2>3, <3>1, <3>2
  <2> QED BY <2>3 DEF FamilyMerged
<1> DEFINE n == Len(results)
           of == OfHosts(p, family)
<1>1. p \in Protocol OBVIOUS
<1>2. FoldHolds(p, n) BY <1>1, FoldAll
<1>3. DOMAIN results = 1..n BY DEF ResultsSound
<1>4. of = FamiliesOf(p, family, n) BY <1>3 DEF FamiliesOf, Of, OfHosts
<1>5. /\ AggregatedProtocol(p).v6 = MergedHosts(p)[n].v6
      /\ AggregatedProtocol(p).v4 = MergedHosts(p)[n].v4
  BY <1>1, AggregatedFamilies
<1>6. Together(AggregatedProtocol(p)[family], FamiliesOf(p, family, n))
  <2>1. CASE family = "v6" BY <1>2, <1>5, <2>1 DEF FoldHolds
  <2>2. CASE family = "v4" BY <1>2, <1>5, <2>2 DEF FoldHolds
  <2> QED BY <2>1, <2>2 DEF Family
<1>7. Together(AggregatedProtocol(p)[family], of) BY <1>4, <1>6
<1> HIDE DEF of
<1>8. SaysTogether(AggregatedProtocol(p)[family], of) BY <1>7, MergedSays
<1> QED BY <1>8 DEF of

LEMMA RowDetailsOfTheBest ==
  ASSUME Parameters, ResultsSound, row' = Aggregated, results' = results
  PROVE  DetailsOfTheBest'
<1> DEFINE p == "vmodem"
           n == Len(results)
           of == {h \in DOMAIN results : results[h].protocol["vmodem"] # None}
           confirmed == {h \in of : VModemDetails(results[h].protocol["vmodem"]) = "confirmed"}
           succeeded == {h \in of : results[h].protocol["vmodem"].success}
           best == CASE confirmed # {} -> confirmed
                     [] confirmed = {} /\ succeeded # {} -> succeeded
                     [] OTHER -> of
<1> SUFFICES ASSUME AggregatedProtocol(p) # None
             PROVE  AggregatedProtocol(p).from = Min(best)
  <2>1. row'.protocol["vmodem"] = AggregatedProtocol("vmodem") BY DEF Aggregated, Protocol
  <2> QED BY <2>1 DEF DetailsOfTheBest
<1>1. p \in Protocol BY DEF Protocol
<1>2. FoldHolds(p, n) BY <1>1, FoldAll
<1>3. DOMAIN results = 1..n BY DEF ResultsSound
<1>4. of = Of(p, n) BY <1>3 DEF Of
<1>5. succeeded = Succeeding(p, n) /\ confirmed = Confirming(p, n)
  BY <1>4 DEF Succeeding, Confirming
<1>6. AggregatedProtocol(p).from = MergedHosts(p)[n].from /\ of # {}
  BY <1>1, <1>4, AggregatedFamilies
<1>7. Best(MergedHosts(p)[n], of, succeeded, confirmed)
  BY <1>2, <1>4, <1>5 DEF FoldHolds
<1> HIDE DEF of, succeeded, confirmed
<1>8. First(MergedHosts(p)[n].from, best) /\ best \in SUBSET Nat
  BY <1>6, <1>7 DEF Best
<1> HIDE DEF best
<1>9. Min(best) = MergedHosts(p)[n].from BY <1>8, MinIs
<1> QED BY <1>6, <1>9

-----------------------------------------------------------------------------
(* Probes of protocols of P to come, one entry per protocol and family. *)
Entry(P) == [protocol : P, family : Family, left : 1..(MaxV6 + MaxV4)]
Differ(e, f) == e.protocol # f.protocol \/ e.family # f.family
Planned(s, P) ==
    /\ s \in Seq(Entry(P))
    /\ \A i, j \in 1..Len(s) : i # j => Differ(s[i], s[j])

LEMMA PlannedConcat ==
  ASSUME NEW P, NEW Q, P \cap Q = {}, NEW s, Planned(s, P), NEW t, Planned(t, Q)
  PROVE  Planned(s \o t, P \cup Q)
<1>1. s \in Seq(Entry(P \cup Q)) /\ t \in Seq(Entry(P \cup Q))
  <2>1. Entry(P) \subseteq Entry(P \cup Q) /\ Entry(Q) \subseteq Entry(P \cup Q)
    BY DEF Entry
  <2>2. s \in Seq(Entry(P)) /\ t \in Seq(Entry(Q)) BY DEF Planned
  <2> HIDE DEF Entry
  <2> QED BY <2>1, <2>2, SeqMonotonic
<1> DEFINE st == s \o t
<1>2. /\ st \in Seq(Entry(P \cup Q))
      /\ Len(st) = Len(s) + Len(t) /\ Len(s) \in Nat /\ Len(t) \in Nat
      /\ \A i \in 1..Len(st) : st[i] = IF i <= Len(s) THEN s[i] ELSE t[i - Len(s)]
  BY <1>1
<1> HIDE DEF st
<1>3. ASSUME NEW i \in 1..Len(st), NEW j \in 1..Len(st), i # j PROVE Differ(st[i], st[j])
  <2>1. CASE i <= Len(s) /\ j <= Len(s)
    BY <1>2, <1>3, <2>1 DEF Planned
  <2>2. CASE i > Len(s) /\ j > Len(s)
    <3>1. i - Len(s) \in 1..Len(t) /\ j - Len(s) \in 1..Len(t) /\ i - Len(s) # j - Len(s)
      BY <1>2, <1>3, <2>2
    <3>2. Differ(t[i - Len(s)], t[j - Len(s)]) BY <3>1 DEF Planned
    <3>3. st[i] = t[i - Len(s)] /\ st[j] = t[j - Len(s)] BY <1>2, <2>2
    <3> QED BY <3>2, <3>3
  <2>3. ASSUME NEW a \in 1..Len(s), NEW b \in 1..Len(t) PROVE s[a].protocol # t[b].protocol
    <3>1. s[a] \in Entry(P) /\ t[b] \in Entry(Q) BY DEF Planned
    <3> QED BY <3>1 DEF Entry
  <2>4. CASE i <= Len(s) /\ j > Len(s)
    <3>1. i \in 1..Len(s) /\ j - Len(s) \in 1..Len(t) BY <1>2, <2>4
    <3> QED BY <1>2, <2>3, <2>4, <3>1 DEF Differ
  <2>5. CASE i > Len(s) /\ j <= Len(s)
    <3>1. j \in 1..Len(s) /\ i - Len(s) \in 1..Len(t) BY <1>2, <2>5
    <3> QED BY <1>2, <2>3, <2>5, <3>1 DEF Differ
  <2> QED BY <1>2, <2>1, <2>2, <2>4, <2>5
<1> QED BY <1>2, <1>3 DEF Planned, st

LEMMA OneOrNone ==
  ASSUME NEW T, NEW c \in BOOLEAN, NEW e, c => e \in T
  PROVE  LET s == IF c THEN <<e>> ELSE <<>> IN
         s \in Seq(T) /\ Len(s) \in {0, 1} /\ (Len(s) > 0 => c) /\ \A i \in 1..Len(s) : s[i] = e
<1>1. CASE c BY <1>1
<1>2. CASE ~c BY <1>2
<1> QED BY <1>1, <1>2

LEMMA ProbesPlanned ==
  ASSUME Parameters, flags \in FlagSets, ino4 \in BOOLEAN,
         NEW v6 \in 0..MaxV6, NEW v4 \in 0..MaxV4
  PROVE  Planned(ProbesOf(v6, v4), flags) /\ (ProbesOf(v6, v4) # <<>> => v6 + v4 > 0)
<1> DEFINE families == Families(v6, v4)
           OfP(p) == IF p \in flags
                     THEN [j \in DOMAIN families |-> [protocol |-> p, family |-> families[j].family,
                                                      left |-> families[j].left]]
                     ELSE <<>>
<1>1. MaxV6 \in Nat /\ MaxV4 \in Nat /\ flags \subseteq Protocol BY DEF Parameters
<1>2. /\ families \in Seq([family : Family, left : 1..(MaxV6 + MaxV4)])
      /\ \A i, j \in 1..Len(families) : i # j => families[i].family # families[j].family
      /\ Len(families) > 0 => v6 + v4 > 0
  <2> DEFINE F == [family : Family, left : 1..(MaxV6 + MaxV4)]
             six == IF v6 > 0 THEN <<[family |-> "v6", left |-> v6]>> ELSE <<>>
             four == IF v4 > 0 /\ ~ino4 THEN <<[family |-> "v4", left |-> v4]>> ELSE <<>>
  <2>1. /\ six \in Seq(F) /\ Len(six) \in {0, 1} /\ (Len(six) > 0 => v6 > 0)
        /\ \A i \in 1..Len(six) : six[i].family = "v6"
    <3> DEFINE e == [family |-> "v6", left |-> v6]
    <3>1. v6 > 0 => e \in F BY <1>1 DEF Family
    <3>2. (v6 > 0) \in BOOLEAN /\ e.family = "v6" OBVIOUS
    <3> HIDE DEF e, F
    <3>3. LET s == IF v6 > 0 THEN <<e>> ELSE <<>> IN
          s \in Seq(F) /\ Len(s) \in {0, 1} /\ (Len(s) > 0 => v6 > 0) /\ \A i \in 1..Len(s) : s[i] = e
      BY <3>1, <3>2, OneOrNone
    <3>4. six = IF v6 > 0 THEN <<e>> ELSE <<>> BY DEF e
    <3> HIDE DEF six
    <3> QED BY <3>2, <3>3, <3>4
  <2>2. /\ four \in Seq(F) /\ Len(four) \in {0, 1} /\ (Len(four) > 0 => v4 > 0)
        /\ \A i \in 1..Len(four) : four[i].family = "v4"
    <3> DEFINE e == [family |-> "v4", left |-> v4]
               c == v4 > 0 /\ ~ino4
    <3>1. c => e \in F BY <1>1 DEF Family
    <3>2. c \in BOOLEAN /\ e.family = "v4" /\ (c => v4 > 0) OBVIOUS
    <3>3. four = IF c THEN <<e>> ELSE <<>> OBVIOUS
    <3> HIDE DEF e, F, c, four
    <3>4. LET s == IF c THEN <<e>> ELSE <<>> IN
          s \in Seq(F) /\ Len(s) \in {0, 1} /\ (Len(s) > 0 => c) /\ \A i \in 1..Len(s) : s[i] = e
      BY <3>1, <3>2, OneOrNone
    <3> QED BY <3>2, <3>3, <3>4
  <2>3. families = six \o four BY DEF Families
  <2> HIDE DEF F, six, four, families
  <2>4. /\ families \in Seq(F) /\ Len(families) = Len(six) + Len(four)
        /\ Len(six) \in Nat /\ Len(four) \in Nat
        /\ \A i \in 1..Len(families) :
                families[i] = IF i <= Len(six) THEN six[i] ELSE four[i - Len(six)]
    BY <2>1, <2>2, <2>3, ConcatProperties
  <2>5. ASSUME NEW i \in 1..Len(families), NEW j \in 1..Len(families), i < j
        PROVE  families[i].family # families[j].family
    <3>1. i = 1 /\ j = 2 /\ Len(six) = 1 /\ Len(four) = 1 BY <2>1, <2>2, <2>4, <2>5
    <3>2. families[i] = six[1] /\ families[j] = four[1] BY <2>4, <3>1
    <3>3. six[1].family = "v6" /\ four[1].family = "v4" BY <2>1, <2>2, <3>1
    <3> QED BY <3>2, <3>3
  <2>6. \A i, j \in 1..Len(families) : i # j => families[i].family # families[j].family
    <3> TAKE i, j \in 1..Len(families)
    <3>1. i \in Int /\ j \in Int OBVIOUS
    <3>2. CASE i < j BY <2>5, <3>2
    <3>3. CASE j < i BY <2>5, <3>3
    <3> QED BY <3>1, <3>2, <3>3
  <2>7. Len(families) > 0 => v6 + v4 > 0 BY <2>1, <2>2, <2>4
  <2> QED BY <2>4, <2>6, <2>7 DEF F
<1>3. ProbesOf(v6, v4) = (OfP("mailer") \o OfP("telnet")) \o OfP("vmodem")
  BY DEF ProbesOf
<1> HIDE DEF families
<1>4. ASSUME NEW p \in Protocol
      PROVE  /\ Planned(OfP(p), {p} \cap flags) /\ Len(OfP(p)) \in Nat
             /\ Len(OfP(p)) > 0 => v6 + v4 > 0
  <2>1. CASE p \notin flags BY <2>1 DEF Planned
  <2>2. CASE p \in flags
    <3>1. OfP(p) = [j \in 1..Len(families) |-> [protocol |-> p, family |-> families[j].family,
                                                left |-> families[j].left]]
      BY <1>2, <2>2
    <3> DEFINE s == OfP(p)
    <3>2. /\ s \in Seq(Entry({p} \cap flags)) /\ Len(s) = Len(families)
          /\ \A j \in 1..Len(s) : s[j].family = families[j].family
      <4>1. \A j \in 1..Len(families) : families[j] \in [family : Family, left : 1..(MaxV6 + MaxV4)]
        BY <1>2, ElementOfSeq
      <4>2. \A j \in 1..Len(families) :
                [protocol |-> p, family |-> families[j].family, left |-> families[j].left]
                    \in Entry({p} \cap flags)
        BY <2>2, <4>1 DEF Entry
      <4>3. Len(families) \in Nat BY <1>2
      <4> DEFINE E == Entry({p} \cap flags)
      <4>4. s \in [1..Len(families) -> E] BY <3>1, <4>2
      <4>5. s \in Seq(E) /\ Len(s) = Len(families)
        <5> HIDE DEF s, E
        <5>1. s \in Seq(E) BY <4>3, <4>4, SeqDef
        <5>2. DOMAIN s = 1..Len(families) BY <4>4
        <5> QED BY <4>3, <5>1, <5>2, LenProperties
      <4> QED BY <3>1, <4>5
    <3> HIDE DEF s
    <3>3. \A i, j \in 1..Len(s) : i # j => Differ(s[i], s[j])
      BY <1>2, <3>2 DEF Differ
    <3>4. Planned(s, {p} \cap flags) BY <3>2, <3>3 DEF Planned
    <3> QED BY <1>2, <3>2, <3>4 DEF s
  <2> QED BY <2>1, <2>2
<1> HIDE DEF OfP
<1> DEFINE M == OfP("mailer")  T == OfP("telnet")  V == OfP("vmodem")
<1>5. /\ Planned(M, {"mailer"} \cap flags) /\ Planned(T, {"telnet"} \cap flags)
      /\ Planned(V, {"vmodem"} \cap flags)
  BY <1>4 DEF Protocol
<1> HIDE DEF M, T, V
<1>6. Planned(M \o T, ({"mailer"} \cap flags) \cup ({"telnet"} \cap flags))
  BY <1>5, PlannedConcat
<1>7. Planned((M \o T) \o V,
              (({"mailer"} \cap flags) \cup ({"telnet"} \cap flags)) \cup ({"vmodem"} \cap flags))
  BY <1>5, <1>6, PlannedConcat
<1>8. flags = (({"mailer"} \cap flags) \cup ({"telnet"} \cap flags)) \cup ({"vmodem"} \cap flags)
  BY <1>1 DEF Protocol
<1>9. Planned(ProbesOf(v6, v4), flags) BY <1>3, <1>7, <1>8 DEF M, T, V
<1>10. ASSUME ~(v6 + v4 > 0) PROVE ProbesOf(v6, v4) = <<>>
  <2>1. Len(M) = 0 /\ Len(T) = 0 /\ Len(V) = 0 BY <1>4, <1>10 DEF Protocol, M, T, V
  <2>2. M = <<>> /\ T = <<>> /\ V = <<>> BY <1>5, <2>1 DEF Planned
  <2> QED BY <1>3, <2>2 DEF M, T, V
<1> QED BY <1>9, <1>10

(* A probe's result in its family. *)
LEMMA ResultSet ==
  ASSUME Parameters, NEW p \in Protocol, NEW family \in Family, NEW o \in Outcome,
         Possible(p, o), NEW pr, ResultSound(p, pr), p # "telnet" => ~pr[family].success
  PROVE  LET new == SetResult(pr, p, family, o) IN
         /\ ResultSound(p, new)
         /\ new.success <=> pr.success \/ o.success
         /\ new[family].success <=> o.success
         /\ \A g \in Family : g # family => new[g] = pr[g]
<1> DEFINE f == [tested |-> TRUE, success |-> o.success,
                 ms |-> IF o.success THEN o.ms ELSE 0, error |-> o.error,
                 details |-> IF p # "vmodem" THEN None
                             ELSE IF pr[family].details # None /\ ~o.success THEN pr[family].details
                             ELSE IF o.confirmed THEN "confirmed" ELSE "seen"]
           new == SetResult(pr, p, family, o)
<1>1. pr \in ProtocolResult /\ FamilySound(pr.v6) /\ FamilySound(pr.v4) BY DEF ResultSound
<1>2. FamilySound(pr[family]) BY <1>1 DEF Family
<1>3. /\ o.success \in BOOLEAN /\ o.error \in BOOLEAN /\ o.ms \in 1..MaxMs /\ MaxMs \in Nat
      /\ o.confirmed \in BOOLEAN
  BY DEF Outcome, Parameters
<1>4. pr[family].details \in Details BY <1>2 DEF FamilySound, FamilyResult
<1>5. f.details \in Details BY <1>4 DEF Details
<1>6. f.details = "confirmed" => f.success
  <2>1. "seen" # "confirmed" /\ None # "confirmed" BY DEF Parameters
  <2> QED BY <1>2, <1>3, <2>1 DEF FamilySound, Possible, Protocol
<1>7. FamilySound(f) /\ (f.success <=> o.success)
  BY <1>3, <1>5, <1>6 DEF FamilySound, FamilyResult, Possible
<1>8. new = [pr EXCEPT !.success = @ \/ o.success, ![family] = f]
  BY <1>1 DEF SetResult, ProtocolResult, Family
<1> HIDE DEF f, new
<1>9. f \in FamilyResult BY <1>7 DEF FamilySound
<1>10. /\ new \in ProtocolResult /\ (new.success <=> pr.success \/ o.success)
       /\ new[family] = f /\ \A g \in Family : g # family => new[g] = pr[g]
  <2>1. CASE family = "v6" BY <1>1, <1>3, <1>8, <1>9, <2>1 DEF ProtocolResult, Family
  <2>2. CASE family = "v4" BY <1>1, <1>3, <1>8, <1>9, <2>2 DEF ProtocolResult, Family
  <2> QED BY <2>1, <2>2 DEF Family
<1>11. \A g \in Family : FamilySound(new[g])
  BY <1>1, <1>7, <1>10 DEF Family
<1>12. new.v6.success \/ new.v4.success => new.success
  BY <1>7, <1>10 DEF ResultSound, Family
<1>13. p # "telnet" /\ new.success => new.v6.success \/ new.v4.success
  BY <1>7, <1>10 DEF ResultSound, Family
<1>14. ResultSound(p, new)
  BY <1>10, <1>11, <1>12, <1>13 DEF ResultSound, Family
<1> QED BY <1>7, <1>10, <1>14 DEF new

-----------------------------------------------------------------------------
(* The hostname under test: each of its protocols is sound, and what is still *)
(* to be probed has not succeeded, but for telnet.                            *)
CurrentSound ==
    current # None => \A p \in Protocol :
        current.protocol[p] # None => ResultSound(p, current.protocol[p])

SoFar(e) == current.protocol[e.protocol][e.family]

TodoSound ==
    /\ Planned(todo, flags)
    /\ host = None => todo = <<>>
    /\ \A i \in 1..Len(todo) : current.protocol[todo[i].protocol] # None
    /\ \A i \in 1..Len(todo) : i > 1 => ~SoFar(todo[i]).tested
    /\ todo # <<>> /\ todo[1].protocol # "telnet" => ~SoFar(todo[1]).success

TestInv ==
    /\ TestTypeOK /\ ResultsSound /\ CurrentSound /\ TodoSound /\ ReachedSound
    /\ AggregateSound

LEMMA InitSound == ASSUME Parameters, TestInit PROVE TestInv
<1>1. /\ flags \in FlagSets /\ ino4 \in BOOLEAN /\ hostnames \in 0..MaxHostnames
      /\ host = None /\ todo = <<>> /\ current = None /\ results = <<>> /\ row = None
      /\ reached = {} /\ MaxHostnames \in Nat
  BY DEF TestInit, Parameters
<1>2. TestTypeOK BY <1>1 DEF TestTypeOK
<1>3. ResultsSound BY <1>1 DEF ResultsSound
<1>4. CurrentSound /\ ReachedSound BY <1>1 DEF CurrentSound, ReachedSound, Reached
<1>5. TodoSound BY <1>1 DEF TodoSound, Planned
<1>6. AggregateSound
  BY <1>1, <1>2 DEF AggregateSound, OperationalIffReached, FamilyMerged, DetailsOfTheBest, HasAggregate
<1> QED BY <1>2, <1>3, <1>4, <1>5, <1>6 DEF TestInv

(* While nothing is returned, the property is that the types are. *)
LEMMA NotReturned == ASSUME TestTypeOK, row = None PROVE AggregateSound
BY DEF AggregateSound, OperationalIffReached, FamilyMerged, DetailsOfTheBest, HasAggregate

LEMMA TypesOfTest ==
  ASSUME Parameters, TestTypeOK
  PROVE  /\ flags \subseteq Protocol /\ hostnames \in Nat /\ results \in Seq(HostResult)
         /\ Len(results) \in Nat /\ None \notin HostResult /\ None \notin ProtocolResult
         /\ None \notin Nat
BY DEF Parameters, TestTypeOK

LEMMA ResolveStep == ASSUME Parameters, TestInv, Resolve PROVE TestInv'
<1> USE DEF TestInv
<1>1. /\ row = None /\ host = None /\ Len(results) < hostnames /\ host' = Len(results) + 1
      /\ flags' = flags /\ ino4' = ino4 /\ hostnames' = hostnames /\ results' = results
      /\ row' = row /\ reached' = reached
  BY DEF Resolve, node
<1>2. PICK error \in BOOLEAN, v6 \in 0..MaxV6, v4 \in 0..MaxV4 :
        /\ todo' = ProbesOf(v6, v4)
        /\ current' = [dnsError |-> error, resolved |-> v6 + v4 > 0, operational |-> FALSE,
                       protocol |-> [p \in Protocol |->
                            IF p \in flags /\ v6 + v4 > 0 THEN NoProbe ELSE None]]
  BY DEF Resolve
<1>3. flags \in FlagSets /\ ino4 \in BOOLEAN BY DEF TestTypeOK
<1>4. Planned(ProbesOf(v6, v4), flags) /\ (ProbesOf(v6, v4) # <<>> => v6 + v4 > 0)
  BY <1>3, ProbesPlanned
<1>5. NoProbe \in ProtocolResult
  BY DEF NoProbe, Untested, ProtocolResult, FamilyResult, Details, Parameters
<1>6. current' \in HostResult
  BY <1>2, <1>5 DEF HostResult
<1>7. \A p \in Protocol : current'.protocol[p] = IF p \in flags /\ v6 + v4 > 0 THEN NoProbe ELSE None
  BY <1>2
<1>8. current = None BY <1>1 DEF TestTypeOK
<1>9. TestTypeOK'
  <2>1. todo' \in Seq(Entry(flags)) BY <1>2, <1>4 DEF Planned
  <2>2. todo' \in Seq([protocol : flags, family : Family, left : 1..(MaxV6 + MaxV4)])
    BY <2>1 DEF Entry
  <2>3. Len(results) + 1 \in 1..hostnames /\ Len(results) + 1 # None /\ current' # None
    BY <1>1, <1>6, TypesOfTest
  <2> QED BY <1>1, <1>6, <2>2, <2>3 DEF TestTypeOK
<1>10. ResultsSound' BY <1>1 DEF ResultsSound
<1>11. \A p \in Protocol : ResultSound(p, NoProbe)
  BY <1>5 DEF ResultSound, FamilySound, NoProbe, Untested, ProtocolResult, Parameters
<1>12. CurrentSound' BY <1>7, <1>11 DEF CurrentSound
<1>13. ReachedSound'
  <2>1. \A p \in Protocol : ~Succeeded(current'.protocol[p])
    BY <1>7 DEF Succeeded, NoProbe
  <2> QED BY <1>1, <1>8, <2>1 DEF ReachedSound, Reached
<1>14. TodoSound'
  <2>1. ASSUME NEW i \in 1..Len(todo') PROVE
            /\ todo'[i].protocol \in Protocol /\ todo'[i].family \in Family
            /\ current'.protocol[todo'[i].protocol] = NoProbe
    <3>1. todo'[i] \in Entry(flags) BY <1>2, <1>4 DEF Planned
    <3>2. todo' # <<>> BY <2>1
    <3> QED BY <1>2, <1>4, <1>7, <3>1, <3>2, TypesOfTest DEF Entry
  <2>2. NoProbe # None BY <1>5, TypesOfTest
  <2>3. \A f \in Family : NoProbe[f].tested = FALSE /\ NoProbe[f].success = FALSE
    BY DEF NoProbe, Untested, Family
  <2>4. Planned(todo', flags') BY <1>1, <1>2, <1>4
  <2>5. host' # None BY <1>1, TypesOfTest
  <2>6. \A i \in 1..Len(todo') : current'.protocol[todo'[i].protocol] # None
    BY <2>1, <2>2
  <2>7. \A i \in 1..Len(todo') : ~SoFar(todo[i])'.tested /\ ~SoFar(todo[i])'.success
    BY <2>1, <2>3 DEF SoFar
  <2>8. todo' # <<>> => 1 \in 1..Len(todo')
    BY <1>2, <1>4 DEF Planned
  <2> QED BY <2>4, <2>5, <2>6, <2>7, <2>8 DEF TodoSound, Planned, Entry
<1> QED BY <1>1, <1>9, <1>10, <1>12, <1>13, <1>14, NotReturned DEF AggregateSound, OperationalIffReached, FamilyMerged, DetailsOfTheBest, HasAggregate

(* The probes to come after a probe of the first. *)
LEMMA RestPlanned ==
  ASSUME Parameters, Planned(todo, flags), todo # <<>>, NEW stops \in BOOLEAN
  PROVE  /\ Planned(Rest(stops), flags)
         /\ stops \/ Head(todo).left = 1 =>
                /\ Len(Rest(stops)) = Len(todo) - 1
                /\ \A i \in 1..Len(Rest(stops)) : Rest(stops)[i] = todo[i + 1]
         /\ ~(stops \/ Head(todo).left = 1) =>
                /\ Len(Rest(stops)) = Len(todo)
                /\ Rest(stops)[1].protocol = todo[1].protocol /\ Rest(stops)[1].family = todo[1].family
                /\ \A i \in 2..Len(Rest(stops)) : Rest(stops)[i] = todo[i]
<1> DEFINE E == Entry(flags)
           r == Rest(stops)
<1>1. todo \in Seq(E) BY DEF Planned
<1>2. /\ Head(todo) \in E /\ Tail(todo) \in Seq(E) /\ Len(Tail(todo)) = Len(todo) - 1
      /\ \A i \in 1..Len(Tail(todo)) : Tail(todo)[i] = todo[i + 1]
      /\ Head(todo) = todo[1] /\ Len(todo) \in Nat \ {0}
  <2> HIDE DEF E
  <2>1. Head(todo) = todo[1] BY <1>1
  <2> QED BY <1>1, <2>1, HeadTailProperties, EmptySeq
<1>3. CASE stops \/ Head(todo).left = 1
  <2>1. r = Tail(todo) BY <1>3 DEF Rest
  <2> HIDE DEF r, E
  <2>2. r \in Seq(E) /\ Len(r) = Len(todo) - 1 /\ \A i \in 1..Len(r) : r[i] = todo[i + 1]
    BY <1>2, <2>1
  <2>3. \A i, j \in 1..Len(r) : i # j => Differ(r[i], r[j])
    <3> TAKE i, j \in 1..Len(r)
    <3>1. i + 1 \in 1..Len(todo) /\ j + 1 \in 1..Len(todo) BY <1>2, <2>2
    <3>2. i # j => i + 1 # j + 1 OBVIOUS
    <3> QED BY <2>2, <3>1, <3>2 DEF Planned
  <2> QED BY <1>3, <2>2, <2>3 DEF Planned, r, E
<1>4. CASE ~(stops \/ Head(todo).left = 1)
  <2> DEFINE e == [Head(todo) EXCEPT !.left = @ - 1]
  <2>1. r = <<e>> \o Tail(todo) BY <1>4 DEF Rest
  <2>2. e \in E /\ e.protocol = todo[1].protocol /\ e.family = todo[1].family
    <3>1. Head(todo).left \in 1..(MaxV6 + MaxV4) /\ Head(todo).left # 1 BY <1>2, <1>4 DEF Entry
    <3>2. Head(todo).left - 1 \in 1..(MaxV6 + MaxV4) BY <3>1 DEF Parameters
    <3> QED BY <1>2, <3>2 DEF Entry
  <2> HIDE DEF r, E, e
  <2>3. <<e>> \in Seq(E) /\ Len(<<e>>) = 1 /\ <<e>>[1] = e BY <2>2
  <2>4. r \in Seq(E) /\ Len(r) = Len(todo)
        /\ \A i \in 1..Len(r) : r[i] = IF i <= 1 THEN <<e>>[i] ELSE Tail(todo)[i - 1]
    BY <1>2, <2>1, <2>3, ConcatProperties
  <2>5. r[1] = e /\ \A i \in 2..Len(r) : r[i] = todo[i]
    <3>1. r[1] = e BY <1>2, <2>3, <2>4
    <3>2. ASSUME NEW i \in 2..Len(r) PROVE r[i] = todo[i]
      <4>1. i \in 1..Len(r) /\ ~(i <= 1) /\ i - 1 \in 1..Len(Tail(todo)) /\ (i - 1) + 1 = i
        BY <1>2, <2>4
      <4> QED BY <1>2, <2>4, <4>1
    <3> QED BY <3>1, <3>2
  <2>6. \A i \in 1..Len(r) : r[i].protocol = todo[i].protocol /\ r[i].family = todo[i].family
    <3> TAKE i \in 1..Len(r)
    <3>1. CASE i = 1 BY <2>2, <2>5, <3>1
    <3>2. CASE i # 1
      <4>1. i \in 2..Len(r) BY <3>2
      <4> QED BY <2>5, <4>1
    <3> QED BY <3>1, <3>2
  <2>7. \A i, j \in 1..Len(r) : i # j => Differ(r[i], r[j])
    <3> TAKE i, j \in 1..Len(r)
    <3>1. i # j => Differ(todo[i], todo[j]) BY <2>4 DEF Planned
    <3> QED BY <2>6, <3>1 DEF Differ
  <2> QED BY <1>4, <2>2, <2>4, <2>5, <2>7 DEF Planned, r, E
<1> QED BY <1>3, <1>4

LEMMA ProbeStep == ASSUME Parameters, TestInv, Probe PROVE TestInv'
<1> USE DEF TestInv
<1> DEFINE p == Head(todo).protocol
           family == Head(todo).family
           pr == current.protocol[p]
<1>1. /\ todo # <<>> /\ flags' = flags /\ ino4' = ino4 /\ hostnames' = hostnames
      /\ host' = host /\ results' = results /\ row' = row
  BY DEF Probe, node
<1>2. PICK o \in Outcome :
        /\ Possible(p, o)
        /\ current' = [current EXCEPT !.protocol[p] = SetResult(@, p, family, o)]
        /\ todo' = Rest(Stops(p, o))
        /\ reached' = IF o.success THEN reached \cup {p} ELSE reached
  BY DEF Probe
<1> DEFINE new == SetResult(pr, p, family, o)
           stops == Stops(p, o)
<1>3. /\ Planned(todo, flags) /\ todo \in Seq(Entry(flags)) /\ Len(todo) \in Nat /\ 1 \in 1..Len(todo)
      /\ Head(todo) = todo[1] /\ todo[1] \in Entry(flags)
  <2>1. Planned(todo, flags) /\ todo \in Seq(Entry(flags)) BY DEF TodoSound, Planned
  <2> HIDE DEF TestInv
  <2>2. Len(todo) \in Nat \ {0} BY <1>1, <2>1, EmptySeq
  <2> QED BY <2>1, <2>2, ElementOfSeq
<1>4. p \in flags /\ p \in Protocol /\ family \in Family /\ p = todo[1].protocol /\ family = todo[1].family
  BY <1>3, TypesOfTest DEF Entry
<1>5. host # None /\ current # None /\ current \in HostResult
  BY <1>1 DEF TodoSound, TestTypeOK
<1>6. row = None BY <1>5 DEF TestTypeOK
<1>7. pr # None /\ ResultSound(p, pr) /\ (p # "telnet" => ~pr[family].success)
  BY <1>1, <1>3, <1>4, <1>5 DEF TodoSound, CurrentSound, SoFar
<1>8. o.success \in BOOLEAN /\ o.banner \in BOOLEAN /\ stops \in BOOLEAN BY DEF Outcome, Stops
<1>9. /\ ResultSound(p, new) /\ (new.success <=> pr.success \/ o.success)
      /\ (new[family].success <=> o.success)
      /\ \A g \in Family : g # family => new[g] = pr[g]
  <2> HIDE DEF p, family, pr
  <2> QED BY <1>2, <1>4, <1>7, ResultSet
<1> HIDE DEF new, pr, TestInv
<1>10. /\ current' \in HostResult /\ current'.protocol[p] = new
       /\ \A q \in Protocol : q # p => current'.protocol[q] = current.protocol[q]
  <2> HIDE DEF p, family
  <2>1. new \in ProtocolResult BY <1>9 DEF ResultSound
  <2>2. current' = [current EXCEPT !.protocol[p] = new] BY <1>2 DEF new, pr
  <2> QED BY <1>4, <1>5, <2>1, <2>2 DEF HostResult
<1>11. new # None /\ current' # None
  BY <1>9, <1>10, TypesOfTest DEF ResultSound, TestInv
<1>12. /\ Planned(todo', flags)
       /\ stops \/ Head(todo).left = 1 =>
              Len(todo') = Len(todo) - 1 /\ \A i \in 1..Len(todo') : todo'[i] = todo[i + 1]
       /\ ~(stops \/ Head(todo).left = 1) =>
              /\ Len(todo') = Len(todo)
              /\ todo'[1].protocol = p /\ todo'[1].family = family
              /\ \A i \in 2..Len(todo') : todo'[i] = todo[i]
  <2> HIDE DEF stops
  <2>1. todo' = Rest(stops) BY <1>2 DEF stops
  <2> QED BY <1>1, <1>3, <1>4, <1>8, <2>1, RestPlanned
<1> HIDE DEF p, family, stops
<1>13. TestTypeOK'
  <2>1. todo' \in Seq([protocol : flags, family : Family, left : 1..(MaxV6 + MaxV4)])
    BY <1>12 DEF Planned, Entry
  <2>2. reached' \subseteq flags BY <1>2, <1>4 DEF TestTypeOK, TestInv
  <2> QED BY <1>1, <1>5, <1>10, <1>11, <2>1, <2>2 DEF TestTypeOK, TestInv
<1>14. ResultsSound' BY <1>1 DEF ResultsSound, TestInv
<1>15. CurrentSound' BY <1>4, <1>5, <1>9, <1>10 DEF CurrentSound, TestInv
<1>16. ReachedSound'
  <2>1. \A q \in Protocol : Succeeded(current'.protocol[q])
                            <=> Succeeded(current.protocol[q]) \/ (q = p /\ o.success)
    BY <1>4, <1>7, <1>8, <1>9, <1>10, <1>11 DEF Succeeded, pr
  <2>2. \A q : q \in reached' <=> q \in reached \/ (q = p /\ o.success) BY <1>2, <1>8
  <2> QED BY <1>1, <1>4, <1>5, <1>11, <2>1, <2>2 DEF ReachedSound, Reached, TestInv
<1>17. TodoSound'
  <2>1. ASSUME NEW i \in 2..Len(todo) PROVE
            /\ current'.protocol[todo[i].protocol] # None
            /\ ~current'.protocol[todo[i].protocol][todo[i].family].tested
    <3>1. i \in 1..Len(todo) /\ i > 1 /\ i # 1 BY <1>3
    <3>2. todo[i] \in Entry(flags) BY <1>3, <3>1, ElementOfSeq
    <3>3. todo[i].protocol \in Protocol /\ todo[i].family \in Family
      BY <3>2, TypesOfTest DEF Entry, TestInv
    <3>4. current.protocol[todo[i].protocol] # None /\ ~SoFar(todo[i]).tested
      BY <3>1 DEF TodoSound, TestInv
    <3>5. Differ(todo[i], todo[1]) BY <1>3, <3>1 DEF Planned
    <3>6. CASE todo[i].protocol # p BY <1>10, <3>3, <3>4, <3>6 DEF SoFar
    <3>7. CASE todo[i].protocol = p
      <4>1. todo[i].family # family BY <1>4, <3>5, <3>7 DEF Differ
      <4>2. new[todo[i].family] = pr[todo[i].family] BY <1>9, <3>3, <4>1
      <4> QED BY <1>10, <1>11, <3>4, <3>7, <4>2 DEF SoFar, pr
    <3> QED BY <3>6, <3>7
  <2>2. Len(todo') \in Nat /\ (todo' # <<>> => 1 \in 1..Len(todo'))
    <3>1. todo' \in Seq(Entry(flags)) BY <1>12 DEF Planned
    <3> QED BY <3>1, EmptySeq, LenProperties
  <2>3. CASE stops \/ Head(todo).left = 1
    <3>1. ASSUME NEW i \in 1..Len(todo') PROVE
            /\ current'.protocol[todo'[i].protocol] # None
            /\ ~current'.protocol[todo'[i].protocol][todo'[i].family].tested
      <4>1. i + 1 \in 2..Len(todo) /\ todo'[i] = todo[i + 1] BY <1>3, <1>12, <2>2, <2>3
      <4> QED BY <2>1, <4>1
    <3>2. ASSUME todo' # <<>>
          PROVE  ~current'.protocol[todo'[1].protocol][todo'[1].family].success
      <4>1. 1 \in 1..Len(todo') BY <2>2, <3>2
      <4>2. todo'[1] = todo[2] /\ 2 \in 1..Len(todo) BY <1>3, <1>12, <2>2, <2>3, <4>1
      <4>3. todo[2].protocol \in Protocol /\ todo[2].family \in Family
        <5>1. todo[2] \in Entry(flags) BY <1>3, <4>2, ElementOfSeq
        <5> QED BY <5>1, TypesOfTest DEF Entry, TestInv
      <4>4. ResultSound(todo'[1].protocol, current'.protocol[todo'[1].protocol])
        BY <1>11, <1>15, <3>1, <4>1, <4>2, <4>3 DEF CurrentSound
      <4>5. FamilySound(current'.protocol[todo'[1].protocol][todo'[1].family])
        BY <4>2, <4>3, <4>4 DEF ResultSound, Family
      <4> QED BY <3>1, <4>1, <4>5 DEF FamilySound
    <3> QED BY <1>1, <1>5, <1>12, <3>1, <3>2 DEF TodoSound, SoFar
  <2>4. CASE ~(stops \/ Head(todo).left = 1)
    <3>1. ASSUME NEW i \in 2..Len(todo') PROVE
            /\ current'.protocol[todo'[i].protocol] # None
            /\ ~current'.protocol[todo'[i].protocol][todo'[i].family].tested
      BY <1>12, <2>1, <2>4
    <3>2. current'.protocol[todo'[1].protocol] # None BY <1>10, <1>11, <1>12, <2>4
    <3>3. p # "telnet" => ~o.success BY <1>8, <2>4 DEF Stops, stops
    <3>4. todo'[1].protocol # "telnet" => ~current'.protocol[todo'[1].protocol][todo'[1].family].success
      BY <1>9, <1>10, <1>12, <2>4, <3>3
    <3>5. \A i \in 1..Len(todo') : i = 1 \/ i \in 2..Len(todo') BY <2>2
    <3> QED BY <1>1, <1>5, <1>12, <3>1, <3>2, <3>4, <3>5 DEF TodoSound, SoFar
  <2> QED BY <2>3, <2>4
<1>18. AggregateSound'
  BY <1>1, <1>6, <1>13 DEF AggregateSound, OperationalIffReached, FamilyMerged, DetailsOfTheBest, HasAggregate
<1> QED BY <1>13, <1>14, <1>15, <1>16, <1>17, <1>18 DEF TestInv

LEMMA FinishHostStep == ASSUME Parameters, TestInv, FinishHost PROVE TestInv'
<1> DEFINE r == [current EXCEPT !.operational = \E p \in Protocol : Succeeded(current.protocol[p])]
<1>1. /\ host # None /\ todo = <<>> /\ results' = Append(results, r)
      /\ host' = None /\ current' = None /\ flags' = flags /\ ino4' = ino4 /\ hostnames' = hostnames
      /\ todo' = todo /\ row' = row /\ reached' = reached
  BY DEF FinishHost, node
<1>2. /\ current # None /\ current \in HostResult /\ row = None
      /\ host = Len(results) + 1 /\ host \in 1..hostnames
  BY <1>1 DEF TestInv, TestTypeOK
<1>3. /\ r \in HostResult /\ r.protocol = current.protocol
      /\ r.operational <=> \E p \in Protocol : Succeeded(current.protocol[p])
  BY <1>2 DEF HostResult
<1> HIDE DEF r
<1>4. HostSound(r) BY <1>2, <1>3 DEF HostSound, TestInv, CurrentSound
<1>5. results \in Seq(HostResult) /\ Len(results) \in Nat BY TypesOfTest DEF TestInv
<1>6. /\ results' \in Seq(HostResult) /\ Len(results') = Len(results) + 1
      /\ \A h \in 1..Len(results) : results'[h] = results[h]
      /\ results'[Len(results) + 1] = r
  BY <1>1, <1>3, <1>5
<1>7. DOMAIN results = 1..Len(results) /\ DOMAIN results' = 1..(Len(results) + 1)
  BY <1>5, <1>6
<1>8. TestTypeOK'
  BY <1>1, <1>2, <1>5, <1>6 DEF TestTypeOK, TestInv
<1>9. ResultsSound'
  <2>1. ASSUME NEW h \in 1..(Len(results) + 1) PROVE HostSound(results'[h])
    <3>1. CASE h = Len(results) + 1 BY <1>4, <1>6, <3>1
    <3>2. CASE h # Len(results) + 1
      <4>1. h \in 1..Len(results) BY <1>5, <3>2
      <4> QED BY <1>6, <1>7, <4>1 DEF TestInv, ResultsSound
    <3> QED BY <3>1, <3>2
  <2> QED BY <1>6, <1>7, <2>1 DEF ResultsSound
<1>10. CurrentSound' BY <1>1 DEF CurrentSound
<1>11. ReachedSound'
  <2>1. ASSUME NEW p \in Protocol PROVE Reached(p)' <=> Reached(p)
    <3>1. (\E h \in DOMAIN results' : Succeeded(results'[h].protocol[p]))
            <=> (\E h \in DOMAIN results : Succeeded(results[h].protocol[p]))
                  \/ Succeeded(r.protocol[p])
      <4>1. \A h \in 1..(Len(results) + 1) : h \in 1..Len(results) \/ h = Len(results) + 1
        BY <1>5
      <4>2. Len(results) + 1 \in 1..(Len(results) + 1) /\ \A h \in 1..Len(results) : h \in 1..(Len(results) + 1)
        BY <1>5
      <4> QED BY <1>6, <1>7, <4>1, <4>2
    <3> QED BY <1>1, <1>2, <1>3, <3>1 DEF Reached
  <2> QED BY <1>1, <2>1 DEF ReachedSound, TestInv
<1>12. TodoSound' BY <1>1 DEF TodoSound, Planned, Entry, TestInv
<1>13. AggregateSound'
  BY <1>1, <1>2, <1>8 DEF AggregateSound, OperationalIffReached, FamilyMerged, DetailsOfTheBest, HasAggregate
<1> QED BY <1>8, <1>9, <1>10, <1>11, <1>12, <1>13 DEF TestInv

(* What a return keeps. *)
LEMMA Returned ==
  ASSUME Parameters, TestInv, host = None, row = None,
         UNCHANGED <<node, host, todo, current, results, reached>>
  PROVE  TestTypeOK' /\ ResultsSound' /\ CurrentSound' /\ TodoSound' /\ ReachedSound'
BY DEF TestInv, TestTypeOK, ResultsSound, CurrentSound, TodoSound, ReachedSound, Reached, Planned, Entry,
       SoFar, node

LEMMA ReturnAggregatedStep == ASSUME Parameters, TestInv, ReturnAggregated PROVE TestInv'
<1>1. /\ row = None /\ host = None /\ hostnames > 1 /\ row' = Aggregated
      /\ UNCHANGED <<node, host, todo, current, results, reached>>
      /\ results' = results /\ flags' = flags /\ hostnames' = hostnames /\ reached' = reached
  BY DEF ReturnAggregated, node
<1>2. TestTypeOK' /\ ResultsSound' /\ CurrentSound' /\ TodoSound' /\ ReachedSound'
  BY <1>1, Returned
<1>3. /\ current = None /\ ResultsSound /\ ReachedSound /\ flags \subseteq Protocol /\ hostnames # 1
  BY <1>1, TypesOfTest DEF TestInv, TestTypeOK
<1>4. OperationalIffReached'
  <2>1. row'.operational = Operational(Aggregated.protocol) /\ Aggregated.protocol = row'.protocol
    BY <1>1 DEF Aggregated
  <2>2. row'.operational = (reached # {}) BY <1>3, <2>1, OperationalOfRow
  <2>3. \A p \in flags : row'.protocol[p] = AggregatedProtocol(p) BY <1>1, <1>3 DEF Aggregated
  <2>4. \A p \in flags \ {"telnet"} : Succeeded(row'.protocol[p]) = (p \in reached)
    BY <1>3, <2>3, SuccessOfRow
  <2> QED BY <1>1, <1>2, <1>3, <2>2, <2>4 DEF OperationalIffReached, Succeeded
<1>5. FamilyMerged' BY <1>1, <1>3, RowFamilyMerged
<1>6. DetailsOfTheBest' BY <1>1, <1>3, RowDetailsOfTheBest
<1> QED BY <1>2, <1>4, <1>5, <1>6 DEF TestInv, AggregateSound

LEMMA ReturnSingleStep == ASSUME Parameters, TestInv, ReturnSingle PROVE TestInv'
<1>1. /\ row = None /\ host = None /\ row' = Single /\ Len(results) = hostnames
      /\ UNCHANGED <<node, host, todo, current, results, reached>>
      /\ results' = results /\ flags' = flags /\ hostnames' = hostnames /\ reached' = reached
  BY DEF ReturnSingle, node
<1>2. TestTypeOK' /\ ResultsSound' /\ CurrentSound' /\ TodoSound' /\ ReachedSound'
  BY <1>1, Returned
<1>3. current = None /\ ResultsSound /\ ReachedSound BY <1>1 DEF TestInv, TestTypeOK
<1>4. ASSUME hostnames = 1 PROVE results[1].operational = (reached # {})
  <2>1. DOMAIN results = {1} BY <1>1, <1>3, <1>4 DEF ResultsSound
  <2>2. HostSound(results[1]) BY <1>3, <2>1 DEF ResultsSound
  <2>3. results[1].operational \in BOOLEAN BY <2>2 DEF HostSound, HostResult
  <2>4. results[1].operational <=> \E p \in Protocol : Succeeded(results[1].protocol[p])
    BY <2>2 DEF HostSound
  <2>5. reached # {} <=> \E p \in Protocol : Succeeded(results[1].protocol[p])
    BY <1>3, <2>1 DEF ReachedSound, Reached
  <2> QED BY <2>3, <2>4, <2>5
<1>5. ~HasAggregate' BY <1>1 DEF HasAggregate
<1> QED BY <1>1, <1>2, <1>4, <1>5 DEF TestInv, AggregateSound, OperationalIffReached, FamilyMerged, DetailsOfTheBest

LEMMA CancelStep == ASSUME Parameters, TestInv, Cancel PROVE TestInv'
<1>1. /\ row = None /\ host = None /\ row' = Cancelled /\ hostnames > 1
      /\ UNCHANGED <<node, host, todo, current, results, reached>> /\ hostnames' = hostnames
  BY DEF Cancel, node
<1>2. TestTypeOK' /\ ResultsSound' /\ CurrentSound' /\ TodoSound' /\ ReachedSound'
  BY <1>1, Returned
<1>3. hostnames' # 1 /\ ~HasAggregate' BY <1>1, TypesOfTest DEF TestInv, HasAggregate
<1> QED BY <1>2, <1>3 DEF TestInv, AggregateSound, OperationalIffReached, FamilyMerged, DetailsOfTheBest

LEMMA TestStutter == ASSUME TestInv, UNCHANGED testVars PROVE TestInv'
<1>1. /\ flags' = flags /\ ino4' = ino4 /\ hostnames' = hostnames /\ host' = host /\ todo' = todo
      /\ current' = current /\ results' = results /\ row' = row /\ reached' = reached
  BY DEF testVars, node
<1>2. TestTypeOK' /\ ResultsSound' /\ CurrentSound' /\ TodoSound' /\ ReachedSound'
  BY <1>1 DEF TestInv, TestTypeOK, ResultsSound, CurrentSound, TodoSound, ReachedSound, Reached, Planned,
              Entry, SoFar
<1>3. OperationalIffReached' BY <1>1, <1>2 DEF TestInv, AggregateSound, OperationalIffReached, HasAggregate
<1>4. FamilyMerged'
  <2>1. \A p, family : OfHosts(p, family)' = OfHosts(p, family) BY <1>1 DEF OfHosts
  <2> QED BY <1>1, <2>1 DEF TestInv, AggregateSound, FamilyMerged, HasAggregate
<1>5. DetailsOfTheBest' BY <1>1 DEF TestInv, AggregateSound, DetailsOfTheBest, HasAggregate
<1> QED BY <1>2, <1>3, <1>4, <1>5 DEF TestInv, AggregateSound

(* A node is operational exactly when a probe of one of its hostnames         *)
(* succeeded, and the aggregated row is what the hostnames say together, for  *)
(* every number of hostnames and of addresses and every order of them.        *)
THEOREM AggregateSoundCorrect == TestSpec => []AggregateSound
<1> Parameters BY NodeTestAssumption
<1>1. TestInit => TestInv BY InitSound
<1>2. TestInv /\ [TestNext]_testVars => TestInv'
  BY ResolveStep, ProbeStep, FinishHostStep, ReturnAggregatedStep, ReturnSingleStep, CancelStep,
     TestStutter DEF TestNext
<1>3. TestInv => AggregateSound BY DEF TestInv
<1> QED BY <1>1, <1>2, <1>3, PTL DEF TestSpec

-----------------------------------------------------------------------------
(* The peers of the protocol clients. *)

(* A function defined by recursion over the naturals exists. *)
Recursion(g, D, b, F) ==
    g \in [Nat -> D] /\ g[0] = b /\ \A n \in Nat : g[n + 1] = F[n + 1][g[n]]

LEMMA RecursionExists ==
  ASSUME NEW D, NEW b \in D, NEW F \in [Nat -> [D -> D]]
  PROVE  \E g : Recursion(g, D, b, F)
<1> DEFINE Upto(g, N) == g[0] = b /\ \A k \in Nat : k < N => g[k + 1] = F[k + 1][g[k]]
           S == {N \in Nat : \E g \in [0..N -> D] : Upto(g, N)}
<1>1. \A N \in Nat : \E g \in [0..N -> D] : Upto(g, N)
  <2>1. 0 \in S
    <3> DEFINE g0 == [k \in 0..0 |-> b]
    <3>1. g0 \in [0..0 -> D] /\ Upto(g0, 0) OBVIOUS
    <3> QED BY <3>1
  <2>2. ASSUME NEW N \in Nat, N \in S PROVE N + 1 \in S
    <3>1. PICK g \in [0..N -> D] : Upto(g, N) BY <2>2
    <3> DEFINE m == F[N + 1][g[N]]
               e == [k \in 0..(N + 1) |-> IF k = N + 1 THEN m ELSE g[k]]
    <3>2. m \in D BY <3>1
    <3>3. e \in [0..(N + 1) -> D] BY <3>1, <3>2
    <3>4. Upto(e, N + 1)
      <4>1. e[0] = b BY <3>1
      <4>2. ASSUME NEW k \in Nat, k < N + 1 PROVE e[k + 1] = F[k + 1][e[k]]
        <5>1. e[k] = g[k] BY <4>2
        <5>2. CASE k = N
          <6>1. e[N + 1] = m OBVIOUS
          <6> QED BY <5>1, <5>2, <6>1
        <5>3. CASE k < N
          <6>1. e[k + 1] = g[k + 1] BY <5>3
          <6> QED BY <3>1, <5>1, <5>3, <6>1
        <5> QED BY <4>2, <5>2, <5>3
      <4> QED BY <4>1, <4>2
    <3>5. N + 1 \in Nat OBVIOUS
    <3> HIDE DEF Upto, e
    <3> QED BY <3>3, <3>4, <3>5
  <2> HIDE DEF S
  <2>3. Nat \subseteq S BY <2>1, <2>2, NaturalsInSet
  <2> QED BY <2>3 DEF S
<1>2. ASSUME NEW N \in Nat, NEW M \in Nat, N <= M,
             NEW g \in [0..N -> D], NEW h \in [0..M -> D], Upto(g, N), Upto(h, M)
      PROVE  \A k \in 0..N : g[k] = h[k]
  <2> DEFINE T == {k \in Nat : k <= N => g[k] = h[k]}
  <2>1. 0 \in T BY <1>2
  <2>2. ASSUME NEW k \in Nat, k \in T PROVE k + 1 \in T
    <3>1. SUFFICES ASSUME k < N PROVE g[k + 1] = h[k + 1] OBVIOUS
    <3>2. g[k] = h[k] /\ k < M BY <1>2, <2>2, <3>1
    <3>3. g[k + 1] = F[k + 1][g[k]] BY <1>2, <3>1
    <3>4. h[k + 1] = F[k + 1][h[k]] BY <1>2, <3>2
    <3> QED BY <3>2, <3>3, <3>4
  <2> HIDE DEF T
  <2>3. Nat \subseteq T BY <2>1, <2>2, NaturalsInSet
  <2> QED BY <2>3 DEF T
<1> DEFINE Pick(n) == CHOOSE g \in [0..n -> D] : Upto(g, n)
           G == [n \in Nat |-> Pick(n)[n]]
<1>3. \A n \in Nat : Pick(n) \in [0..n -> D] /\ Upto(Pick(n), n)
  <2> HIDE DEF Upto
  <2> QED BY <1>1
<1> HIDE DEF Pick
<1>4. G \in [Nat -> D] BY <1>3
<1>5. G[0] = b BY <1>3
<1>6. ASSUME NEW n \in Nat PROVE G[n + 1] = F[n + 1][G[n]]
  <2>1. n + 1 \in Nat OBVIOUS
  <2>2. Pick(n + 1)[n + 1] = F[n + 1][Pick(n + 1)[n]]
    <3>1. Upto(Pick(n + 1), n + 1) BY <1>3, <2>1
    <3> QED BY <3>1
  <2>3. Pick(n)[n] = Pick(n + 1)[n]
    <3> HIDE DEF Upto
    <3>1. n <= n + 1 /\ n \in 0..n OBVIOUS
    <3>2. \A k \in 0..n : Pick(n)[k] = Pick(n + 1)[k] BY <1>2, <1>3, <2>1, <3>1, Zenon
    <3> QED BY <3>1, <3>2
  <2> QED BY <2>1, <2>2, <2>3
<1> HIDE DEF G
<1> QED BY <1>4, <1>5, <1>6 DEF Recursion

(* The least and the greatest element of a set of numbers. *)
LEMMA LeastExists ==
  ASSUME NEW S \in SUBSET Nat, S # {}
  PROVE  Client!Min(S) \in S /\ \A y \in S : Client!Min(S) <= y
<1>1. PICK x \in S : \A y \in S : ~ (<<y, x>> \in OpToRel(<, Nat))
  BY NatLessThanWellFounded, WFMin
<1>2. \A y \in S : ~ (y < x) BY <1>1, S \subseteq Nat DEF OpToRel
<1>3. \A y \in S : x <= y BY <1>2
<1> QED BY <1>3 DEF Client!Min

LEMMA LeastIs ==
  ASSUME NEW S \in SUBSET Nat, NEW m \in S, \A y \in S : m <= y
  PROVE  Client!Min(S) = m
<1>1. Client!Min(S) \in S /\ \A y \in S : Client!Min(S) <= y BY LeastExists
<1>2. Client!Min(S) \in Nat /\ m \in Nat /\ Client!Min(S) <= m /\ m <= Client!Min(S) BY <1>1
<1> QED BY <1>2
LEMMA GreatestIs ==
  ASSUME NEW S \in SUBSET Nat, NEW m \in S, \A y \in S : y <= m
  PROVE  Client!Max(S) = m
<1>1. Client!Max(S) \in S /\ \A y \in S : Client!Max(S) >= y BY DEF Client!Max
<1>2. Client!Max(S) \in Nat /\ m \in Nat /\ Client!Max(S) <= m /\ m <= Client!Max(S) BY <1>1
<1> QED BY <1>2
-----------------------------------------------------------------------------
(* The telnet layer. *)

Stream(decoded, replies, pending) ==
    [decoded |-> decoded, replies |-> replies, pending |-> pending]

(* Data of which nothing, or of which the first n bytes, are taken. *)
Taken(d, r, data, n, byte, reply) ==
    Stream(d \o byte, r \o reply, SubSeq(data, n + 1, Len(data)))

LEMMA CommandHead ==
  ASSUME NEW data \in Seq(Byte), data # <<>>, data[1] = "IAC", data # <<"IAC">>
  PROVE  Len(data) > 1
<1>1. PICK n \in Nat : n = Len(data) OBVIOUS
<1>2. n # 0 BY <1>1
<1>3. n # 1 BY <1>1
<1>4. n > 1 BY <1>2, <1>3
<1> QED BY <1>1, <1>4

LEMMA LongIsNoStub ==
  ASSUME NEW data, Len(data) > 1
  PROVE  data # <<>> /\ data # <<"IAC">>
<1>1. Len(<<>>) = 0 /\ Len(<<"IAC">>) = 1 OBVIOUS
<1> QED BY <1>1

(* The turns of process, one by one. *)
LEMMA TurnStuck ==
  ASSUME NEW s, s.pending = <<>> \/ s.pending = <<"IAC">>
  PROVE  Client!ProcessNext(s) = s
BY DEF Client!ProcessNext

LEMMA TurnByte ==
  ASSUME NEW d \in Seq(Byte), NEW r \in Seq(Byte), NEW data \in Seq(Byte),
         data # <<>>, data[1] # "IAC"
  PROVE  Client!ProcessNext(Stream(d, r, data)) = Taken(d, r, data, 1, <<data[1]>>, <<>>)
<1>1. data # <<"IAC">> OBVIOUS
<1>2. Append(d, data[1]) = d \o <<data[1]>> /\ r \o <<>> = r OBVIOUS
<1>3. Client!ProcessNext(Stream(d, r, data)) = Client!Drop(Client!Decode(Stream(d, r, data), data[1]), 1)
  BY <1>1 DEF Client!ProcessNext, Stream
<1> QED BY <1>2, <1>3 DEF Client!Drop, Client!Decode, Taken, Stream

LEMMA TurnEscaped ==
  ASSUME NEW d \in Seq(Byte), NEW r \in Seq(Byte), NEW data \in Seq(Byte),
         Len(data) > 1, data[1] = "IAC", data[2] = "IAC"
  PROVE  Client!ProcessNext(Stream(d, r, data)) = Taken(d, r, data, 2, <<"IAC">>, <<>>)
<1>1. data # <<>> /\ data # <<"IAC">> BY LongIsNoStub
<1>2. Append(d, "IAC") = d \o <<"IAC">> /\ r \o <<>> = r OBVIOUS
<1>3. Client!ProcessNext(Stream(d, r, data)) = Client!Drop(Client!Decode(Stream(d, r, data), "IAC"), 2)
  BY <1>1 DEF Client!ProcessNext, Stream, Client!Commands
<1> QED BY <1>2, <1>3 DEF Client!Drop, Client!Decode, Taken, Stream

LEMMA TurnOption ==
  ASSUME NEW d \in Seq(Byte), NEW r \in Seq(Byte), NEW data \in Seq(Byte),
         Len(data) > 1, data[1] = "IAC", data[2] \in Client!Commands
  PROVE  /\ Len(data) = 2 => Client!ProcessNext(Stream(d, r, data)) = Stream(d, r, data)
         /\ Len(data) # 2 => Client!ProcessNext(Stream(d, r, data)) =
                               Taken(d, r, data, 3, <<>>, Client!Negotiate(data[2], data[3]))
<1>1. data # <<>> /\ data # <<"IAC">> BY LongIsNoStub
<1>2. d \o <<>> = d OBVIOUS
<1> DEFINE s == Stream(d, r, data)
<1>3. Client!ProcessNext(s) =
         IF Len(data) = 2 THEN s
         ELSE Client!Drop([s EXCEPT !.replies = @ \o Client!Negotiate(data[2], data[3])], 3)
  BY <1>1 DEF Client!ProcessNext, Stream, Client!Commands
<1> QED BY <1>2, <1>3 DEF Client!Drop, Taken, Stream

LEMMA TurnSubnegotiation ==
  ASSUME NEW d \in Seq(Byte), NEW r \in Seq(Byte), NEW data \in Seq(Byte),
         Len(data) > 1, data[1] = "IAC", data[2] = "SB"
  PROVE  /\ Client!Ends(data) = {} => Client!ProcessNext(Stream(d, r, data)) = Stream(d, r, data)
         /\ Client!Ends(data) # {} =>
              Client!ProcessNext(Stream(d, r, data)) =
                Taken(d, r, data, Client!Min(Client!Ends(data)) + 1, <<>>, <<>>)
<1>1. data # <<>> /\ data # <<"IAC">> BY LongIsNoStub
<1>2. d \o <<>> = d /\ r \o <<>> = r OBVIOUS
<1> DEFINE s == Stream(d, r, data)
<1>3. Client!ProcessNext(s) =
         IF Client!Ends(data) = {} THEN s ELSE Client!Drop(s, Client!Min(Client!Ends(data)) + 1)
  BY <1>1 DEF Client!ProcessNext, Stream, Client!Commands
<1> QED BY <1>2, <1>3 DEF Client!Drop, Taken, Stream

LEMMA TurnOther ==
  ASSUME NEW d \in Seq(Byte), NEW r \in Seq(Byte), NEW data \in Seq(Byte),
         Len(data) > 1, data[1] = "IAC", data[2] \notin {"IAC", "SB"} \cup Client!Commands
  PROVE  Client!ProcessNext(Stream(d, r, data)) = Taken(d, r, data, 2, <<>>, <<>>)
<1>1. data # <<>> /\ data # <<"IAC">> BY LongIsNoStub
<1>2. d \o <<>> = d /\ r \o <<>> = r OBVIOUS
<1>3. Client!ProcessNext(Stream(d, r, data)) = Client!Drop(Stream(d, r, data), 2)
  BY <1>1 DEF Client!ProcessNext, Stream, Client!Commands
<1> QED BY <1>2, <1>3 DEF Client!Drop, Taken, Stream
LEMMA WordTyped ==
  ASSUME NEW S, NEW x \in S, NEW y \in S, NEW z \in S
  PROVE  <<x>> \in Seq(S) /\ <<x, y, z>> \in Seq(S)
OBVIOUS

LEMMA NegotiateTyped ==
  ASSUME NEW cmd \in Client!Commands, NEW opt \in Byte
  PROVE  Client!Negotiate(cmd, opt) \in Seq(Byte)
<1>a. /\ "IAC" \in Byte /\ "WILL" \in Byte /\ "WONT" \in Byte
      /\ "DO" \in Byte /\ "DONT" \in Byte
  BY DEF Byte, Client!Commands, Client!Printable
<1>1. /\ <<"IAC", "WILL", opt>> \in Seq(Byte) /\ <<"IAC", "WONT", opt>> \in Seq(Byte)
      /\ <<"IAC", "DO", opt>> \in Seq(Byte) /\ <<"IAC", "DONT", opt>> \in Seq(Byte)
  BY <1>a, WordTyped, Zenon
<1> QED BY <1>1 DEF Client!Commands, Client!Negotiate

(* A subnegotiation ends where it ended, whatever follows. *)
LEMMA EndsFollowed ==
  ASSUME NEW data \in Seq(Byte), NEW b \in Seq(Byte), Client!Ends(data) # {}
  PROVE  /\ Client!Min(Client!Ends(data)) \in 3..(Len(data) - 1)
         /\ Client!Ends(data \o b) # {}
         /\ Client!Min(Client!Ends(data \o b)) = Client!Min(Client!Ends(data))
<1> DEFINE m == Client!Min(Client!Ends(data))
<1>1. Client!Ends(data) \in SUBSET Nat /\ Client!Ends(data \o b) \in SUBSET Nat
  BY DEF Client!Ends
<1>2. m \in Client!Ends(data) /\ \A y \in Client!Ends(data) : m <= y BY <1>1, LeastExists
<1> HIDE DEF m
<1>3. m \in 3..(Len(data) - 1) /\ data[m] = "IAC" /\ data[m + 1] = "SE"
  BY <1>2 DEF Client!Ends
<1>4. m \in Client!Ends(data \o b)
  BY <1>3 DEF Client!Ends
<1>5. ASSUME NEW y \in Client!Ends(data \o b) PROVE m <= y
  <2>1. y \in Nat /\ y >= 3 /\ (data \o b)[y] = "IAC" /\ (data \o b)[y + 1] = "SE"
    BY <1>5 DEF Client!Ends
  <2>2. SUFFICES ASSUME y < m PROVE FALSE BY <1>3, <2>1
  <2>3. y \in 1..Len(data) /\ y + 1 \in 1..Len(data) /\ y \in 3..(Len(data) - 1)
    BY <1>3, <2>1, <2>2
  <2>4. (data \o b)[y] = data[y] /\ (data \o b)[y + 1] = data[y + 1] BY <2>3
  <2>5. y \in Client!Ends(data) BY <2>1, <2>3, <2>4 DEF Client!Ends
  <2> QED BY <1>2, <1>3, <2>1, <2>2, <2>5
<1>6. Client!Min(Client!Ends(data \o b)) = m BY <1>1, <1>4, <1>5, LeastIs
<1> QED BY <1>3, <1>4, <1>6 DEF m

LEMMA Following ==
  ASSUME NEW data \in Seq(Byte), NEW b \in Seq(Byte), data # <<>>
  PROVE  /\ data \o b \in Seq(Byte) /\ data \o b # <<>> /\ (data \o b)[1] = data[1]
         /\ Len(data) > 1 => Len(data \o b) > 1 /\ (data \o b)[2] = data[2]
         /\ Len(data) > 2 => Len(data \o b) # 2 /\ (data \o b)[3] = data[3]
OBVIOUS

(* A turn that takes something takes the same whatever follows.               *)
LEMMA TurnTakes ==
  ASSUME NEW d \in Seq(Byte), NEW r \in Seq(Byte), NEW data \in Seq(Byte),
         Client!ProcessNext(Stream(d, r, data)) # Stream(d, r, data)
  PROVE  \E n \in 1..Len(data), x \in Seq(Byte), y \in Seq(Byte) :
            \A b \in Seq(Byte) :
               Client!ProcessNext(Stream(d, r, data \o b)) = Taken(d, r, data \o b, n, x, y)
<1> DEFINE After(b) == Client!ProcessNext(Stream(d, r, data \o b))
           Take(n, x, y) == \A b \in Seq(Byte) : After(b) = Taken(d, r, data \o b, n, x, y)
<1>1. data # <<>> /\ data # <<"IAC">> BY TurnStuck DEF Stream
<1>2. data[1] \in Byte BY <1>1
<1>3. <<>> \in Seq(Byte) /\ <<"IAC">> \in Seq(Byte) /\ <<data[1]>> \in Seq(Byte)
  <2>1. <<>> \in Seq(Byte) /\ "IAC" \in Byte BY DEF Byte, Client!Printable
  <2> QED BY <1>2, <2>1, WordTyped, Zenon
<1> SUFFICES \E n \in 1..Len(data), x \in Seq(Byte), y \in Seq(Byte) : Take(n, x, y)
  OBVIOUS
<1>4. CASE data[1] # "IAC"
  <2>1. ASSUME NEW b \in Seq(Byte)
        PROVE  After(b) = Taken(d, r, data \o b, 1, <<data[1]>>, <<>>)
    <3>1. data \o b \in Seq(Byte) /\ data \o b # <<>> /\ (data \o b)[1] = data[1]
      BY <1>1, Following
    <3>2. data \o b # <<>> /\ (data \o b)[1] # "IAC" BY <1>4, <3>1
    <3>3. After(b) = Taken(d, r, data \o b, 1, <<(data \o b)[1]>>, <<>>)
      BY <3>1, <3>2, TurnByte, Zenon
    <3> QED BY <3>1, <3>3, Zenon
  <2>2. Take(1, <<data[1]>>, <<>>) BY <2>1
  <2>3. 1 \in 1..Len(data) BY <1>1
  <2> HIDE DEF Take
  <2> QED BY <1>3, <2>2, <2>3
<1>5. CASE data[1] = "IAC"
  <2>1. Len(data) > 1 BY <1>1, <1>5, CommandHead
  <2>2. ASSUME NEW b \in Seq(Byte)
        PROVE  /\ data \o b \in Seq(Byte) /\ Len(data \o b) > 1
               /\ (data \o b)[1] = "IAC" /\ (data \o b)[2] = data[2]
               /\ Len(data) > 2 => Len(data \o b) # 2 /\ (data \o b)[3] = data[3]
    BY <1>1, <1>5, <2>1, Following
  <2>3. 2 \in 1..Len(data) BY <2>1
  <2>4. CASE data[2] = "IAC"
    <3>1. ASSUME NEW b \in Seq(Byte)
          PROVE  After(b) = Taken(d, r, data \o b, 2, <<"IAC">>, <<>>)
      <4>1. (data \o b)[2] = "IAC" BY <2>2, <2>4, Zenon
      <4> QED BY <2>2, <4>1, TurnEscaped, Zenon
    <3>2. Take(2, <<"IAC">>, <<>>) BY <3>1
    <3> HIDE DEF Take
    <3> QED BY <1>3, <2>3, <3>2
  <2>5. CASE data[2] \in Client!Commands
    <3>1. Len(data) # 2 BY <1>5, <2>1, <2>5, TurnOption
    <3>2. Len(data) > 2 /\ 3 \in 1..Len(data)
      <4>1. PICK n \in Nat : n = Len(data) OBVIOUS
      <4>2. n > 1 /\ n # 2 BY <2>1, <3>1, <4>1
      <4>3. n > 2 /\ 3 \in 1..n BY <4>2
      <4> QED BY <4>1, <4>3
    <3> DEFINE reply == Client!Negotiate(data[2], data[3])
    <3>3. data[3] \in Byte BY <3>2
    <3>4. reply \in Seq(Byte) BY <2>5, <3>3, NegotiateTyped
    <3>5. ASSUME NEW b \in Seq(Byte)
          PROVE  After(b) = Taken(d, r, data \o b, 3, <<>>, reply)
      <4>1. (data \o b)[2] \in Client!Commands BY <2>2, <2>5, Zenon
      <4>2. Len(data \o b) # 2 /\ (data \o b)[3] = data[3] BY <2>2, <3>2, Zenon
      <4>3. After(b) = Taken(d, r, data \o b, 3, <<>>, Client!Negotiate((data \o b)[2], (data \o b)[3]))
        BY <2>2, <4>1, <4>2, TurnOption, Zenon
      <4> QED BY <2>2, <4>2, <4>3, Zenon
    <3> HIDE DEF reply
    <3>6. Take(3, <<>>, reply) BY <3>5
    <3> HIDE DEF Take
    <3> QED BY <1>3, <3>2, <3>4, <3>6
  <2>6. CASE data[2] = "SB"
    <3>1. Client!Ends(data) # {} BY <1>5, <2>1, <2>6, TurnSubnegotiation
    <3> DEFINE m == Client!Min(Client!Ends(data))
    <3>2. m \in 3..(Len(data) - 1) BY <1>3, <3>1, EndsFollowed
    <3>3. m + 1 \in 1..Len(data) BY <3>2
    <3>4. ASSUME NEW b \in Seq(Byte)
          PROVE  After(b) = Taken(d, r, data \o b, m + 1, <<>>, <<>>)
      <4>1. Client!Ends(data \o b) # {} /\ Client!Min(Client!Ends(data \o b)) = m
        BY <3>1, EndsFollowed
      <4>2. (data \o b)[2] = "SB" BY <2>2, <2>6, Zenon
      <4>3. After(b) = Taken(d, r, data \o b, Client!Min(Client!Ends(data \o b)) + 1, <<>>, <<>>)
        BY <2>2, <4>1, <4>2, TurnSubnegotiation, Zenon
      <4> QED BY <4>1, <4>3
    <3> HIDE DEF m
    <3>5. Take(m + 1, <<>>, <<>>) BY <3>4
    <3> HIDE DEF Take
    <3> QED BY <1>3, <3>3, <3>5
  <2>7. CASE data[2] \notin {"IAC", "SB"} \cup Client!Commands
    <3>1. Take(2, <<>>, <<>>) BY <2>2, <2>7, TurnOther
    <3> HIDE DEF Take
    <3> QED BY <1>3, <2>3, <3>1
  <2> QED BY <2>4, <2>5, <2>6, <2>7
<1> QED BY <1>4, <1>5
StreamState == [decoded : Seq(Byte), replies : Seq(Byte), pending : Seq(Byte)]
Followed(s, more) == Stream(s.decoded, s.replies, s.pending \o more)

LEMMA StreamIs ==
  ASSUME NEW s \in StreamState
  PROVE  \E d \in Seq(Byte), r \in Seq(Byte), data \in Seq(Byte) : s = Stream(d, r, data)
<1>1. s = Stream(s.decoded, s.replies, s.pending) BY DEF Stream, StreamState
<1>2. s.decoded \in Seq(Byte) /\ s.replies \in Seq(Byte) /\ s.pending \in Seq(Byte)
  BY DEF StreamState
<1> QED BY <1>1, <1>2, Zenon

LEMMA RestOf ==
  ASSUME NEW data \in Seq(Byte), NEW n \in 1..Len(data)
  PROVE  /\ SubSeq(data, n + 1, Len(data)) \in Seq(Byte)
         /\ Len(SubSeq(data, n + 1, Len(data))) < Len(data)
OBVIOUS

LEMMA DropHead ==
  ASSUME NEW S, NEW u \in Seq(S), NEW v \in Seq(S)
  PROVE  SubSeq(u \o v, Len(u) + 1, Len(u \o v)) = v
<1> DEFINE w == SubSeq(u \o v, Len(u) + 1, Len(u) + Len(v))
<1>1. PICK m \in Nat : m = Len(u) BY LenProperties
<1>2. PICK n \in Nat : n = Len(v) BY LenProperties
<1>3. /\ u \o v \in Seq(S) /\ Len(u \o v) = m + n
      /\ \A i \in 1..(m + n) : (u \o v)[i] = IF i <= m THEN u[i] ELSE v[i - m]
  BY <1>1, <1>2, ConcatProperties
<1>4. w = SubSeq(u \o v, m + 1, m + n) BY <1>1, <1>2
<1> HIDE DEF w
<1>5. \A i \in (m + 1)..(m + n) : (u \o v)[i] \in S
  <2>1. \A i \in 1..Len(u \o v) : (u \o v)[i] \in S BY <1>3
  <2> HIDE DEF w
  <2> QED BY <1>3, <2>1
<1>6. /\ w \in Seq(S)
      /\ Len(w) = IF m + 1 <= m + n THEN (m + n) - (m + 1) + 1 ELSE 0
      /\ \A i \in 1..((m + n) - (m + 1) + 1) : w[i] = (u \o v)[(m + 1) + i - 1]
  BY <1>3, <1>4, <1>5
<1>7. Len(w) = n BY <1>6
<1>8. \A i \in 1..n : w[i] = v[i]
  <2> SUFFICES ASSUME NEW i \in 1..n PROVE w[i] = v[i] OBVIOUS
  <2>1. i \in 1..((m + n) - (m + 1) + 1) /\ (m + 1) + i - 1 = m + i OBVIOUS
  <2>2. w[i] = (u \o v)[m + i] BY <1>6, <2>1
  <2>3. m + i \in 1..(m + n) /\ ~(m + i <= m) /\ (m + i) - m = i OBVIOUS
  <2> QED BY <1>3, <2>2, <2>3
<1>9. w = v BY <1>2, <1>6, <1>7, <1>8, SeqEqual
<1> QED BY <1>1, <1>3, <1>4, <1>9

LEMMA RestFollowed ==
  ASSUME NEW data \in Seq(Byte), NEW n \in 1..Len(data), NEW b \in Seq(Byte)
  PROVE  SubSeq(data \o b, n + 1, Len(data \o b)) = SubSeq(data, n + 1, Len(data)) \o b
<1> DEFINE head == SubSeq(data, 1, n)
           rest == SubSeq(data, n + 1, Len(data))
<1>1. head \in Seq(Byte) /\ rest \in Seq(Byte) /\ Len(head) = n OBVIOUS
<1>2. head \o rest = data
  <2>1. PICK N \in Nat : N = Len(data) OBVIOUS
  <2>2. 1 \in 1..N + 1 /\ n \in (1 - 1)..N /\ N \in n..N BY <2>1
  <2>3. SubSeq(data, 1, n) \o SubSeq(data, n + 1, N) = SubSeq(data, 1, N)
    BY <2>1, <2>2, ConcatAdjacentSubSeq, Zenon
  <2>4. SubSeq(data, 1, N) = data BY <2>1, SubSeqFull, Zenon
  <2> QED BY <2>1, <2>3, <2>4
<1> HIDE DEF head, rest
<1>3. data \o b = head \o (rest \o b)
  <2>1. (head \o rest) \o b = head \o (rest \o b)
    <3> HIDE DEF head, rest
    <3> QED BY <1>1
  <2> QED BY <1>2, <2>1
<1>4. rest \o b \in Seq(Byte) BY <1>1
<1>5. SubSeq(head \o (rest \o b), Len(head) + 1, Len(head \o (rest \o b))) = rest \o b
  BY <1>1, <1>4, DropHead, Zenon
<1> QED BY <1>1, <1>3, <1>5 DEF rest

LEMMA FollowedStream ==
  ASSUME NEW d, NEW r, NEW data, NEW b
  PROVE  Followed(Stream(d, r, data), b) = Stream(d, r, data \o b)
BY DEF Followed, Stream

(* A turn takes nothing, or what it takes it also takes with more behind it.  *)
LEMMA TurnTyped ==
  ASSUME NEW s \in StreamState
  PROVE  /\ Client!ProcessNext(s) \in StreamState
         /\ Client!ProcessNext(s) # s => Len(Client!ProcessNext(s).pending) < Len(s.pending)
         /\ Client!ProcessNext(s) # s =>
              \A b \in Seq(Byte) :
                 Client!ProcessNext(Followed(s, b)) = Followed(Client!ProcessNext(s), b)
<1>1. SUFFICES ASSUME Client!ProcessNext(s) # s
               PROVE  /\ Client!ProcessNext(s) \in StreamState
                      /\ Len(Client!ProcessNext(s).pending) < Len(s.pending)
                      /\ \A b \in Seq(Byte) :
                            Client!ProcessNext(Followed(s, b)) = Followed(Client!ProcessNext(s), b)
  OBVIOUS
<1>2. PICK d \in Seq(Byte), r \in Seq(Byte), data \in Seq(Byte) : s = Stream(d, r, data)
  BY StreamIs
<1>3. PICK n \in 1..Len(data), x \in Seq(Byte), y \in Seq(Byte) :
         \A b \in Seq(Byte) :
            Client!ProcessNext(Stream(d, r, data \o b)) = Taken(d, r, data \o b, n, x, y)
  BY <1>1, <1>2, TurnTakes
<1>4. data \o <<>> = data /\ <<>> \in Seq(Byte) OBVIOUS
<1>5. Client!ProcessNext(s) = Taken(d, r, data, n, x, y) BY <1>2, <1>3, <1>4, Zenon
<1> DEFINE rest == SubSeq(data, n + 1, Len(data))
<1>6. rest \in Seq(Byte) /\ Len(rest) < Len(data) BY RestOf
<1>7. Client!ProcessNext(s) = Stream(d \o x, r \o y, rest) BY <1>5 DEF Taken
<1>8. ASSUME NEW b \in Seq(Byte)
      PROVE  Client!ProcessNext(Followed(s, b)) = Followed(Client!ProcessNext(s), b)
  <2>1. Followed(s, b) = Stream(d, r, data \o b)
    <3>1. Followed(Stream(d, r, data), b) = Stream(d, r, data \o b) BY FollowedStream
    <3> QED BY <1>2, <3>1
  <2>2. SubSeq(data \o b, n + 1, Len(data \o b)) = rest \o b BY RestFollowed
  <2>3. Client!ProcessNext(Followed(s, b)) = Stream(d \o x, r \o y, rest \o b)
    <3>1. Client!ProcessNext(Followed(s, b)) = Taken(d, r, data \o b, n, x, y) BY <1>3, <2>1, Zenon
    <3> QED BY <2>2, <3>1 DEF Taken
  <2> HIDE DEF rest
  <2>4. Followed(Stream(d \o x, r \o y, rest), b) = Stream(d \o x, r \o y, rest \o b)
    BY FollowedStream
  <2> QED BY <1>7, <2>3, <2>4
<1> HIDE DEF rest
<1>9. Client!ProcessNext(s) \in StreamState
  <2>1. d \o x \in Seq(Byte) /\ r \o y \in Seq(Byte) OBVIOUS
  <2> QED BY <1>6, <1>7, <2>1 DEF Stream, StreamState
<1>10. Client!ProcessNext(s).pending = rest /\ s.pending = data BY <1>2, <1>7 DEF Stream
<1> QED BY <1>6, <1>8, <1>9, <1>10

(* The turns that process makes. *)
LEMMA TurnsEquation ==
  ASSUME NEW s \in StreamState
  PROVE  /\ Client!Turns(s) \in [Nat -> StreamState]
         /\ Client!Turns(s)[0] = s
         /\ \A n \in Nat : Client!Turns(s)[n + 1] = Client!ProcessNext(Client!Turns(s)[n])
<1> DEFINE F == [n \in Nat |-> [t \in StreamState |-> Client!ProcessNext(t)]]
           Is(g) == g = [n \in Nat |-> IF n = 0 THEN s ELSE Client!ProcessNext(g[n - 1])]
<1>1. F \in [Nat -> [StreamState -> StreamState]] BY TurnTyped
<1>2. PICK g : Recursion(g, StreamState, s, F)
  <2> HIDE DEF F
  <2> QED BY <1>1, RecursionExists
<1>3. g[0] = s /\ \A n \in Nat : g[n + 1] = Client!ProcessNext(g[n])
  <2>1. g[0] = s BY <1>2 DEF Recursion
  <2>2. ASSUME NEW n \in Nat PROVE g[n + 1] = Client!ProcessNext(g[n])
    <3>1. g[n] \in StreamState /\ n + 1 \in Nat /\ g[n + 1] = F[n + 1][g[n]]
      <4> HIDE DEF F
      <4> QED BY <1>2 DEF Recursion
    <3> QED BY <3>1
  <2> QED BY <2>1, <2>2
<1>4. Is(g)
  <2>1. ASSUME NEW n \in Nat PROVE g[n] = IF n = 0 THEN s ELSE Client!ProcessNext(g[n - 1])
    <3>1. CASE n = 0 BY <1>3, <3>1
    <3>2. CASE n # 0
      <4>1. n - 1 \in Nat /\ (n - 1) + 1 = n BY <3>2
      <4>2. g[(n - 1) + 1] = Client!ProcessNext(g[n - 1]) BY <1>3, <4>1, Zenon
      <4> QED BY <3>2, <4>1, <4>2
    <3> QED BY <3>1, <3>2
  <2>2. DOMAIN g = Nat /\ g = [n \in DOMAIN g |-> g[n]] BY <1>2 DEF Recursion
  <2> QED BY <2>1, <2>2
<1>5. Is(Client!Turns(s))
  <2>1. Client!Turns(s) = CHOOSE h : Is(h) BY DEF Client!Turns
  <2> HIDE DEF Is
  <2> QED BY <1>4, <2>1
<1>6. ASSUME NEW h, Is(h)
      PROVE  /\ h \in [Nat -> StreamState] /\ h[0] = s
             /\ \A n \in Nat : h[n + 1] = Client!ProcessNext(h[n])
  <2>1. h[0] = s /\ \A n \in Nat : h[n + 1] = Client!ProcessNext(h[n]) BY <1>6
  <2> DEFINE T == {n \in Nat : h[n] \in StreamState}
  <2>2. 0 \in T BY <2>1
  <2>3. ASSUME NEW n \in Nat, n \in T PROVE n + 1 \in T BY <2>1, <2>3, TurnTyped
  <2>4. Nat \subseteq T
    <3> HIDE DEF T
    <3> QED BY <2>2, <2>3, NaturalsInSet
  <2>5. DOMAIN h = Nat /\ h = [n \in DOMAIN h |-> h[n]] BY <1>6
  <2>6. \A n \in Nat : h[n] \in StreamState BY <2>4
  <2> QED BY <2>1, <2>5, <2>6
<1> HIDE DEF Is
<1> QED BY <1>5, <1>6
(* What is left when no turn takes anything any more. *)
Settled(s) == Client!Turns(s)[Len(s.pending)]

LEMMA TurnsSettle ==
  ASSUME NEW s \in StreamState
  PROVE  /\ Settled(s) \in StreamState
         /\ Client!ProcessNext(Settled(s)) = Settled(s)
         /\ \A n \in Nat : n >= Len(s.pending) => Client!Turns(s)[n] = Settled(s)
<1> DEFINE t == Client!Turns(s)
<1>1. PICK L \in Nat : L = Len(s.pending) BY DEF StreamState
<1>2. t \in [Nat -> StreamState] /\ t[0] = s BY TurnsEquation
<1>3. \A n \in Nat : t[n + 1] = Client!ProcessNext(t[n]) BY TurnsEquation
<1> HIDE DEF t
<1> DEFINE Size(n) == Len(t[n].pending)
           Stuck(n) == Client!ProcessNext(t[n]) = t[n]
           T == {n \in Nat : Stuck(n) \/ Size(n) + n <= L}
           U == {n \in Nat : n >= L => t[n] = t[L]}
<1>4. \A n \in Nat : Size(n) \in Nat BY <1>2 DEF StreamState
<1>5. \A n \in Nat : Stuck(n) => t[n + 1] = t[n] /\ Stuck(n + 1) BY <1>3
<1>6. ASSUME NEW n \in Nat, ~Stuck(n) PROVE Size(n + 1) < Size(n)
  <2>1. t[n] \in StreamState BY <1>2
  <2> QED BY <1>3, <1>6, <2>1, TurnTyped
<1>7. Nat \subseteq T
  <2>1. 0 \in T BY <1>1, <1>2
  <2>2. ASSUME NEW n \in Nat, n \in T PROVE n + 1 \in T
    <3>1. CASE Stuck(n)
      <4>1. Stuck(n + 1) BY <1>5, <3>1
      <4> QED BY <4>1
    <3>2. CASE ~Stuck(n)
      <4>1. Size(n) + n <= L BY <2>2, <3>2
      <4>2. Size(n + 1) < Size(n) BY <1>6, <3>2
      <4>3. Size(n + 1) \in Nat /\ Size(n) \in Nat BY <1>4
      <4> HIDE DEF Size
      <4>4. Size(n + 1) + (n + 1) <= L BY <4>1, <4>2, <4>3
      <4> QED BY <4>4
    <3> QED BY <3>1, <3>2
  <2> HIDE DEF T
  <2> QED BY <2>1, <2>2, NaturalsInSet
<1>8. Stuck(L)
  <2>1. SUFFICES ASSUME ~Stuck(L) PROVE FALSE OBVIOUS
  <2>2. Size(L) + L <= L BY <1>7, <2>1
  <2>3. Size(L) = 0
    <3>1. Size(L) \in Nat BY <1>4
    <3> HIDE DEF Size
    <3> QED BY <2>2, <3>1
  <2>4. t[L].pending \in Seq(Byte) BY <1>2 DEF StreamState
  <2>5. t[L].pending = <<>> BY <2>3, <2>4
  <2> QED BY <2>1, <2>5, TurnStuck
<1>9. Nat \subseteq U
  <2>1. 0 \in U BY <1>1
  <2>2. ASSUME NEW n \in Nat, n \in U PROVE n + 1 \in U
    <3>1. CASE n >= L BY <1>5, <1>8, <2>2, <3>1
    <3>2. CASE n < L
      <4>1. n + 1 >= L => n + 1 = L BY <3>2
      <4> QED BY <4>1
    <3> QED BY <3>1, <3>2
  <2> HIDE DEF U
  <2> QED BY <2>1, <2>2, NaturalsInSet
<1>10. Settled(s) = t[L] BY <1>1 DEF Settled, t
<1>11. t[L] \in StreamState BY <1>2
<1>12. \A n \in Nat : n >= L => t[n] = t[L] BY <1>9
<1> QED BY <1>1, <1>8, <1>10, <1>11, <1>12 DEF t

LEMMA TurnsShift ==
  ASSUME NEW s \in StreamState, NEW n \in Nat
  PROVE  Client!Turns(Client!ProcessNext(s))[n] = Client!Turns(s)[n + 1]
<1> DEFINE u == Client!ProcessNext(s)
           T == {k \in Nat : Client!Turns(u)[k] = Client!Turns(s)[k + 1]}
<1>1. u \in StreamState BY TurnTyped
<1>2. Client!Turns(u)[0] = u /\ Client!Turns(s)[0] = s BY <1>1, TurnsEquation
<1>3. \A k \in Nat : Client!Turns(u)[k + 1] = Client!ProcessNext(Client!Turns(u)[k])
  BY <1>1, TurnsEquation
<1>4. \A k \in Nat : Client!Turns(s)[k + 1] = Client!ProcessNext(Client!Turns(s)[k])
  BY TurnsEquation
<1>5. 0 \in T
  <2>1. Client!Turns(s)[0 + 1] = u BY <1>2, <1>4
  <2> QED BY <1>2, <2>1
<1> HIDE DEF u
<1>6. ASSUME NEW k \in Nat, k \in T PROVE k + 1 \in T
  <2>1. k + 1 \in Nat OBVIOUS
  <2>2. Client!Turns(u)[k + 1] = Client!ProcessNext(Client!Turns(s)[k + 1]) BY <1>3, <1>6
  <2>3. Client!Turns(s)[(k + 1) + 1] = Client!ProcessNext(Client!Turns(s)[k + 1]) BY <1>4, <2>1
  <2> QED BY <2>1, <2>2, <2>3
<1>7. Nat \subseteq T
  <2> HIDE DEF T
  <2> QED BY <1>5, <1>6, NaturalsInSet
<1>8. n \in T BY <1>7
<1> QED BY <1>8 DEF u

LEMMA SettledNext ==
  ASSUME NEW s \in StreamState
  PROVE  Settled(Client!ProcessNext(s)) = Settled(s)
<1> DEFINE u == Client!ProcessNext(s)
<1>1. SUFFICES ASSUME u # s PROVE Settled(u) = Settled(s) OBVIOUS
<1>2. u \in StreamState /\ Len(u.pending) < Len(s.pending) BY <1>1, TurnTyped
<1>3. PICK M \in Nat : M = Len(u.pending) BY <1>2 DEF StreamState
<1>4. PICK N \in Nat : N = Len(s.pending) BY DEF StreamState
<1>5. N - 1 \in Nat /\ N - 1 >= M /\ (N - 1) + 1 = N BY <1>2, <1>3, <1>4
<1>6. Client!Turns(u)[N - 1] = Settled(u) BY <1>2, <1>3, <1>5, TurnsSettle
<1>7. Client!Turns(u)[N - 1] = Client!Turns(s)[(N - 1) + 1] BY <1>5, TurnsShift
<1> HIDE DEF u
<1> QED BY <1>4, <1>5, <1>6, <1>7 DEF Settled

LEMMA FollowedTyped ==
  ASSUME NEW s \in StreamState, NEW b \in Seq(Byte)
  PROVE  Followed(s, b) \in StreamState
<1>1. s.decoded \in Seq(Byte) /\ s.replies \in Seq(Byte) /\ s.pending \o b \in Seq(Byte)
  BY DEF StreamState
<1> QED BY <1>1 DEF Followed, Stream, StreamState

(* It makes no difference whether more data arrive before the turns or after. *)
LEMMA SettledFollowed ==
  ASSUME NEW s \in StreamState, NEW b \in Seq(Byte)
  PROVE  Settled(Followed(s, b)) = Settled(Followed(Settled(s), b))
<1> DEFINE t == Client!Turns(s)
           T == {n \in Nat : Settled(Followed(s, b)) = Settled(Followed(t[n], b))}
<1>1. t \in [Nat -> StreamState] /\ t[0] = s BY TurnsEquation
<1>2. \A n \in Nat : t[n + 1] = Client!ProcessNext(t[n]) BY TurnsEquation
<1> HIDE DEF t
<1>3. 0 \in T BY <1>1
<1>4. ASSUME NEW n \in Nat, n \in T PROVE n + 1 \in T
  <2>1. t[n] \in StreamState /\ Followed(t[n], b) \in StreamState BY <1>1, FollowedTyped
  <2>2. CASE t[n + 1] = t[n]
    <3>1. n + 1 \in Nat OBVIOUS
    <3> QED BY <1>4, <2>2, <3>1
  <2>3. CASE t[n + 1] # t[n]
    <3>1. Client!ProcessNext(t[n]) # t[n] BY <1>2, <2>3
    <3>2. Client!ProcessNext(Followed(t[n], b)) = Followed(Client!ProcessNext(t[n]), b)
      BY <2>1, <3>1, TurnTyped, Zenon
    <3>3. Client!ProcessNext(Followed(t[n], b)) = Followed(t[n + 1], b) BY <1>2, <3>2
    <3>4. Settled(Client!ProcessNext(Followed(t[n], b))) = Settled(Followed(t[n], b))
      BY <2>1, SettledNext
    <3>5. n + 1 \in Nat /\ Settled(Followed(t[n + 1], b)) = Settled(Followed(t[n], b))
      BY <3>3, <3>4
    <3> QED BY <1>4, <3>5
  <2> QED BY <2>2, <2>3
<1>5. Nat \subseteq T
  <2> HIDE DEF T
  <2> QED BY <1>3, <1>4, NaturalsInSet
<1>6. Len(s.pending) \in Nat BY DEF StreamState
<1>7. Len(s.pending) \in T BY <1>5, <1>6
<1> QED BY <1>7 DEF Settled, t

LEMMA ProcessSettles ==
  ASSUME NEW s \in StreamState, NEW data \in Seq(Byte)
  PROVE  /\ Client!Process(s, data) = Settled(Stream(s.decoded, s.replies, data))
         /\ Stream(s.decoded, s.replies, data) \in StreamState
         /\ Client!ReadChunk(s, data) = Settled(Followed(s, data))
<1>1. ASSUME NEW all \in Seq(Byte)
      PROVE  /\ [s EXCEPT !.pending = all] = Stream(s.decoded, s.replies, all)
             /\ Stream(s.decoded, s.replies, all).pending = all
  BY DEF Stream, StreamState
<1>2. Client!Process(s, data) = Settled(Stream(s.decoded, s.replies, data))
  BY <1>1 DEF Client!Process, Settled
<1>3. Stream(s.decoded, s.replies, data) \in StreamState BY DEF Stream, StreamState
<1>4. [s EXCEPT !.pending = s.pending \o data] = Followed(s, data)
      /\ Followed(s, data).pending = s.pending \o data
  <2>0. s.pending \o data \in Seq(Byte) BY DEF StreamState
  <2>1. PICK all \in Seq(Byte) : all = s.pending \o data BY <2>0
  <2> QED BY <1>1, <2>1 DEF Followed
<1>5. Client!ReadChunk(s, data) = Settled(Followed(s, data))
  BY <1>4 DEF Client!ReadChunk, Client!Process, Settled
<1> QED BY <1>2, <1>3, <1>5
(* FlattenSeq, one sequence at a time. *)
Flattening(f, S, seqs) ==
    /\ f \in [0..Len(seqs) -> Seq(S)]
    /\ f[0] = <<>>
    /\ \A n \in Nat : n < Len(seqs) => f[n + 1] = f[n] \o seqs[n + 1]

LEMMA FlattenSeqEquation ==
  ASSUME NEW S, NEW seqs \in Seq(Seq(S))
  PROVE  \E f : Flattening(f, S, seqs) /\ Client!FlattenSeq(seqs) = f[Len(seqs)]
<1> DEFINE F == [n \in Nat |-> [x \in Seq(S) |-> IF n \in 1..Len(seqs) THEN x \o seqs[n] ELSE x]]
           Is(h) == h = [i \in 1..Len(seqs) |-> IF i = 1 THEN seqs[i] ELSE h[i - 1] \o seqs[i]]
<1>1. PICK N \in Nat : N = Len(seqs) OBVIOUS
<1>2. \A n \in 1..N : seqs[n] \in Seq(S) BY <1>1
<1>3. \A x \in Seq(S), n \in 1..N : x \o seqs[n] \in Seq(S) BY <1>2
<1>4. F \in [Nat -> [Seq(S) -> Seq(S)]] BY <1>1, <1>3
<1>5. <<>> \in Seq(S) OBVIOUS
<1>6. PICK g : Recursion(g, Seq(S), <<>>, F)
  <2> HIDE DEF F
  <2> QED BY <1>4, <1>5, RecursionExists
<1>7. g[0] = <<>> /\ \A n \in Nat : g[n] \in Seq(S) BY <1>6 DEF Recursion
<1>8. ASSUME NEW n \in Nat, n < N PROVE g[n + 1] = g[n] \o seqs[n + 1]
  <2>1. g[n] \in Seq(S) /\ n + 1 \in Nat /\ n + 1 \in 1..N BY <1>7, <1>8
  <2>2. g[n + 1] = F[n + 1][g[n]]
    <3> HIDE DEF F
    <3> QED BY <1>6 DEF Recursion
  <2> QED BY <1>1, <2>1, <2>2
<1> DEFINE f == [n \in 0..N |-> g[n]]
<1>9. Flattening(f, S, seqs)
  <2>1. f \in [0..N -> Seq(S)] BY <1>7
  <2>2. f[0] = <<>> BY <1>7
  <2>3. ASSUME NEW n \in Nat, n < N PROVE f[n + 1] = f[n] \o seqs[n + 1]
    <3>1. n \in 0..N /\ n + 1 \in 0..N BY <2>3
    <3> QED BY <1>8, <2>3, <3>1
  <2> HIDE DEF f
  <2> QED BY <1>1, <2>1, <2>2, <2>3 DEF Flattening
<1>10. CASE N = 0
  <2>1. seqs = <<>> BY <1>1, <1>10, EmptySeq
  <2>2. Client!FlattenSeq(seqs) = <<>> BY <1>1, <1>10, <2>1 DEF Client!FlattenSeq
  <2>3. f[N] = <<>> BY <1>7, <1>10
  <2> HIDE DEF f
  <2> QED BY <1>1, <1>9, <2>2, <2>3
<1>11. CASE N # 0
  <2>1. \E h : Is(h)
    <3> DEFINE h == [i \in 1..N |-> g[i]]
    <3>1. ASSUME NEW i \in 1..N
          PROVE  h[i] = IF i = 1 THEN seqs[i] ELSE h[i - 1] \o seqs[i]
      <4>1. i - 1 \in Nat /\ i - 1 < N /\ (i - 1) + 1 = i OBVIOUS
      <4>2. g[i] = g[i - 1] \o seqs[i] BY <1>8, <4>1
      <4>3. CASE i = 1
        <5>1. g[i - 1] = <<>> BY <1>7, <4>3
        <5>2. <<>> \o seqs[i] = seqs[i] BY <1>2
        <5> QED BY <4>2, <4>3, <5>1, <5>2
      <4>4. CASE i # 1
        <5>1. i - 1 \in 1..N BY <4>4
        <5> QED BY <4>2, <4>4, <5>1
      <4> QED BY <4>3, <4>4
    <3>2. h = [i \in 1..N |-> IF i = 1 THEN seqs[i] ELSE h[i - 1] \o seqs[i]]
      <4>1. h = [i \in 1..N |-> h[i]] OBVIOUS
      <4> HIDE DEF h
      <4> QED BY <3>1, <4>1, Zenon
    <3> HIDE DEF h
    <3> QED BY <1>1, <3>2
  <2> DEFINE flat == CHOOSE h : Is(h)
  <2>2. Is(flat)
    <3> HIDE DEF Is
    <3> QED BY <2>1
  <2>3. Client!FlattenSeq(seqs) = flat[N] BY <1>1, <1>11 DEF Client!FlattenSeq
  <2> HIDE DEF flat
  <2> DEFINE T == {n \in Nat : n \in 1..N => flat[n] = g[n]}
  <2>4. 0 \in T OBVIOUS
  <2>5. ASSUME NEW n \in Nat, n \in T PROVE n + 1 \in T
    <3>1. SUFFICES ASSUME n + 1 \in 1..N PROVE flat[n + 1] = g[n + 1] OBVIOUS
    <3>2. flat[n + 1] = IF n + 1 = 1 THEN seqs[n + 1] ELSE flat[(n + 1) - 1] \o seqs[n + 1]
      BY <1>1, <2>2, <3>1
    <3>3. g[n + 1] = g[n] \o seqs[n + 1]
      <4>1. n < N BY <3>1
      <4> QED BY <1>8, <4>1, Zenon
    <3>4. CASE n = 0
      <4>1. <<>> \o seqs[n + 1] = seqs[n + 1] BY <1>2, <3>1
      <4>2. g[n] = <<>> /\ n + 1 = 1 BY <1>7, <3>4
      <4>3. g[n + 1] = seqs[n + 1] BY <3>3, <4>1, <4>2, Zenon
      <4> QED BY <3>2, <4>2, <4>3, Zenon
    <3>5. CASE n # 0
      <4>1. n \in 1..N /\ (n + 1) - 1 = n /\ n + 1 # 1 BY <3>1, <3>5
      <4>2. flat[n] = g[n] BY <2>5, <4>1
      <4> QED BY <3>2, <3>3, <4>1, <4>2
    <3> QED BY <3>4, <3>5
  <2>6. Nat \subseteq T
    <3> HIDE DEF T
    <3> QED BY <2>4, <2>5, NaturalsInSet
  <2>7. N \in 1..N BY <1>11
  <2>8. flat[N] = g[N] /\ f[N] = g[N] BY <2>6, <2>7
  <2> HIDE DEF f
  <2> QED BY <1>1, <1>9, <2>3, <2>8
<1> QED BY <1>10, <1>11
-----------------------------------------------------------------------------
(* The reads of a stream, however it is cut. *)
All(data) == Settled(Stream(<<>>, <<>>, data))

LEMMA AllTyped ==
  ASSUME NEW data \in Seq(Byte)
  PROVE  /\ Stream(<<>>, <<>>, data) \in StreamState
         /\ All(data) \in StreamState
<1>1. Stream(<<>>, <<>>, data) \in StreamState BY DEF Stream, StreamState
<1> QED BY <1>1, TurnsSettle DEF All

LEMMA NothingLeft ==
  ASSUME NEW d \in Seq(Byte), NEW r \in Seq(Byte)
  PROVE  Settled(Stream(d, r, <<>>)) = Stream(d, r, <<>>)
<1>1. Stream(d, r, <<>>) \in StreamState BY DEF Stream, StreamState
<1>2. Len(Stream(d, r, <<>>).pending) = 0 BY DEF Stream
<1> QED BY <1>1, <1>2, TurnsEquation DEF Settled

LEMMA AllFollowed ==
  ASSUME NEW data \in Seq(Byte), NEW more \in Seq(Byte)
  PROVE  All(data \o more) = Settled(Followed(All(data), more))
<1>1. Stream(<<>>, <<>>, data) \in StreamState BY AllTyped
<1>2. Followed(Stream(<<>>, <<>>, data), more) = Stream(<<>>, <<>>, data \o more)
  BY FollowedStream
<1>3. Settled(Followed(Stream(<<>>, <<>>, data), more))
        = Settled(Followed(Settled(Stream(<<>>, <<>>, data)), more))
  BY <1>1, SettledFollowed
<1> QED BY <1>2, <1>3 DEF All

LEMMA FreshAll == Client!Fresh = All(<<>>) /\ Client!Fresh = Stream(<<>>, <<>>, <<>>)
<1>1. Client!Fresh = Stream(<<>>, <<>>, <<>>) BY DEF Client!Fresh, Stream
<1>2. <<>> \in Seq(Byte) OBVIOUS
<1>3. All(<<>>) = Stream(<<>>, <<>>, <<>>) BY <1>2, NothingLeft DEF All
<1> QED BY <1>1, <1>3

LEMMA ReadsSettle ==
  ASSUME NEW chunks \in Seq(Seq(Byte)), NEW f, Flattening(f, Byte, chunks)
  PROVE  Client!ReadStream(chunks) = All(f[Len(chunks)])
<1> DEFINE Is(h) == h = [n \in 0..Len(chunks) |->
                          IF n = 0 THEN Client!Fresh ELSE Client!ReadChunk(h[n - 1], chunks[n])]
<1>1. PICK N \in Nat : N = Len(chunks) OBVIOUS
<1>2. f \in [0..N -> Seq(Byte)] /\ f[0] = <<>> BY <1>1 DEF Flattening
<1>3. \A n \in Nat : n < N => f[n + 1] = f[n] \o chunks[n + 1] BY <1>1 DEF Flattening
<1>4. ASSUME NEW n \in Nat, n < N
      PROVE  All(f[n + 1]) = Client!ReadChunk(All(f[n]), chunks[n + 1])
  <2>1. f[n] \in Seq(Byte) /\ chunks[n + 1] \in Seq(Byte)
    <3>1. n \in 0..N /\ n + 1 \in 1..N BY <1>4
    <3>2. \A i \in 1..N : chunks[i] \in Seq(Byte) BY <1>1
    <3>3. f[n] \in Seq(Byte) BY <1>2, <3>1
    <3> QED BY <3>1, <3>2, <3>3
  <2>2. All(f[n]) \in StreamState BY <2>1, AllTyped
  <2>3. Client!ReadChunk(All(f[n]), chunks[n + 1]) = Settled(Followed(All(f[n]), chunks[n + 1]))
    BY <2>1, <2>2, ProcessSettles
  <2>4. All(f[n] \o chunks[n + 1]) = Settled(Followed(All(f[n]), chunks[n + 1]))
    BY <2>1, AllFollowed
  <2> QED BY <1>3, <1>4, <2>3, <2>4
<1>5. \E h : Is(h)
  <2> DEFINE h == [n \in 0..N |-> All(f[n])]
  <2>1. ASSUME NEW n \in 0..N
        PROVE  h[n] = IF n = 0 THEN Client!Fresh ELSE Client!ReadChunk(h[n - 1], chunks[n])
    <3>1. CASE n = 0
      <4>1. h[n] = All(<<>>) BY <1>2, <3>1
      <4> QED BY <3>1, <4>1, FreshAll
    <3>2. CASE n # 0
      <4>1. n - 1 \in Nat /\ n - 1 < N /\ (n - 1) + 1 = n /\ n - 1 \in 0..N BY <3>2
      <4>2. All(f[(n - 1) + 1]) = Client!ReadChunk(All(f[n - 1]), chunks[(n - 1) + 1])
        BY <1>4, <4>1, Zenon
      <4>3. h[n] = All(f[n]) /\ h[n - 1] = All(f[n - 1]) BY <4>1
      <4> HIDE DEF h
      <4> QED BY <3>2, <4>1, <4>2, <4>3
    <3> QED BY <3>1, <3>2
  <2>2. h = [n \in 0..N |-> h[n]] OBVIOUS
  <2> HIDE DEF h
  <2>3. h = [n \in 0..N |-> IF n = 0 THEN Client!Fresh ELSE Client!ReadChunk(h[n - 1], chunks[n])]
    BY <2>1, <2>2, Zenon
  <2> QED BY <1>1, <2>3
<1> DEFINE R == Client!Reads(chunks)
<1>6. Is(R)
  <2>1. R = CHOOSE h : Is(h) BY DEF Client!Reads
  <2> HIDE DEF Is, R
  <2> QED BY <1>5, <2>1
<1>7. R[0] = Client!Fresh BY <1>1, <1>6
<1>8. ASSUME NEW n \in Nat, n < N PROVE R[n + 1] = Client!ReadChunk(R[n], chunks[n + 1])
  <2>1. n + 1 \in 0..N /\ n + 1 # 0 /\ (n + 1) - 1 = n BY <1>8
  <2> QED BY <1>1, <1>6, <2>1
<1> HIDE DEF R
<1> DEFINE T == {n \in Nat : n <= N => R[n] = All(f[n])}
<1>9. 0 \in T BY <1>2, <1>7, FreshAll
<1>10. ASSUME NEW n \in Nat, n \in T PROVE n + 1 \in T
  <2>1. SUFFICES ASSUME n < N PROVE R[n + 1] = All(f[n + 1]) OBVIOUS
  <2>2. R[n] = All(f[n]) BY <1>10, <2>1
  <2> QED BY <1>4, <1>8, <2>1, <2>2
<1>11. Nat \subseteq T
  <2> HIDE DEF T
  <2> QED BY <1>9, <1>10, NaturalsInSet
<1>12. R[N] = All(f[N]) BY <1>11
<1> QED BY <1>1, <1>12 DEF Client!ReadStream, R

(* What one end escapes, the other decodes. *)
Escaped(byte) == IF byte = "IAC" THEN <<"IAC", "IAC">> ELSE <<byte>>

LEMMA EscapedByte ==
  ASSUME NEW d \in Seq(Byte), NEW r \in Seq(Byte), NEW byte \in Byte
  PROVE  /\ Escaped(byte) \in Seq(Byte)
         /\ Settled(Stream(d, r, Escaped(byte))) = Stream(d \o <<byte>>, r, <<>>)
<1>0. "IAC" \in Byte BY DEF Byte, Client!Printable
<1>1. Escaped(byte) \in Seq(Byte) BY <1>0 DEF Escaped
<1>2. <<>> \in Seq(Byte) /\ d \o <<byte>> \in Seq(Byte) OBVIOUS
<1>3. Client!ProcessNext(Stream(d, r, Escaped(byte))) = Stream(d \o <<byte>>, r, <<>>)
  <2>1. CASE byte = "IAC"
    <3> DEFINE w == <<"IAC", "IAC">>
    <3>1. w \in Seq(Byte) /\ Len(w) > 1 /\ w[1] = "IAC" /\ w[2] = "IAC" BY <1>0
    <3>2. SubSeq(w, 2 + 1, Len(w)) = <<>> OBVIOUS
    <3>3. r \o <<>> = r OBVIOUS
    <3> HIDE DEF w
    <3>4. Client!ProcessNext(Stream(d, r, w)) = Taken(d, r, w, 2, <<"IAC">>, <<>>)
      BY <1>2, <3>1, TurnEscaped, Zenon
    <3>5. Client!ProcessNext(Stream(d, r, w)) = Stream(d \o <<"IAC">>, r, <<>>)
      BY <3>2, <3>3, <3>4, Zenon DEF Taken
    <3>6. Escaped(byte) = w BY <2>1 DEF Escaped, w
    <3> QED BY <2>1, <3>5, <3>6, Zenon
  <2>2. CASE byte # "IAC"
    <3> DEFINE w == <<byte>>
    <3>1. w \in Seq(Byte) /\ w # <<>> /\ w[1] = byte OBVIOUS
    <3>2. SubSeq(w, 1 + 1, Len(w)) = <<>> OBVIOUS
    <3>3. r \o <<>> = r OBVIOUS
    <3> HIDE DEF w
    <3>4. Client!ProcessNext(Stream(d, r, w)) = Taken(d, r, w, 1, <<w[1]>>, <<>>)
      BY <1>2, <2>2, <3>1, TurnByte, Zenon
    <3>5. Client!ProcessNext(Stream(d, r, w)) = Stream(d \o <<byte>>, r, <<>>)
      BY <3>1, <3>2, <3>3, <3>4, Zenon DEF Taken
    <3>6. Escaped(byte) = w BY <2>2 DEF Escaped, w
    <3> QED BY <3>5, <3>6, Zenon
  <2> QED BY <2>1, <2>2
<1>4. Stream(d, r, Escaped(byte)) \in StreamState BY <1>1, <1>2 DEF Stream, StreamState
<1>5. Settled(Stream(d \o <<byte>>, r, <<>>)) = Settled(Stream(d, r, Escaped(byte)))
  BY <1>3, <1>4, SettledNext
<1>6. Settled(Stream(d \o <<byte>>, r, <<>>)) = Stream(d \o <<byte>>, r, <<>>)
  BY <1>2, NothingLeft
<1> QED BY <1>1, <1>5, <1>6

LEMMA EscapeUndone ==
  ASSUME NEW data \in Seq(Byte)
  PROVE  /\ Client!Escape(data) \in Seq(Byte)
         /\ All(Client!Escape(data)) = Stream(data, <<>>, <<>>)
<1> DEFINE parts == [i \in DOMAIN data |-> Escaped(data[i])]
<1>1. PICK N \in Nat : N = Len(data) OBVIOUS
<1>2. DOMAIN data = 1..N /\ \A i \in 1..N : data[i] \in Byte BY <1>1
<1>3. \A i \in 1..N : Escaped(data[i]) \in Seq(Byte)
  <2>1. <<>> \in Seq(Byte) OBVIOUS
  <2> QED BY <1>2, <2>1, EscapedByte
<1>4. parts \in Seq(Seq(Byte)) /\ Len(parts) = N BY <1>2, <1>3
<1>5. \A i \in 1..N : parts[i] = Escaped(data[i]) BY <1>2
<1>6. Client!Escape(data) = Client!FlattenSeq(parts) BY DEF Client!Escape, Escaped
<1> HIDE DEF parts
<1>7. PICK g : Flattening(g, Byte, parts) /\ Client!FlattenSeq(parts) = g[Len(parts)]
  BY <1>4, FlattenSeqEquation
<1>8. g \in [0..N -> Seq(Byte)] /\ g[0] = <<>> BY <1>4, <1>7 DEF Flattening
<1>9. \A n \in Nat : n < N => g[n + 1] = g[n] \o parts[n + 1] BY <1>4, <1>7 DEF Flattening
<1> DEFINE T == {n \in Nat : n <= N => All(g[n]) = Stream(SubSeq(data, 1, n), <<>>, <<>>)}
<1>10. 0 \in T
  <2>1. SubSeq(data, 1, 0) = <<>> OBVIOUS
  <2>2. All(g[0]) = Stream(SubSeq(data, 1, 0), <<>>, <<>>) BY <1>8, <2>1, FreshAll
  <2> QED BY <2>2
<1>11. ASSUME NEW n \in Nat, n \in T PROVE n + 1 \in T
  <2>1. SUFFICES ASSUME n < N
                 PROVE  All(g[n + 1]) = Stream(SubSeq(data, 1, n + 1), <<>>, <<>>)
    OBVIOUS
  <2>2. /\ All(g[n]) = Stream(SubSeq(data, 1, n), <<>>, <<>>)
        /\ n \in 0..N /\ n + 1 \in 1..N
    BY <1>11, <2>1
  <2> DEFINE byte == data[n + 1]
             head == SubSeq(data, 1, n)
  <2>3. byte \in Byte /\ head \in Seq(Byte) /\ parts[n + 1] = Escaped(byte) /\ g[n] \in Seq(Byte)
    <3>1. byte \in Byte /\ parts[n + 1] = Escaped(byte) /\ g[n] \in Seq(Byte)
      BY <1>2, <1>5, <1>8, <2>2
    <3>2. head \in Seq(Byte) BY <1>1, <2>2
    <3> QED BY <3>1, <3>2
  <2>4. SubSeq(data, 1, n + 1) = head \o <<byte>> BY <1>1, <2>2
  <2> HIDE DEF byte, head
  <2>5. Escaped(byte) \in Seq(Byte) BY <2>3, EscapedByte
  <2>6. All(g[n + 1]) = Settled(Followed(All(g[n]), Escaped(byte)))
    <3>1. g[n + 1] = g[n] \o Escaped(byte) BY <1>9, <2>1, <2>3
    <3> QED BY <2>3, <2>5, <3>1, AllFollowed
  <2>7. Followed(All(g[n]), Escaped(byte)) = Stream(head, <<>>, Escaped(byte))
    <3>1. Followed(Stream(head, <<>>, <<>>), Escaped(byte)) = Stream(head, <<>>, <<>> \o Escaped(byte))
      BY DEF Followed, Stream
    <3>2. <<>> \o Escaped(byte) = Escaped(byte) BY <2>5
    <3> QED BY <2>2, <3>1, <3>2 DEF head
  <2>8. Settled(Stream(head, <<>>, Escaped(byte))) = Stream(head \o <<byte>>, <<>>, <<>>)
    <3>1. <<>> \in Seq(Byte) OBVIOUS
    <3> QED BY <2>3, <3>1, EscapedByte
  <2> QED BY <2>4, <2>6, <2>7, <2>8
<1>12. Nat \subseteq T
  <2> HIDE DEF T
  <2> QED BY <1>10, <1>11, NaturalsInSet
<1>13. All(g[N]) = Stream(SubSeq(data, 1, N), <<>>, <<>>) BY <1>12
<1>14. SubSeq(data, 1, N) = data BY <1>1
<1>15. Client!Escape(data) = g[N] BY <1>4, <1>6, <1>7
<1>16. g[N] \in Seq(Byte) BY <1>8
<1>17. All(g[N]) = Stream(data, <<>>, <<>>)
  <2> HIDE DEF T
  <2> QED BY <1>13, <1>14
<1> QED BY <1>15, <1>16, <1>17

LEMMA FreshProcess ==
  ASSUME NEW data \in Seq(Byte)
  PROVE  Client!Process(Client!Fresh, data) = All(data)
<1>1. Client!Fresh \in StreamState
  <2>1. <<>> \in Seq(Byte) OBVIOUS
  <2> QED BY <2>1, FreshAll, AllTyped
<1>2. Client!Fresh.decoded = <<>> /\ Client!Fresh.replies = <<>> BY DEF Client!Fresh
<1>3. Client!Process(Client!Fresh, data)
        = Settled(Stream(Client!Fresh.decoded, Client!Fresh.replies, data))
  BY <1>1, ProcessSettles
<1> QED BY <1>2, <1>3 DEF All

LEMMA StreamUncut ==
  ASSUME NEW chunks \in Seq(Seq(Byte))
  PROVE  Client!StreamAsSent(chunks, Client!ReadStream(chunks))
<1>1. PICK f : Flattening(f, Byte, chunks) /\ Client!FlattenSeq(chunks) = f[Len(chunks)]
  BY FlattenSeqEquation
<1> DEFINE stream == Client!FlattenSeq(chunks)
<1>2. stream \in Seq(Byte)
  <2>1. Len(chunks) \in 0..Len(chunks) OBVIOUS
  <2> QED BY <1>1, <2>1 DEF Flattening
<1>3. Client!ReadStream(chunks) = All(stream) BY <1>1, ReadsSettle
<1> HIDE DEF stream
<1>5. \A data \in Seq(Byte) : Client!Process(Client!Fresh, data) = All(data) BY FreshProcess
<1>6. Client!Process(Client!Fresh, Client!Escape(stream)) = Stream(stream, <<>>, <<>>)
  BY <1>2, <1>5, EscapeUndone
<1>7. [Client!Fresh EXCEPT !.decoded = stream] = Stream(stream, <<>>, <<>>)
  BY DEF Client!Fresh, Stream
<1> QED BY <1>2, <1>3, <1>5, <1>6, <1>7 DEF Client!StreamAsSent, stream
-----------------------------------------------------------------------------
(* The banner of a peer that says text and negotiates. *)
Prefix(u, w) == Len(u) <= Len(w) /\ \A i \in 1..Len(u) : w[i] = u[i]

LEMMA PrefixFollowed ==
  ASSUME NEW u \in Seq(Byte), NEW w \in Seq(Byte), NEW x \in Seq(Byte), Prefix(u, w)
  PROVE  Prefix(u, w \o x)
BY DEF Prefix

LEMMA PrefixWhole ==
  ASSUME NEW u \in Seq(Byte)
  PROVE  Prefix(u, u)
BY DEF Prefix

LEMMA PrefixesOfFlattening ==
  ASSUME NEW seqs \in Seq(Seq(Byte)), NEW f, Flattening(f, Byte, seqs), NEW k \in 0..Len(seqs)
  PROVE  Prefix(f[k], f[Len(seqs)])
<1>1. PICK N \in Nat : N = Len(seqs) OBVIOUS
<1>2. f \in [0..N -> Seq(Byte)] BY <1>1 DEF Flattening
<1>3. \A n \in Nat : n < N => f[n + 1] = f[n] \o seqs[n + 1] BY <1>1 DEF Flattening
<1>4. \A i \in 1..N : seqs[i] \in Seq(Byte) BY <1>1
<1> DEFINE T == {n \in Nat : k <= n /\ n <= N => Prefix(f[k], f[n])}
<1>5. k \in 0..N /\ f[k] \in Seq(Byte) BY <1>1, <1>2
<1>6. 0 \in T
  <2>1. 0 >= k => k = 0 BY <1>5
  <2>2. Prefix(f[k], f[k]) BY <1>5, PrefixWhole
  <2> QED BY <2>1, <2>2
<1>7. ASSUME NEW n \in Nat, n \in T PROVE n + 1 \in T
  <2>1. SUFFICES ASSUME k <= n + 1, n + 1 <= N PROVE Prefix(f[k], f[n + 1]) OBVIOUS
  <2>2. CASE k = n + 1
    <3>1. Prefix(f[k], f[k]) BY <1>5, PrefixWhole
    <3> QED BY <2>2, <3>1
  <2>3. CASE k # n + 1
    <3>1. k <= n /\ n <= N /\ n < N /\ n \in 0..N /\ n + 1 \in 1..N BY <1>5, <2>1, <2>3
    <3>2. Prefix(f[k], f[n]) BY <1>7, <3>1
    <3>3. f[n] \in Seq(Byte) /\ seqs[n + 1] \in Seq(Byte) BY <1>2, <1>4, <3>1
    <3>4. Prefix(f[k], f[n] \o seqs[n + 1]) BY <1>5, <3>2, <3>3, PrefixFollowed
    <3> QED BY <1>3, <3>1, <3>4
  <2> QED BY <2>2, <2>3
<1>8. Nat \subseteq T
  <2> HIDE DEF T
  <2> QED BY <1>6, <1>7, NaturalsInSet
<1>9. Prefix(f[k], f[N]) BY <1>5, <1>8
<1> QED BY <1>1, <1>9

Cleaned(skip, banner) == [skip |-> skip, banner |-> banner]
CleanState == [skip : Nat, banner : Seq(Byte)]

LEMMA CleanSteps ==
  ASSUME NEW skip \in Nat, NEW banner \in Seq(Byte), NEW data \in Seq(Byte), NEW i \in 1..Len(data)
  PROVE  /\ Client!Clean(Cleaned(skip, banner), data, i) \in CleanState
         /\ skip > 0 => Client!Clean(Cleaned(skip, banner), data, i) = Cleaned(skip - 1, banner)
         /\ skip = 0 /\ data[i] = "IAC" /\ i + 2 <= Len(data) =>
              Client!Clean(Cleaned(skip, banner), data, i) = Cleaned(2, banner)
         /\ skip = 0 /\ data[i] # "IAC" /\ data[i] \in Client!Printable =>
              Client!Clean(Cleaned(skip, banner), data, i) = Cleaned(0, banner \o <<data[i]>>)
<1> DEFINE s == Cleaned(skip, banner)
           c == Client!Clean(s, data, i)
<1>1. data[i] \in Byte OBVIOUS
<1>2. Append(banner, data[i]) = banner \o <<data[i]>> /\ Append(banner, data[i]) \in Seq(Byte)
  BY <1>1
<1>3. CASE skip > 0
  <2>1. c = Cleaned(skip - 1, banner) BY <1>3 DEF Client!Clean, Cleaned
  <2>2. skip - 1 \in Nat BY <1>3
  <2>3. Cleaned(skip - 1, banner) \in CleanState BY <2>2 DEF Cleaned, CleanState
  <2> QED BY <1>3, <2>1, <2>3
<1>4. CASE skip = 0 /\ data[i] = "IAC" /\ i + 2 <= Len(data)
  <2>1. c = Cleaned(2, banner) BY <1>4 DEF Client!Clean, Cleaned
  <2>2. Cleaned(2, banner) \in CleanState BY DEF Cleaned, CleanState
  <2> QED BY <1>4, <2>1, <2>2
<1>5. CASE skip = 0 /\ ~(data[i] = "IAC" /\ i + 2 <= Len(data))
  <2>1. c = IF data[i] \in Client!Printable THEN [s EXCEPT !.banner = Append(@, data[i])] ELSE s
    BY <1>5 DEF Client!Clean, Cleaned
  <2>2. [s EXCEPT !.banner = Append(@, data[i])] = Cleaned(skip, banner \o <<data[i]>>)
    <3>1. [s EXCEPT !.banner = Append(@, data[i])] = Cleaned(skip, Append(banner, data[i]))
      BY DEF Cleaned
    <3> HIDE DEF s
    <3> QED BY <1>2, <3>1, Zenon
  <2>3. Cleaned(skip, banner \o <<data[i]>>) \in CleanState /\ s \in CleanState
    BY <1>2 DEF Cleaned, CleanState
  <2> HIDE DEF s, c
  <2>4. c \in CleanState BY <2>1, <2>2, <2>3
  <2>5. data[i] \in Client!Printable => c = Cleaned(0, banner \o <<data[i]>>)
    BY <1>5, <2>1, <2>2
  <2> QED BY <1>5, <2>4, <2>5 DEF s, c
<1> QED BY <1>3, <1>4, <1>5

LEMMA CleaningsEquation ==
  ASSUME NEW data \in Seq(Byte)
  PROVE  /\ Client!Cleanings(data)[0] = Cleaned(0, <<>>)
         /\ \A n \in Nat : n < Len(data) =>
              /\ Client!Cleanings(data)[n] \in CleanState
              /\ Client!Cleanings(data)[n + 1] = Client!Clean(Client!Cleanings(data)[n], data, n + 1)
<1> DEFINE F == [n \in Nat |-> [s \in CleanState |->
                   IF n \in 1..Len(data) THEN Client!Clean(s, data, n) ELSE s]]
           Is(h) == h = [n \in 0..Len(data) |->
                           IF n = 0 THEN Cleaned(0, <<>>) ELSE Client!Clean(h[n - 1], data, n)]
<1>1. PICK N \in Nat : N = Len(data) OBVIOUS
<1>2. ASSUME NEW s \in CleanState, NEW n \in 1..N PROVE Client!Clean(s, data, n) \in CleanState
  <2>1. s.skip \in Nat /\ s.banner \in Seq(Byte) /\ s = Cleaned(s.skip, s.banner)
    BY DEF CleanState, Cleaned
  <2>2. n \in 1..Len(data) BY <1>1
  <2>3. Client!Clean(Cleaned(s.skip, s.banner), data, n) \in CleanState
    BY <2>1, <2>2, CleanSteps
  <2> QED BY <2>1, <2>3
<1>3. F \in [Nat -> [CleanState -> CleanState]] BY <1>1, <1>2
<1>4. Cleaned(0, <<>>) \in CleanState BY DEF Cleaned, CleanState
<1>5. PICK g : Recursion(g, CleanState, Cleaned(0, <<>>), F)
  <2> HIDE DEF F
  <2> QED BY <1>3, <1>4, RecursionExists
<1>6. g[0] = Cleaned(0, <<>>) /\ \A n \in Nat : g[n] \in CleanState BY <1>5 DEF Recursion
<1>7. ASSUME NEW n \in Nat, n < N PROVE g[n + 1] = Client!Clean(g[n], data, n + 1)
  <2>1. g[n] \in CleanState /\ n + 1 \in Nat /\ n + 1 \in 1..Len(data) BY <1>1, <1>6, <1>7
  <2>2. g[n + 1] = F[n + 1][g[n]]
    <3> HIDE DEF F
    <3> QED BY <1>5 DEF Recursion
  <2> QED BY <2>1, <2>2
<1>8. \E h : Is(h)
  <2> DEFINE h == [n \in 0..N |-> g[n]]
  <2>1. ASSUME NEW n \in 0..N
        PROVE  h[n] = IF n = 0 THEN Cleaned(0, <<>>) ELSE Client!Clean(h[n - 1], data, n)
    <3>1. CASE n = 0 BY <1>6, <3>1
    <3>2. CASE n # 0
      <4>1. n - 1 \in Nat /\ n - 1 < N /\ (n - 1) + 1 = n /\ n - 1 \in 0..N BY <3>2
      <4>2. g[(n - 1) + 1] = Client!Clean(g[n - 1], data, (n - 1) + 1) BY <1>7, <4>1, Zenon
      <4>3. h[n] = g[n] /\ h[n - 1] = g[n - 1] BY <4>1
      <4> HIDE DEF h
      <4> QED BY <3>2, <4>1, <4>2, <4>3
    <3> QED BY <3>1, <3>2
  <2>2. h = [n \in 0..N |-> h[n]] OBVIOUS
  <2> HIDE DEF h
  <2>3. h = [n \in 0..N |-> IF n = 0 THEN Cleaned(0, <<>>) ELSE Client!Clean(h[n - 1], data, n)]
    BY <2>1, <2>2, Zenon
  <2> QED BY <1>1, <2>3
<1> DEFINE C == Client!Cleanings(data)
<1>9. Is(C)
  <2>1. C = CHOOSE h : Is(h) BY DEF Client!Cleanings, Cleaned
  <2> HIDE DEF Is, C
  <2> QED BY <1>8, <2>1
<1>10. C[0] = Cleaned(0, <<>>) BY <1>1, <1>9
<1>11. ASSUME NEW n \in Nat, n < N PROVE C[n + 1] = Client!Clean(C[n], data, n + 1)
  <2>1. n + 1 \in 0..N /\ n + 1 # 0 /\ (n + 1) - 1 = n BY <1>11
  <2> QED BY <1>1, <1>9, <2>1
<1> HIDE DEF C
<1> DEFINE T == {n \in Nat : n <= N => C[n] \in CleanState}
<1>12. 0 \in T BY <1>4, <1>10
<1>13. ASSUME NEW n \in Nat, n \in T PROVE n + 1 \in T
  <2>1. SUFFICES ASSUME n < N PROVE C[n + 1] \in CleanState OBVIOUS
  <2>2. C[n] \in CleanState /\ n + 1 \in 1..N BY <1>13, <2>1
  <2> QED BY <1>2, <1>11, <2>1, <2>2
<1>14. Nat \subseteq T
  <2> HIDE DEF T
  <2> QED BY <1>12, <1>13, NaturalsInSet
<1>15. \A n \in Nat : n < N => C[n] \in CleanState BY <1>14
<1> QED BY <1>1, <1>10, <1>11, <1>15 DEF C
(* Text that can be printed, or a negotiation. *)
LEMMA TextCleaned ==
  ASSUME NEW data \in Seq(Byte), NEW m \in Nat, m < Len(data),
         NEW banner \in Seq(Byte), Client!Cleanings(data)[m] = Cleaned(0, banner),
         data[m + 1] \in Client!Printable, data[m + 1] # "IAC"
  PROVE  Client!Cleanings(data)[m + 1] = Cleaned(0, banner \o <<data[m + 1]>>)
<1>1. Client!Cleanings(data)[m + 1] = Client!Clean(Cleaned(0, banner), data, m + 1)
  BY CleaningsEquation
<1>2. m + 1 \in 1..Len(data) BY DEF Byte
<1> QED BY <1>1, <1>2, CleanSteps

LEMMA OptionCleaned ==
  ASSUME NEW data \in Seq(Byte), NEW m \in Nat, m + 3 <= Len(data),
         NEW banner \in Seq(Byte), Client!Cleanings(data)[m] = Cleaned(0, banner),
         data[m + 1] = "IAC"
  PROVE  Client!Cleanings(data)[m + 3] = Cleaned(0, banner)
<1> DEFINE C == Client!Cleanings(data)
<1>1. PICK N \in Nat : N = Len(data) OBVIOUS
<1>2. \A n \in Nat : n < N => C[n + 1] = Client!Clean(C[n], data, n + 1)
  BY <1>1, CleaningsEquation
<1>3. /\ m < N /\ m + 1 < N /\ (m + 1) + 1 < N /\ m + 1 \in Nat /\ (m + 1) + 1 \in Nat
      /\ m + 1 \in 1..N /\ (m + 1) + 1 \in 1..N /\ ((m + 1) + 1) + 1 \in 1..N
      /\ (m + 1) + 2 <= N /\ ((m + 1) + 1) + 1 = m + 3
  BY <1>1
<1>4. C[m] = Cleaned(0, banner) OBVIOUS
<1> DEFINE After(skip, i) == Client!Clean(Cleaned(skip, banner), data, i)
<1>s. \A skip \in Nat, i \in 1..N :
         /\ skip > 0 => After(skip, i) = Cleaned(skip - 1, banner)
         /\ skip = 0 /\ data[i] = "IAC" /\ i + 2 <= N => After(skip, i) = Cleaned(2, banner)
  BY <1>1, CleanSteps
<1> HIDE DEF C, After
<1>5. C[m + 1] = Cleaned(2, banner)
  <2>1. After(0, m + 1) = Cleaned(2, banner) BY <1>3, <1>s
  <2> QED BY <1>2, <1>3, <1>4, <2>1 DEF After
<1>6. C[(m + 1) + 1] = Cleaned(1, banner)
  <2>1. After(2, (m + 1) + 1) = Cleaned(1, banner) BY <1>3, <1>s
  <2>2. C[(m + 1) + 1] = Client!Clean(C[m + 1], data, (m + 1) + 1) BY <1>2, <1>3, Zenon
  <2> QED BY <1>5, <2>1, <2>2, Zenon DEF After
<1>7. C[((m + 1) + 1) + 1] = Cleaned(0, banner)
  <2>1. After(1, ((m + 1) + 1) + 1) = Cleaned(0, banner) BY <1>3, <1>s
  <2>2. C[((m + 1) + 1) + 1] = Client!Clean(C[(m + 1) + 1], data, ((m + 1) + 1) + 1)
    BY <1>2, <1>3, Zenon
  <2> QED BY <1>6, <2>1, <2>2, Zenon DEF After
<1> QED BY <1>3, <1>7 DEF C

LEMMA OptionSettled ==
  ASSUME NEW d \in Seq(Byte), NEW r \in Seq(Byte), NEW cmd \in Client!Commands, NEW opt \in Byte
  PROVE  /\ <<"IAC", cmd, opt>> \in Seq(Byte)
         /\ \E reply \in Seq(Byte) :
               Settled(Stream(d, r, <<"IAC", cmd, opt>>)) = Stream(d, reply, <<>>)
<1> DEFINE w == <<"IAC", cmd, opt>>
           reply == r \o Client!Negotiate(cmd, opt)
<1>1. w \in Seq(Byte)
  <2>1. "IAC" \in Byte /\ cmd \in Byte BY DEF Byte, Client!Printable
  <2> QED BY <2>1, WordTyped
<1>2. Len(w) = 3 /\ w[1] = "IAC" /\ w[2] = cmd /\ w[3] = opt OBVIOUS
<1>3. SubSeq(w, 3 + 1, Len(w)) = <<>> BY <1>1, <1>2
<1>4. Client!Negotiate(cmd, opt) \in Seq(Byte) BY NegotiateTyped
<1>5. reply \in Seq(Byte) BY <1>4
<1>6. d \o <<>> = d /\ <<>> \in Seq(Byte) OBVIOUS
<1> HIDE DEF w
<1>7. Client!ProcessNext(Stream(d, r, w)) = Taken(d, r, w, 3, <<>>, Client!Negotiate(cmd, opt))
  <2>1. Len(w) > 1 /\ Len(w) # 2 /\ w[2] \in Client!Commands BY <1>2
  <2>2. Client!ProcessNext(Stream(d, r, w)) = Taken(d, r, w, 3, <<>>, Client!Negotiate(w[2], w[3]))
    BY <1>1, <1>2, <2>1, TurnOption
  <2> QED BY <1>2, <2>2
<1>8. Client!ProcessNext(Stream(d, r, w)) = Stream(d, reply, <<>>)
  BY <1>3, <1>6, <1>7, Zenon DEF Taken
<1>9. Stream(d, r, w) \in StreamState BY <1>1 DEF Stream, StreamState
<1> HIDE DEF reply
<1>10. Settled(Stream(d, r, w)) = Stream(d, reply, <<>>)
  <2>1. Settled(Stream(d, reply, <<>>)) = Stream(d, reply, <<>>) BY <1>5, NothingLeft
  <2>2. Settled(Client!ProcessNext(Stream(d, r, w))) = Settled(Stream(d, r, w))
    BY <1>9, SettledNext
  <2> QED BY <1>8, <2>1, <2>2
<1> QED BY <1>1, <1>5, <1>10 DEF w

(* What a piece of the peer's talk adds to the banner is what the layer decodes. *)
Shown(data, n, text, replies) ==
    /\ text \in Seq(Byte) /\ replies \in Seq(Byte)
    /\ Client!Cleanings(data)[n] = Cleaned(0, text)
Shows(data, u) == \E text, replies : /\ Shown(data, Len(u), text, replies)
                                     /\ All(u) = Stream(text, replies, <<>>)

LEMMA PieceShown ==
  ASSUME NEW data \in Seq(Byte), NEW u \in Seq(Byte), NEW piece \in Seq(Byte),
         Client!TextOrOption(piece), Prefix(u \o piece, data), Shows(data, u)
  PROVE  Shows(data, u \o piece)
<1>0. PICK text, replies : /\ Shown(data, Len(u), text, replies)
                           /\ All(u) = Stream(text, replies, <<>>)
  BY DEF Shows
<1>1. PICK m \in Nat : m = Len(u) OBVIOUS
<1>2. text \in Seq(Byte) /\ replies \in Seq(Byte) BY <1>0 DEF Shown
<1>3. Client!Cleanings(data)[m] = Cleaned(0, text) BY <1>0, <1>1 DEF Shown
<1>4. ASSUME NEW word \in Seq(Byte)
      PROVE  All(u \o word) = Settled(Stream(text, replies, word))
  <2>1. Followed(Stream(text, replies, <<>>), word) = Stream(text, replies, <<>> \o word)
    BY DEF Followed, Stream
  <2>2. <<>> \o word = word OBVIOUS
  <2>3. All(u \o word) = Settled(Followed(All(u), word)) BY AllFollowed
  <2> QED BY <1>0, <2>1, <2>2, <2>3
<1>5. CASE \E byte \in Client!Printable \ {"IAC"} : piece = <<byte>>
  <2>1. PICK byte \in Client!Printable \ {"IAC"} : piece = <<byte>> BY <1>5
  <2>2. byte \in Byte BY <2>1 DEF Byte
  <2>3. Len(u \o piece) = m + 1 /\ (u \o piece)[m + 1] = byte /\ piece \in Seq(Byte)
    BY <1>1, <2>1, <2>2
  <2>4. m < Len(data) /\ data[m + 1] = byte
    <3>1. m + 1 <= Len(data) /\ m + 1 \in 1..(m + 1) BY <2>3 DEF Prefix
    <3> QED BY <2>3, <3>1 DEF Prefix
  <2>5. Client!Cleanings(data)[m + 1] = Cleaned(0, text \o <<byte>>)
    BY <1>2, <1>3, <2>1, <2>4, TextCleaned
  <2>6. All(u \o piece) = Stream(text \o <<byte>>, replies, <<>>)
    <3>1. Escaped(byte) = piece BY <2>1 DEF Escaped
    <3>2. Settled(Stream(text, replies, piece)) = Stream(text \o <<byte>>, replies, <<>>)
      BY <1>2, <2>2, <3>1, EscapedByte
    <3> QED BY <1>4, <2>3, <3>2
  <2>7. text \o <<byte>> \in Seq(Byte) BY <1>2, <2>2
  <2>8. Shown(data, Len(u \o piece), text \o <<byte>>, replies)
    BY <1>2, <2>3, <2>5, <2>7 DEF Shown
  <2> QED BY <2>6, <2>8 DEF Shows
<1>6. CASE Len(piece) = 3 /\ piece[1] = "IAC" /\ piece[2] \in Client!Commands
  <2>1. PICK cmd \in Client!Commands, opt \in Byte : piece = <<"IAC", cmd, opt>>
    <3>1. piece[1] \in Byte /\ piece[2] \in Byte /\ piece[3] \in Byte BY <1>6
    <3> DEFINE word == <<piece[1], piece[2], piece[3]>>
    <3>2. word \in Seq(Byte) BY <3>1, WordTyped
    <3>3. Len(word) = Len(piece) /\ \A k \in 1..Len(piece) : piece[k] = word[k] BY <1>6
    <3> HIDE DEF word
    <3>4. piece = word BY <3>2, <3>3, SeqEqual
    <3> QED BY <1>6, <3>1, <3>4 DEF word
  <2>2. piece \in Seq(Byte) /\ Len(piece) = 3 /\ piece[1] = "IAC" BY <2>1, OptionSettled
  <2>3. Len(u \o piece) = m + 3 /\ (u \o piece)[m + 1] = "IAC" 
    <3>1. Len(u \o piece) = m + 3
      <4>1. Len(u \o piece) = Len(u) + Len(piece) BY <2>2, ConcatProperties, Zenon
      <4> QED BY <1>1, <2>2, <4>1
    <3>2. (u \o piece)[m + 1] = piece[1]
      <4>1. Len(u) + 1 \in 1..(Len(u) + Len(piece)) BY <2>2
      <4>2. ~(Len(u) + 1 <= Len(u)) /\ (Len(u) + 1) - Len(u) = 1 OBVIOUS
      <4>3. (u \o piece)[Len(u) + 1] = piece[1] BY <2>2, <4>1, <4>2, ConcatProperties
      <4> QED BY <1>1, <4>3
    <3> QED BY <2>2, <3>1, <3>2
  <2>4. m + 3 <= Len(data) /\ data[m + 1] = "IAC"
    <3>1. m + 3 <= Len(data) /\ m + 1 \in 1..(m + 3) BY <2>3 DEF Prefix
    <3> QED BY <2>3, <3>1 DEF Prefix
  <2>5. Client!Cleanings(data)[m + 3] = Cleaned(0, text)
    BY <1>2, <1>3, <2>4, OptionCleaned
  <2>6. PICK reply \in Seq(Byte) : Settled(Stream(text, replies, piece)) = Stream(text, reply, <<>>)
    BY <1>2, <2>1, OptionSettled
  <2>7. All(u \o piece) = Stream(text, reply, <<>>) BY <1>4, <2>2, <2>6
  <2>8. Shown(data, Len(u \o piece), text, reply) BY <1>2, <2>3, <2>5, <2>6 DEF Shown
  <2> QED BY <2>7, <2>8 DEF Shows
<1> QED BY <1>5, <1>6 DEF Client!TextOrOption

(* Of any bytes: which of them are shown. *)
LEMMA ClientCounts ==
  ASSUME NEW S
  PROVE  Client!Cardinality(S) = Cardinality(S)
BY DEF Cardinality, Client!Cardinality

LEMMA OneMorePicked ==
  ASSUME NEW data \in Seq(Byte), NEW n \in Nat, n + 1 <= Len(data), NEW text \in Seq(Byte),
         NEW shown \in SUBSET (1..n), Client!Picks(shown, data, text)
  PROVE  Client!Picks(shown \cup {n + 1}, data, text \o <<data[n + 1]>>)
<1> DEFINE i == n + 1
           more == shown \cup {i}
           text2 == text \o <<data[i]>>
           Upto(S, k) == {j \in S : j <= k}
<1>1. IsFiniteSet(shown) /\ i \notin shown
  <2>1. IsFiniteSet(1..n) BY FS_Interval
  <2>2. IsFiniteSet(shown) BY <2>1, FS_Subset
  <2> QED BY <2>2
<1>2. PICK m \in Nat : m = Len(text) OBVIOUS
<1>3. Cardinality(shown) = m BY <1>2, ClientCounts DEF Client!Picks
<1>4. Cardinality(more) = m + 1 /\ IsFiniteSet(more) BY <1>1, <1>3, FS_AddElement
<1>5. data[i] \in Byte OBVIOUS
<1>6. Len(text2) = m + 1 /\ text2[m + 1] = data[i] /\ \A k \in 1..m : text2[k] = text[k]
  BY <1>2, <1>5
<1>7. ASSUME NEW k \in shown PROVE text2[Cardinality(Upto(more, k))] = data[k]
  <2>1. Upto(more, k) = Upto(shown, k) BY <1>7
  <2>2. Upto(shown, k) \subseteq shown /\ k \in Upto(shown, k) BY <1>7
  <2>3. PICK c \in Nat : c = Cardinality(Upto(shown, k)) /\ c <= m
    BY <1>1, <1>3, <2>2, FS_Subset, FS_CardinalityType
  <2>4. c # 0 BY <1>1, <2>2, <2>3, FS_EmptySet, FS_Subset
  <2>5. text[c] = data[k] BY <2>3, ClientCounts DEF Client!Picks
  <2>6. c \in 1..m BY <2>3, <2>4
  <2> HIDE DEF Upto, text2
  <2> QED BY <1>6, <2>1, <2>3, <2>5, <2>6
<1>8. Upto(more, i) = more
  <2>1. \A j \in more : j <= i OBVIOUS
  <2> HIDE DEF more
  <2> QED BY <2>1
<1>9. text2[Cardinality(Upto(more, i))] = data[i] BY <1>4, <1>6, <1>8
<1>10. Len(text2) = Cardinality(more) BY <1>4, <1>6
<1>11. \A k \in more : text2[Cardinality(Upto(more, k))] = data[k] BY <1>7, <1>9
<1> HIDE DEF text2
<1>12. Client!Picks(more, data, text2) BY <1>10, <1>11, ClientCounts DEF Client!Picks
<1> QED BY <1>12 DEF text2

(* After n bytes. *)
Picked(data, n, s) ==
    /\ s.skip \in 0..2 /\ s.banner \in Seq(Byte)
    /\ s.skip = 2 => n > 0 /\ data[n] = "IAC"
    /\ s.skip = 1 => n > 1 /\ data[n - 1] = "IAC"
    /\ \E shown \in SUBSET (Client!MayShow(data) \cap (1..n)) :
          Client!Exposed(data) \cap (1..n) \subseteq shown /\ Client!Picks(shown, data, s.banner)

LEMMA PickedNext ==
  ASSUME NEW data \in Seq(Byte), NEW n \in Nat, n < Len(data), NEW s \in CleanState,
         Picked(data, n, s)
  PROVE  Picked(data, n + 1, Client!Clean(s, data, n + 1))
<1> DEFINE i == n + 1
<1>1. PICK N \in Nat : N = Len(data) OBVIOUS
<1>2. i \in 1..N /\ i - 1 = n /\ i \in DOMAIN data /\ data[i] \in Byte BY <1>1
<1>3. s = Cleaned(s.skip, s.banner) /\ s.skip \in 0..2 /\ s.banner \in Seq(Byte)
  BY DEF Picked, Cleaned, CleanState
<1>4. PICK shown \in SUBSET (Client!MayShow(data) \cap (1..n)) :
         Client!Exposed(data) \cap (1..n) \subseteq shown /\ Client!Picks(shown, data, s.banner)
  BY DEF Picked
<1>5. shown \in SUBSET (Client!MayShow(data) \cap (1..i)) BY <1>4
<1>6. (1..i) = (1..n) \cup {i} OBVIOUS
<1>7. ASSUME i \notin Client!Exposed(data)
      PROVE  Client!Exposed(data) \cap (1..i) \subseteq shown
  BY <1>4, <1>6, <1>7
<1>8. CASE s.skip > 0
  <2>1. Client!Clean(s, data, i) = [s EXCEPT !.skip = s.skip - 1] BY <1>8 DEF Client!Clean
  <2>2. PICK t : t = Client!Clean(s, data, i) OBVIOUS
  <2>3. t.skip = s.skip - 1 /\ t.banner = s.banner BY <2>1, <2>2 DEF CleanState
  <2>4. i \notin Client!Exposed(data)
    <3>1. PICK j \in DOMAIN data : j < i /\ i <= j + 2 /\ data[j] = "IAC"
      <4>1. CASE s.skip = 2
        <5>1. n > 0 /\ data[n] = "IAC" /\ n \in DOMAIN data BY <1>1, <4>1 DEF Picked
        <5> QED BY <5>1
      <4>2. CASE s.skip = 1
        <5>1. n > 1 /\ data[n - 1] = "IAC" /\ n - 1 \in DOMAIN data /\ n - 1 < i /\ i <= (n - 1) + 2
          BY <1>1, <4>2 DEF Picked
        <5> QED BY <5>1
      <4> QED BY <1>3, <1>8, <4>1, <4>2
    <3> QED BY <3>1 DEF Client!Exposed
  <2>5. t.skip = 1 => i > 1 /\ data[i - 1] = "IAC" BY <1>2, <2>3, <1>3 DEF Picked
  <2>6. t.skip \in 0..2 /\ t.skip # 2 BY <1>3, <1>8, <2>3
  <2> QED BY <1>3, <1>4, <1>5, <1>7, <2>2, <2>3, <2>4, <2>5, <2>6 DEF Picked
<1>9. CASE s.skip = 0 /\ data[i] = "IAC" /\ i + 2 <= N
  <2>1. Client!Clean(s, data, i) = Cleaned(2, s.banner)
    <3>1. Client!Clean(s, data, i) = [s EXCEPT !.skip = 2] BY <1>1, <1>9 DEF Client!Clean
    <3> QED BY <1>3, <3>1 DEF Cleaned, CleanState
  <2>2. i \notin Client!Exposed(data) BY <1>9 DEF Client!Exposed
  <2>3. Picked(data, i, Cleaned(2, s.banner))
    BY <1>2, <1>3, <1>4, <1>5, <1>7, <1>9, <2>2 DEF Picked, Cleaned
  <2> QED BY <2>1, <2>3
<1>10. CASE s.skip = 0 /\ ~(data[i] = "IAC" /\ i + 2 <= N)
  <2>1. Client!Clean(s, data, i)
          = IF data[i] \in Client!Printable THEN [s EXCEPT !.banner = Append(@, data[i])] ELSE s
    BY <1>1, <1>10 DEF Client!Clean
  <2>2. CASE data[i] \in Client!Printable
    <3>1. Append(s.banner, data[i]) = s.banner \o <<data[i]>> /\ s.banner \o <<data[i]>> \in Seq(Byte)
      BY <1>2, <1>3
    <3>2. Client!Clean(s, data, i) = Cleaned(0, s.banner \o <<data[i]>>)
      <4>1. \A banner : [s EXCEPT !.banner = banner] = Cleaned(0, banner)
        BY <1>3, <1>10 DEF Cleaned, CleanState
      <4>2. Client!Clean(s, data, i) = [s EXCEPT !.banner = Append(s.banner, data[i])]
        BY <2>1, <2>2
      <4> QED BY <3>1, <4>1, <4>2
    <3>3. i \in Client!MayShow(data) BY <1>1, <1>2, <1>10, <2>2 DEF Client!MayShow
    <3>4. Client!Picks(shown \cup {i}, data, s.banner \o <<data[i]>>)
      <4>1. shown \in SUBSET (1..n) /\ n + 1 <= Len(data) BY <1>1
      <4> QED BY <1>3, <1>4, <4>1, OneMorePicked
    <3>5. shown \cup {i} \in SUBSET (Client!MayShow(data) \cap (1..i)) BY <1>2, <1>5, <3>3
    <3>6. Client!Exposed(data) \cap (1..i) \subseteq shown \cup {i} BY <1>4, <1>6
    <3>7. \E more \in SUBSET (Client!MayShow(data) \cap (1..i)) :
             Client!Exposed(data) \cap (1..i) \subseteq more
             /\ Client!Picks(more, data, s.banner \o <<data[i]>>)
      BY <3>4, <3>5, <3>6, Zenon
    <3>8. Picked(data, i, Cleaned(0, s.banner \o <<data[i]>>)) BY <3>1, <3>7 DEF Picked, Cleaned
    <3> QED BY <3>2, <3>8
  <2>3. CASE data[i] \notin Client!Printable
    <3>1. Client!Clean(s, data, i) = s BY <2>1, <2>3
    <3>2. i \notin Client!Exposed(data) BY <2>3 DEF Client!Exposed
    <3>3. Picked(data, i, s) BY <1>3, <1>4, <1>5, <1>7, <1>10, <3>2 DEF Picked
    <3> QED BY <3>1, <3>3
  <2> QED BY <2>2, <2>3
<1> QED BY <1>1, <1>3, <1>8, <1>9, <1>10

LEMMA BannerPicked ==
  ASSUME NEW data \in Seq(Byte)
  PROVE  \E shown \in SUBSET Client!MayShow(data) :
            Client!Exposed(data) \subseteq shown
            /\ Client!Picks(shown, data, Client!CleanBanner(data))
<1> DEFINE C == Client!Cleanings(data)
           T == {n \in Nat : n <= Len(data) => Picked(data, n, C[n])}
<1>1. PICK N \in Nat : N = Len(data) OBVIOUS
<1>2. /\ C[0] = Cleaned(0, <<>>)
      /\ \A n \in Nat : n < N => C[n] \in CleanState /\ C[n + 1] = Client!Clean(C[n], data, n + 1)
  BY <1>1, CleaningsEquation
<1> HIDE DEF C
<1>3. Picked(data, 0, C[0])
  <2>1. {} \in SUBSET (Client!MayShow(data) \cap (1..0)) /\ Client!Exposed(data) \cap (1..0) \subseteq {}
    OBVIOUS
  <2>2. Len(<<>>) = 0 /\ <<>> \in Seq(Byte) /\ Client!Cardinality({}) = 0
    BY ClientCounts, FS_EmptySet
  <2>3. Client!Picks({}, data, <<>>) BY <2>2 DEF Client!Picks
  <2> QED BY <1>2, <2>1, <2>2, <2>3 DEF Picked, Cleaned
<1>4. ASSUME NEW n \in Nat, n < N, Picked(data, n, C[n]) PROVE Picked(data, n + 1, C[n + 1])
  BY <1>1, <1>2, <1>4, PickedNext
<1>5. Nat \subseteq T
  <2>1. 0 \in T BY <1>3
  <2>2. ASSUME NEW n \in Nat, n \in T PROVE n + 1 \in T
    <3>1. SUFFICES ASSUME n < N PROVE Picked(data, n + 1, C[n + 1]) BY <1>1
    <3>2. Picked(data, n, C[n]) BY <1>1, <2>2, <3>1
    <3> QED BY <1>4, <3>1, <3>2
  <2> HIDE DEF T
  <2> QED BY <2>1, <2>2, NaturalsInSet
<1>6. Picked(data, N, C[N]) BY <1>1, <1>5
<1>7. Client!MayShow(data) \cap (1..N) = Client!MayShow(data)
      /\ Client!Exposed(data) \cap (1..N) = Client!Exposed(data)
  BY <1>1 DEF Client!MayShow, Client!Exposed
<1>8. Client!CleanBanner(data) = C[N].banner BY <1>1 DEF Client!CleanBanner, C
<1> QED BY <1>6, <1>7, <1>8 DEF Picked

LEMMA BannerShown ==
  ASSUME NEW pieces \in Seq(Seq(Byte)), NEW up \in BOOLEAN, NEW inTime \in BOOLEAN
  PROVE  Client!BannerAsShown(up, inTime, pieces,
                              Client!TelnetTest(up, inTime, Client!FlattenSeq(pieces)))
<1> DEFINE data == Client!FlattenSeq(pieces)
<1>1. PICK f : Flattening(f, Byte, pieces) /\ data = f[Len(pieces)] BY FlattenSeqEquation
<1>2. PICK N \in Nat : N = Len(pieces) OBVIOUS
<1>3. f \in [0..N -> Seq(Byte)] /\ f[0] = <<>> BY <1>1, <1>2 DEF Flattening
<1>4. \A n \in Nat : n < N => f[n + 1] = f[n] \o pieces[n + 1] BY <1>1, <1>2 DEF Flattening
<1>5. data = f[N] /\ data \in Seq(Byte) BY <1>1, <1>2, <1>3
<1> HIDE DEF data
<1>6. \A k \in 0..N : Prefix(f[k], data) BY <1>1, <1>2, <1>5, PrefixesOfFlattening
<1>7. ASSUME \A i \in DOMAIN pieces : Client!TextOrOption(pieces[i])
      PROVE  Client!Process(Client!Fresh, data).decoded = Client!CleanBanner(data)
  <2> DEFINE T == {n \in Nat : n <= N => Shows(data, f[n])}
  <2>1. Shows(data, f[0])
    <3>1. <<>> \in Seq(Byte) /\ Len(<<>>) = 0 OBVIOUS
    <3>2. Shown(data, Len(f[0]), <<>>, <<>>)
      BY <1>3, <1>5, <3>1, CleaningsEquation DEF Shown
    <3>3. All(f[0]) = Stream(<<>>, <<>>, <<>>) BY <1>3, FreshAll
    <3> QED BY <3>2, <3>3 DEF Shows
  <2>2. ASSUME NEW n \in Nat, n < N, Shows(data, f[n]) PROVE Shows(data, f[n + 1])
    <3>1. n \in 0..N /\ n + 1 \in 0..N /\ n + 1 \in DOMAIN pieces BY <1>2, <2>2
    <3>2. f[n] \in Seq(Byte) /\ pieces[n + 1] \in Seq(Byte) /\ Client!TextOrOption(pieces[n + 1])
      BY <1>3, <1>7, <3>1
    <3>3. f[n + 1] = f[n] \o pieces[n + 1] BY <1>4, <2>2
    <3>4. Prefix(f[n] \o pieces[n + 1], data) BY <1>6, <3>1, <3>3
    <3>5. Shows(data, f[n] \o pieces[n + 1]) BY <1>5, <2>2, <3>2, <3>4, PieceShown, Zenon
    <3> QED BY <3>3, <3>5
  <2>3. Nat \subseteq T
    <3>1. 0 \in T BY <2>1
    <3>2. ASSUME NEW n \in Nat, n \in T PROVE n + 1 \in T
      <4>1. SUFFICES ASSUME n < N PROVE Shows(data, f[n + 1]) OBVIOUS
      <4>2. Shows(data, f[n]) BY <3>2, <4>1
      <4> QED BY <2>2, <4>1, <4>2
    <3> HIDE DEF T
    <3> QED BY <3>1, <3>2, NaturalsInSet
  <2>4. Shows(data, f[N]) BY <2>3
  <2>5. PICK text, replies : /\ Shown(data, Len(f[N]), text, replies)
                             /\ All(f[N]) = Stream(text, replies, <<>>)
    BY <2>4 DEF Shows
  <2>6. Client!CleanBanner(data) = text
    BY <1>5, <2>5 DEF Shown, Cleaned, Client!CleanBanner
  <2>7. Client!Process(Client!Fresh, data) = All(data) BY <1>5, FreshProcess
  <2> QED BY <1>5, <2>5, <2>6, <2>7 DEF Stream
<1> DEFINE r == Client!TelnetTest(up, inTime, data)
<1>8. r.success = up /\ r.banner = IF up /\ inTime THEN Client!CleanBanner(data) ELSE <<>>
  BY DEF Client!TelnetTest
<1>9. \E shown \in SUBSET Client!MayShow(data) :
         Client!Exposed(data) \subseteq shown
         /\ Client!Picks(shown, data, Client!CleanBanner(data))
  BY <1>5, BannerPicked
<1> HIDE DEF r
<1>10. Client!BannerAsShown(up, inTime, pieces, r)
  BY <1>7, <1>8, <1>9 DEF Client!BannerAsShown, data
<1> QED BY <1>10 DEF r, data
-----------------------------------------------------------------------------
(* A BinkP session. *)
Sessions(remote) ==
    [adr : BOOLEAN, addresses : {{}} \cup {remote.frames[i].addresses : i \in 1..Len(remote.frames)},
     system : BOOLEAN, remoteEOB : BOOLEAN, sentEOB : {0, 1}, read : Nat,
     result : {"none", "ok", "error"}]

Type(remote, i) == Client!FrameType(remote.frames[i])
Deciding == {"OK", "EOB", "ERR", "BSY"}
AdrTill(remote, k) == {i \in 1..k : Type(remote, i) = "ADR"}

(* The addresses that the last of them, if any, has brought. *)
Addresses(remote, k) ==
    IF AdrTill(remote, k) = {} THEN {} ELSE remote.frames[Client!Max(AdrTill(remote, k))].addresses

(* After k frames that decide nothing. *)
Undecided(s, remote, k) ==
    /\ s.result = "none" /\ s.sentEOB = 0 /\ s.read = k
    /\ s.adr = (AdrTill(remote, k) # {}) /\ s.addresses = Addresses(remote, k)

Receiving(remote, maxFrames) ==
    {s \in Sessions(remote) : s.read <= Len(remote.frames) /\ s.read <= maxFrames}

LEMMA FrameTyped ==
  ASSUME NEW remote, Len(remote.frames) \in Nat,
         NEW s \in Sessions(remote), s.read < Len(remote.frames)
  PROVE  LET t == Client!Receive(s, remote, remote.frames[s.read + 1])
         IN t \in Sessions(remote) /\ t.read = s.read + 1
<1> DEFINE frame == remote.frames[s.read + 1]
           u == [s EXCEPT !.read = @ + 1]
           type == Client!FrameType(frame)
           t == Client!Receive(s, remote, frame)
<1>1. u \in Sessions(remote) /\ u.read = s.read + 1 BY DEF Sessions
<1>2. s.read + 1 \in 1..Len(remote.frames) BY DEF Sessions
<1>3. CASE type = "NUL"
  <2>1. t = [u EXCEPT !.system = @ \/ frame.system] BY <1>3 DEF Client!Receive
  <2>2. (u.system \/ frame.system) \in BOOLEAN OBVIOUS
  <2> HIDE DEF u, frame
  <2> QED BY <1>1, <2>1, <2>2 DEF Sessions, frame
<1>4. CASE type = "ADR"
  <2>1. t = [u EXCEPT !.addresses = frame.addresses, !.adr = TRUE] BY <1>4 DEF Client!Receive
  <2>2. frame.addresses \in {remote.frames[i].addresses : i \in 1..Len(remote.frames)}
    BY <1>2
  <2> HIDE DEF u, frame
  <2> QED BY <1>1, <2>1, <2>2 DEF Sessions, frame
<1>5. CASE type \in {"OK", "ERR", "BSY"}
  <2>1. t = [u EXCEPT !.result = IF type = "OK" THEN "ok" ELSE "error"]
    BY <1>5 DEF Client!Receive
  <2> HIDE DEF u, frame, type
  <2> QED BY <1>1, <2>1 DEF Sessions, frame
<1>6. CASE type = "EOB"
  <2>1. t = Client!ReceiveEOB(u, remote) BY <1>6 DEF Client!Receive
  <2> HIDE DEF u, frame, type, t
  <2>2. t \in Sessions(remote) /\ t.read = u.read
    <3> DEFINE over(r) == [u EXCEPT !.remoteEOB = TRUE, !.result = r]
               told == [over("ok") EXCEPT !.sentEOB = 1]
    <3>1. t \in {over("error"), over("ok"), told}
      BY <2>1 DEF Client!ReceiveEOB, Client!SendEOB
    <3>2. over("error") \in Sessions(remote) /\ over("error").read = u.read
      BY <1>1 DEF Sessions
    <3>3. over("ok") \in Sessions(remote) /\ over("ok").read = u.read
      BY <1>1 DEF Sessions
    <3> HIDE DEF over
    <3>4. told \in Sessions(remote) /\ told.read = u.read BY <3>3 DEF Sessions
    <3> QED BY <3>1, <3>2, <3>3, <3>4
  <2> QED BY <1>1, <2>2 DEF t, frame
<1>7. CASE type \notin {"NUL", "ADR", "OK", "ERR", "BSY", "EOB"}
  <2>1. t = u BY <1>7 DEF Client!Receive
  <2> QED BY <1>1, <2>1
<1> QED BY <1>3, <1>4, <1>5, <1>6, <1>7

LEMMA ReceptionTyped ==
  ASSUME NEW remote, Len(remote.frames) \in Nat, NEW maxFrames \in Nat,
         NEW s \in Receiving(remote, maxFrames)
  PROVE  /\ Client!ReceiveNext(s, remote, maxFrames) \in Receiving(remote, maxFrames)
         /\ s.result # "none" => Client!ReceiveNext(s, remote, maxFrames) = s
<1> DEFINE t == Client!ReceiveNext(s, remote, maxFrames)
<1>0. s \in Sessions(remote) /\ s.read <= Len(remote.frames) /\ s.read <= maxFrames
  BY DEF Receiving
<1>1. CASE s.result # "none"
  <2>1. t = s BY <1>1 DEF Client!ReceiveNext
  <2> QED BY <1>1, <2>1
<1>2. CASE s.result = "none" /\ (s.read = maxFrames \/ s.read = Len(remote.frames))
  <2>1. PICK r \in {"ok", "error"} : t = [s EXCEPT !.result = r]
    <3>1. CASE s.read = maxFrames BY <1>2, <3>1 DEF Client!ReceiveNext
    <3>2. CASE s.read # maxFrames
      <4>1. s.read < maxFrames BY <1>0, <3>2 DEF Sessions
      <4> QED BY <1>2, <3>2, <4>1 DEF Client!ReceiveNext
    <3> QED BY <3>1, <3>2
  <2> HIDE DEF t
  <2>2. t \in Sessions(remote) /\ t.read = s.read BY <1>0, <2>1 DEF Sessions
  <2>3. t \in Receiving(remote, maxFrames) BY <1>0, <2>2 DEF Receiving
  <2> QED BY <1>2, <2>3 DEF t
<1>3. CASE s.result = "none" /\ s.read # maxFrames /\ s.read # Len(remote.frames)
  <2>1. s.read < maxFrames /\ s.read < Len(remote.frames) /\ s.read \in Nat
    BY <1>0, <1>3 DEF Sessions
  <2>2. t = Client!Receive(s, remote, remote.frames[s.read + 1])
    BY <1>3, <2>1 DEF Client!ReceiveNext
  <2> HIDE DEF t
  <2>3. t \in Sessions(remote) /\ t.read = s.read + 1 BY <1>0, <2>1, <2>2, FrameTyped
  <2>4. t \in Receiving(remote, maxFrames) BY <2>1, <2>3 DEF Receiving
  <2> QED BY <1>3, <2>4 DEF t
<1> QED BY <1>1, <1>2, <1>3

LEMMA AdrNext ==
  ASSUME NEW remote, NEW k \in Nat
  PROVE  /\ Type(remote, k + 1) # "ADR" =>
              /\ AdrTill(remote, k + 1) = AdrTill(remote, k)
              /\ Addresses(remote, k + 1) = Addresses(remote, k)
         /\ Type(remote, k + 1) = "ADR" =>
              /\ AdrTill(remote, k + 1) # {}
              /\ Addresses(remote, k + 1) = remote.frames[k + 1].addresses
<1> DEFINE A == AdrTill(remote, k + 1)
<1>1. ASSUME Type(remote, k + 1) # "ADR" PROVE A = AdrTill(remote, k)
  BY <1>1 DEF AdrTill
<1>2. ASSUME Type(remote, k + 1) = "ADR"
      PROVE  A # {} /\ Addresses(remote, k + 1) = remote.frames[k + 1].addresses
  <2>1. k + 1 \in A /\ A \in SUBSET Nat /\ \A i \in A : i <= k + 1 BY <1>2 DEF AdrTill
  <2>2. Client!Max(A) = k + 1
    <3> HIDE DEF A
    <3> QED BY <2>1, GreatestIs
  <2> QED BY <2>1, <2>2 DEF Addresses
<1> QED BY <1>1, <1>2 DEF Addresses

LEMMA UndecidedNext ==
  ASSUME NEW remote, Len(remote.frames) \in Nat, NEW maxFrames \in Nat,
         NEW k \in Nat, k < maxFrames, k < Len(remote.frames),
         NEW s \in Sessions(remote), Undecided(s, remote, k)
  PROVE  LET t == Client!ReceiveNext(s, remote, maxFrames) IN
         /\ t = Client!Receive(s, remote, remote.frames[k + 1])
         /\ t \in Sessions(remote)
         /\ Type(remote, k + 1) \notin Deciding => Undecided(t, remote, k + 1)
         /\ Type(remote, k + 1) \in Deciding =>
              /\ t.addresses = Addresses(remote, k + 1)
              /\ t.result = IF \/ Type(remote, k + 1) = "OK"
                               \/ Type(remote, k + 1) = "EOB" /\ AdrTill(remote, k + 1) # {}
                            THEN "ok" ELSE "error"
<1> DEFINE frame == remote.frames[k + 1]
           t == Client!ReceiveNext(s, remote, maxFrames)
           type == Client!FrameType(frame)
<1>1. s.read = k /\ s.result = "none" /\ s.sentEOB = 0 BY DEF Undecided
<1>2. t = Client!Receive(s, remote, frame) BY <1>1 DEF Client!ReceiveNext
<1>3. t \in Sessions(remote) BY <1>1, <1>2, FrameTyped
<1>4. type = Type(remote, k + 1) BY DEF Type
<1>5. s.adr = (AdrTill(remote, k) # {}) /\ s.addresses = Addresses(remote, k) BY DEF Undecided
<1> HIDE DEF t
<1>6. CASE type = "ADR"
  <2>1. /\ t.result = "none" /\ t.sentEOB = 0 /\ t.read = k + 1
        /\ t.adr = TRUE /\ t.addresses = frame.addresses
    BY <1>1, <1>2, <1>6 DEF Client!Receive, Sessions
  <2>2. AdrTill(remote, k + 1) # {} /\ Addresses(remote, k + 1) = frame.addresses
    BY <1>4, <1>6, AdrNext
  <2>3. t.adr = (AdrTill(remote, k + 1) # {}) BY <2>1, <2>2
  <2>4. Undecided(t, remote, k + 1) BY <2>1, <2>2, <2>3 DEF Undecided
  <2> QED BY <1>2, <1>3, <1>4, <1>6, <2>4 DEF Deciding, t
<1>7. CASE type \notin Deciding \cup {"ADR"}
  <2>1. /\ t.result = "none" /\ t.sentEOB = 0 /\ t.read = k + 1
        /\ t.adr = s.adr /\ t.addresses = s.addresses
    <3>1. CASE type = "NUL" BY <1>1, <1>2, <3>1 DEF Client!Receive, Sessions
    <3>2. CASE type # "NUL" BY <1>1, <1>2, <1>7, <3>2 DEF Client!Receive, Sessions, Deciding
    <3> QED BY <3>1, <3>2
  <2>2. Undecided(t, remote, k + 1) BY <1>4, <1>5, <1>7, <2>1, AdrNext DEF Undecided
  <2> QED BY <1>2, <1>3, <1>4, <1>7, <2>2 DEF t
<1>8. CASE type \in Deciding
  <2>1. /\ t.addresses = s.addresses
        /\ t.result = IF type = "OK" \/ (type = "EOB" /\ s.adr) THEN "ok" ELSE "error"
    <3>1. CASE type = "EOB"
      BY <1>1, <1>2, <3>1 DEF Client!Receive, Client!ReceiveEOB, Client!SendEOB, Sessions
    <3>2. CASE type # "EOB" BY <1>1, <1>2, <1>8, <3>2 DEF Client!Receive, Sessions, Deciding
    <3> QED BY <3>1, <3>2
  <2>2. /\ AdrTill(remote, k + 1) = AdrTill(remote, k)
        /\ Addresses(remote, k + 1) = Addresses(remote, k)
    BY <1>4, <1>8, AdrNext DEF Deciding
  <2> QED BY <1>2, <1>3, <1>4, <1>5, <1>8, <2>1, <2>2 DEF t
<1> QED BY <1>6, <1>7, <1>8
LEMMA ReceptionsEquation ==
  ASSUME NEW remote, Len(remote.frames) \in Nat, NEW maxFrames \in Nat
  PROVE  /\ Client!Receptions(remote, maxFrames) \in [Nat -> Receiving(remote, maxFrames)]
         /\ Client!Receptions(remote, maxFrames)[0] = Client!NewSession
         /\ \A n \in Nat : Client!Receptions(remote, maxFrames)[n + 1] =
               Client!ReceiveNext(Client!Receptions(remote, maxFrames)[n], remote, maxFrames)
<1> DEFINE D == Receiving(remote, maxFrames)
           After(s) == Client!ReceiveNext(s, remote, maxFrames)
           F == [n \in Nat |-> [s \in D |-> After(s)]]
           Is(g) == g = [n \in Nat |-> IF n = 0 THEN Client!NewSession ELSE After(g[n - 1])]
           R == Client!Receptions(remote, maxFrames)
<1>1. \A s \in D : After(s) \in D BY ReceptionTyped
<1>2. Client!NewSession \in D
  BY DEF Client!NewSession, Receiving, Sessions
<1>3. R = CHOOSE h : Is(h) BY DEF Client!Receptions
<1> HIDE DEF D, After, R
<1>4. F \in [Nat -> [D -> D]] BY <1>1
<1>5. PICK g : Recursion(g, D, Client!NewSession, F)
  <2> HIDE DEF F
  <2> QED BY <1>2, <1>4, RecursionExists
<1>6. g[0] = Client!NewSession /\ \A n \in Nat : g[n + 1] = After(g[n])
  <2>1. g[0] = Client!NewSession BY <1>5 DEF Recursion
  <2>2. ASSUME NEW n \in Nat PROVE g[n + 1] = After(g[n])
    <3> HIDE DEF F
    <3>1. g[n] \in D BY <1>5 DEF Recursion
    <3>2. g[n + 1] = F[n + 1][g[n]] BY <1>5, Zenon DEF Recursion
    <3>3. n + 1 \in Nat OBVIOUS
    <3> QED BY <3>1, <3>2, <3>3, Zenon DEF F
  <2> QED BY <2>1, <2>2
<1>7. Is(g)
  <2>1. ASSUME NEW n \in Nat PROVE g[n] = IF n = 0 THEN Client!NewSession ELSE After(g[n - 1])
    <3>1. CASE n = 0 BY <1>6, <3>1
    <3>2. CASE n # 0
      <4>1. n - 1 \in Nat /\ (n - 1) + 1 = n BY <3>2
      <4>2. g[(n - 1) + 1] = After(g[n - 1]) BY <1>6, <4>1, Zenon
      <4> QED BY <3>2, <4>1, <4>2
    <3> QED BY <3>1, <3>2
  <2>2. DOMAIN g = Nat /\ g = [n \in DOMAIN g |-> g[n]] BY <1>5 DEF Recursion
  <2> QED BY <2>1, <2>2
<1>8. Is(R)
  <2> HIDE DEF Is
  <2> QED BY <1>3, <1>7
<1>9. R[0] = Client!NewSession /\ \A n \in Nat : R[n + 1] = After(R[n]) BY <1>8
<1> DEFINE T == {n \in Nat : R[n] \in D}
<1>10. 0 \in T BY <1>2, <1>9
<1>11. ASSUME NEW n \in Nat, n \in T PROVE n + 1 \in T
  <2>1. R[n] \in D BY <1>11
  <2>2. After(R[n]) \in D BY <1>1, <2>1, Zenon
  <2>3. R[n + 1] = After(R[n]) BY <1>9, Zenon
  <2>4. R[n + 1] \in D BY <2>2, <2>3, Zenon
  <2> QED BY <2>4
<1>12. Nat \subseteq T
  <2> HIDE DEF T
  <2> QED BY <1>10, <1>11, NaturalsInSet
<1>13. DOMAIN R = Nat /\ R = [n \in DOMAIN R |-> R[n]] BY <1>8
<1>14. \A n \in Nat : R[n] \in D BY <1>12
<1>15. R \in [Nat -> D] BY <1>13, <1>14
<1> QED BY <1>9, <1>15 DEF D, After, R

(* Once decided, always decided. *)
LEMMA DecidedStays ==
  ASSUME NEW remote, Len(remote.frames) \in Nat, NEW maxFrames \in Nat, NEW k \in 0..maxFrames + 1,
         Client!Receptions(remote, maxFrames)[k].result # "none"
  PROVE  Client!ReceiveRemoteInfo(remote, maxFrames) = Client!Receptions(remote, maxFrames)[k]
<1> DEFINE R == Client!Receptions(remote, maxFrames)
           T == {n \in Nat : n >= k => R[n] = R[k]}
<1>1. R \in [Nat -> Receiving(remote, maxFrames)] BY ReceptionsEquation
<1>2. \A n \in Nat : R[n + 1] = Client!ReceiveNext(R[n], remote, maxFrames)
  BY ReceptionsEquation
<1>3. 0 \in T OBVIOUS
<1>4. R[k].result # "none" OBVIOUS
<1>5. R[maxFrames + 1] = Client!ReceiveRemoteInfo(remote, maxFrames)
  BY DEF Client!ReceiveRemoteInfo
<1> HIDE DEF R
<1>6. ASSUME NEW n \in Nat, n \in T PROVE n + 1 \in T
  <2>1. CASE n >= k
    <3>1. R[n] = R[k] /\ R[n] \in Receiving(remote, maxFrames) BY <1>1, <1>6, <2>1
    <3>2. Client!ReceiveNext(R[n], remote, maxFrames) = R[n] BY <1>4, <3>1, ReceptionTyped
    <3> QED BY <1>2, <3>1, <3>2
  <2>2. CASE n < k
    <3>1. n + 1 >= k => n + 1 = k BY <2>2
    <3> QED BY <3>1
  <2> QED BY <2>1, <2>2
<1>7. Nat \subseteq T
  <2> HIDE DEF T
  <2> QED BY <1>3, <1>6, NaturalsInSet
<1>8. maxFrames + 1 \in Nat /\ maxFrames + 1 >= k OBVIOUS
<1>9. R[maxFrames + 1] = R[k] BY <1>7, <1>8
<1> QED BY <1>5, <1>9 DEF R

LEMMA StillUndecided ==
  ASSUME NEW remote, Len(remote.frames) \in Nat, NEW maxFrames \in Nat,
         NEW K \in Nat, K <= maxFrames, K <= Len(remote.frames),
         \A i \in 1..K : Type(remote, i) \notin Deciding
  PROVE  Undecided(Client!Receptions(remote, maxFrames)[K], remote, K)
<1> DEFINE R == Client!Receptions(remote, maxFrames)
           T == {n \in Nat : n <= K => Undecided(R[n], remote, n)}
<1>1. R \in [Nat -> Receiving(remote, maxFrames)] BY ReceptionsEquation
<1>2. \A n \in Nat : R[n + 1] = Client!ReceiveNext(R[n], remote, maxFrames)
  BY ReceptionsEquation
<1>3. 0 \in T
  <2>1. R[0] = Client!NewSession BY ReceptionsEquation
  <2>2. AdrTill(remote, 0) = {} BY DEF AdrTill
  <2> HIDE DEF R
  <2>3. /\ R[0].result = "none" /\ R[0].sentEOB = 0 /\ R[0].read = 0
        /\ R[0].adr = FALSE /\ R[0].addresses = {}
    BY <2>1 DEF Client!NewSession
  <2>4. (AdrTill(remote, 0) # {}) = FALSE /\ Addresses(remote, 0) = {} BY <2>2 DEF Addresses
  <2>5. Undecided(R[0], remote, 0) BY <2>3, <2>4, Zenon DEF Undecided
  <2> QED BY <2>5
<1> HIDE DEF R
<1>4. ASSUME NEW n \in Nat, n \in T PROVE n + 1 \in T
  <2>1. SUFFICES ASSUME n < K PROVE Undecided(R[n + 1], remote, n + 1) OBVIOUS
  <2>2. Undecided(R[n], remote, n) BY <1>4, <2>1
  <2>3. R[n] \in Sessions(remote) BY <1>1 DEF Receiving
  <2>4. n < maxFrames /\ n < Len(remote.frames) /\ Type(remote, n + 1) \notin Deciding
    <3>1. n < maxFrames /\ n < Len(remote.frames) /\ n + 1 \in 1..K BY <2>1
    <3> QED BY <3>1
  <2>5. Undecided(Client!ReceiveNext(R[n], remote, maxFrames), remote, n + 1)
    BY <2>2, <2>3, <2>4, UndecidedNext
  <2> QED BY <1>2, <2>5
<1>5. Nat \subseteq T
  <2> HIDE DEF T
  <2> QED BY <1>3, <1>4, NaturalsInSet
<1>6. Undecided(R[K], remote, K) BY <1>5
<1> QED BY <1>6 DEF R

(* What decides the session, and whether it succeeds. *)
LEMMA DecidedByFrame ==
  ASSUME NEW remote, Len(remote.frames) \in Nat, NEW maxFrames \in Nat,
         NEW m \in 1..Len(remote.frames), m <= maxFrames, Type(remote, m) \in Deciding,
         \A i \in 1..(m - 1) : Type(remote, i) \notin Deciding
  PROVE  LET s == Client!ReceiveRemoteInfo(remote, maxFrames) IN
         /\ s \in Sessions(remote) /\ s.addresses = Addresses(remote, m)
         /\ s.result = IF \/ Type(remote, m) = "OK"
                          \/ Type(remote, m) = "EOB" /\ AdrTill(remote, m) # {}
                       THEN "ok" ELSE "error"
<1> DEFINE R == Client!Receptions(remote, maxFrames)
           s == Client!ReceiveRemoteInfo(remote, maxFrames)
<1>1. PICK k \in Nat : k = m - 1 /\ k + 1 = m
  <2>1. m - 1 \in Nat /\ (m - 1) + 1 = m OBVIOUS
  <2> QED BY <2>1
<1>2. k < maxFrames /\ k < Len(remote.frames) /\ k <= maxFrames /\ k <= Len(remote.frames)
      /\ \A i \in 1..k : Type(remote, i) \notin Deciding
  BY <1>1
<1>3. Undecided(R[k], remote, k) BY <1>2, StillUndecided
<1>4. R \in [Nat -> Receiving(remote, maxFrames)] BY ReceptionsEquation
<1>5. R[k + 1] = Client!ReceiveNext(R[k], remote, maxFrames) BY ReceptionsEquation
<1> HIDE DEF R
<1>6. R[k] \in Sessions(remote) BY <1>4 DEF Receiving
<1>7. /\ R[k + 1] \in Sessions(remote)
      /\ R[k + 1].addresses = Addresses(remote, k + 1)
      /\ R[k + 1].result = IF \/ Type(remote, k + 1) = "OK"
                              \/ Type(remote, k + 1) = "EOB" /\ AdrTill(remote, k + 1) # {}
                           THEN "ok" ELSE "error"
  BY <1>1, <1>2, <1>3, <1>5, <1>6, UndecidedNext
<1>8. R[m].result # "none" BY <1>1, <1>7
<1>9. m \in 0..maxFrames + 1 OBVIOUS
<1>10. s = R[m] BY <1>8, <1>9, DecidedStays DEF R
<1> HIDE DEF s
<1> QED BY <1>1, <1>7, <1>10 DEF s

LEMMA DecidedBySilence ==
  ASSUME NEW remote, Len(remote.frames) \in Nat, NEW maxFrames \in Nat,
         NEW h \in Nat, h <= maxFrames, h <= Len(remote.frames),
         h = maxFrames \/ h = Len(remote.frames),
         \A i \in 1..h : Type(remote, i) \notin Deciding
  PROVE  LET s == Client!ReceiveRemoteInfo(remote, maxFrames) IN
         /\ s \in Sessions(remote) /\ s.addresses = Addresses(remote, h)
         /\ s.result = IF (h = maxFrames \/ remote.closes) /\ AdrTill(remote, h) # {}
                       THEN "ok" ELSE "error"
<1> DEFINE R == Client!Receptions(remote, maxFrames)
           s == Client!ReceiveRemoteInfo(remote, maxFrames)
           r == IF (h = maxFrames \/ remote.closes) /\ AdrTill(remote, h) # {} THEN "ok" ELSE "error"
<1>1. Undecided(R[h], remote, h) BY StillUndecided
<1>2. R \in [Nat -> Receiving(remote, maxFrames)] BY ReceptionsEquation
<1>3. R[h + 1] = Client!ReceiveNext(R[h], remote, maxFrames) BY ReceptionsEquation
<1> HIDE DEF R
<1>4. R[h] \in Receiving(remote, maxFrames) /\ R[h] \in Sessions(remote) BY <1>2 DEF Receiving
<1>5. R[h + 1] = [R[h] EXCEPT !.result = r]
  <2>1. R[h].result = "none" /\ R[h].read = h /\ R[h].adr = (AdrTill(remote, h) # {})
    BY <1>1 DEF Undecided
  <2>2. CASE h = maxFrames
    <3>1. R[h + 1] = [R[h] EXCEPT !.result = IF R[h].adr THEN "ok" ELSE "error"]
      BY <1>3, <2>1, <2>2 DEF Client!ReceiveNext
    <3>2. (IF R[h].adr THEN "ok" ELSE "error") = r BY <2>1, <2>2
    <3> HIDE DEF r
    <3> QED BY <3>1, <3>2
  <2>3. CASE h # maxFrames
    <3>1. h < maxFrames /\ h = Len(remote.frames) BY <2>3
    <3>2. R[h + 1] = [R[h] EXCEPT !.result = IF remote.closes /\ R[h].adr THEN "ok" ELSE "error"]
      BY <1>3, <2>1, <2>3, <3>1 DEF Client!ReceiveNext
    <3>3. (IF remote.closes /\ R[h].adr THEN "ok" ELSE "error") = r BY <2>1, <2>3
    <3> HIDE DEF r
    <3> QED BY <3>2, <3>3
  <2> QED BY <2>2, <2>3
<1>6. r \in {"ok", "error"} OBVIOUS
<1> HIDE DEF r
<1>7. R[h + 1] \in Sessions(remote) /\ R[h + 1].result = r
      /\ R[h + 1].addresses = R[h].addresses
  BY <1>4, <1>5, <1>6 DEF Sessions
<1>8. R[h + 1].result # "none" /\ h + 1 \in 0..maxFrames + 1 BY <1>6, <1>7
<1>9. s = R[h + 1] BY <1>8, DecidedStays DEF R
<1>10. R[h].addresses = Addresses(remote, h) BY <1>1 DEF Undecided
<1> HIDE DEF s
<1> QED BY <1>7, <1>9, <1>10 DEF s, r
LEMMA SessionClosed ==
  ASSUME NEW remote, NEW expected, NEW maxFrames, NEW ok \in BOOLEAN, remote.takesInfo \in BOOLEAN,
         Client!ReceiveRemoteInfo(remote, maxFrames) \in Sessions(remote),
         Client!ReceiveRemoteInfo(remote, maxFrames).result = IF ok THEN "ok" ELSE "error"
  PROVE  LET r == Client!BinkpTest(remote, expected, maxFrames) IN
         /\ r.success = (remote.takesInfo /\ ok)
         /\ r.valid = (r.success /\ Client!ValidateAddress(Client!ReceiveRemoteInfo(remote, maxFrames), expected))
         /\ r.sentEOB \in {0, 1} /\ (r.success /\ remote.takesEOB => r.sentEOB = 1)
<1> DEFINE s == Client!ReceiveRemoteInfo(remote, maxFrames)
           r == Client!BinkpTest(remote, expected, maxFrames)
           good == remote.takesInfo /\ ok
           closed == Client!CloseSession(s, remote).sentEOB
           valid == Client!ValidateAddress(s, expected)
<1>1. r = IF ~remote.takesInfo \/ s.result # "ok"
          THEN [success |-> FALSE, valid |-> FALSE, sentEOB |-> s.sentEOB]
          ELSE [success |-> TRUE, valid |-> valid, sentEOB |-> closed]
  BY DEF Client!BinkpTest
<1>2. s \in Sessions(remote) /\ s.result = IF ok THEN "ok" ELSE "error" OBVIOUS
<1> HIDE DEF r, s
<1>3. closed \in {0, 1} /\ (remote.takesEOB => closed = 1)
  BY <1>2 DEF Client!CloseSession, Client!SendEOB, Sessions
<1>4. s.sentEOB \in {0, 1} BY <1>2 DEF Sessions
<1>5. valid \in BOOLEAN BY DEF Client!ValidateAddress
<1> HIDE DEF closed, valid
<1>6. CASE good
  <2>1. r = [success |-> TRUE, valid |-> valid, sentEOB |-> closed] BY <1>1, <1>2, <1>6
  <2>2. r.success = TRUE /\ r.valid = valid /\ r.sentEOB = closed BY <2>1
  <2>3. r.success = (remote.takesInfo /\ ok) BY <1>6, <2>2
  <2>4. r.valid = (r.success /\ valid) BY <1>5, <2>2
  <2> QED BY <1>3, <2>2, <2>3, <2>4 DEF valid, s, r
<1>7. CASE ~good
  <2>1. r = [success |-> FALSE, valid |-> FALSE, sentEOB |-> s.sentEOB] BY <1>1, <1>2, <1>7
  <2>2. r.success = FALSE /\ r.valid = FALSE /\ r.sentEOB = s.sentEOB BY <2>1
  <2> QED BY <1>4, <1>7, <2>2 DEF r
<1> QED BY <1>6, <1>7

LEMMA BinkpUnderstood ==
  ASSUME NEW remote, Len(remote.frames) \in Nat, NEW maxFrames \in Nat, NEW expected,
         remote.takesInfo \in BOOLEAN
  PROVE  Client!BinkpSound(remote, expected, maxFrames,
                           Client!BinkpTest(remote, expected, maxFrames))
<1> DEFINE r == Client!BinkpTest(remote, expected, maxFrames)
           s == Client!ReceiveRemoteInfo(remote, maxFrames)
           h == Client!Min({Len(remote.frames), maxFrames})
           decisive == {i \in 1..h : Type(remote, i) \in Deciding}
           m == Client!Min(decisive)
           e == IF decisive = {} THEN h ELSE m
           adr == AdrTill(remote, e)
           last == IF decisive = {}
                   THEN IF maxFrames <= Len(remote.frames) \/ remote.closes THEN "EOB" ELSE "silence"
                   ELSE Type(remote, m)
           ok == last = "OK" \/ (last = "EOB" /\ adr # {})
<1>1. /\ h \in Nat /\ h <= maxFrames /\ h <= Len(remote.frames)
      /\ h = maxFrames \/ h = Len(remote.frames)
  <2>1. {Len(remote.frames), maxFrames} \in SUBSET Nat /\ {Len(remote.frames), maxFrames} # {}
    OBVIOUS
  <2>2. h \in {Len(remote.frames), maxFrames} /\ \A y \in {Len(remote.frames), maxFrames} : h <= y
    BY <2>1, LeastExists
  <2> HIDE DEF h
  <2> QED BY <2>2
<1> HIDE DEF h
<1>2. (maxFrames <= Len(remote.frames)) <=> (h = maxFrames) BY <1>1
<1>3. /\ s \in Sessions(remote) /\ s.addresses = Addresses(remote, e)
      /\ s.result = IF ok THEN "ok" ELSE "error"
  <2>1. CASE decisive = {}
    <3>1. \A i \in 1..h : Type(remote, i) \notin Deciding BY <2>1
    <3>2. /\ s \in Sessions(remote) /\ s.addresses = Addresses(remote, h)
          /\ s.result = IF (h = maxFrames \/ remote.closes) /\ AdrTill(remote, h) # {}
                        THEN "ok" ELSE "error"
      BY <1>1, <3>1, DecidedBySilence
    <3>3. e = h /\ (ok <=> (h = maxFrames \/ remote.closes) /\ AdrTill(remote, h) # {})
      BY <1>2, <2>1
    <3> HIDE DEF ok, e, s
    <3> QED BY <3>2, <3>3
  <2>2. CASE decisive # {}
    <3>1. m \in decisive /\ \A y \in decisive : m <= y
      <4>1. decisive \in SUBSET Nat OBVIOUS
      <4> HIDE DEF decisive
      <4> QED BY <2>2, <4>1, LeastExists
    <3>2. e = m /\ last = Type(remote, m) BY <2>2
    <3> HIDE DEF m, e, last
    <3>3. m \in 1..h /\ Type(remote, m) \in Deciding BY <3>1
    <3>4. \A i \in 1..(m - 1) : Type(remote, i) \notin Deciding
      <4> SUFFICES ASSUME NEW i \in 1..(m - 1), Type(remote, i) \in Deciding PROVE FALSE
        OBVIOUS
      <4>1. i \in 1..h /\ i < m BY <1>1, <3>3
      <4>2. i \in decisive BY <4>1
      <4> HIDE DEF decisive
      <4> QED BY <3>1, <3>3, <4>1, <4>2
    <3>5. m \in 1..Len(remote.frames) /\ m <= maxFrames BY <1>1, <3>3
    <3>6. /\ s \in Sessions(remote) /\ s.addresses = Addresses(remote, m)
          /\ s.result = IF \/ Type(remote, m) = "OK"
                           \/ Type(remote, m) = "EOB" /\ AdrTill(remote, m) # {}
                        THEN "ok" ELSE "error"
      BY <3>3, <3>4, <3>5, DecidedByFrame
    <3> HIDE DEF s, decisive
    <3> QED BY <3>2, <3>6
  <2> QED BY <2>1, <2>2
<1>4. ok \in BOOLEAN OBVIOUS
<1> HIDE DEF s, r, ok
<1>5. /\ r.success = (remote.takesInfo /\ ok)
      /\ r.valid = (r.success /\ Client!ValidateAddress(s, expected))
      /\ r.sentEOB \in {0, 1} /\ (r.success /\ remote.takesEOB => r.sentEOB = 1)
  BY <1>3, <1>4, SessionClosed DEF s, r
<1> HIDE DEF e
<1> DEFINE until == IF decisive = {} THEN 1..h ELSE 1..m
<1>6. until = 1..e BY DEF e
<1>7. adr = {i \in until : Type(remote, i) = "ADR"} BY <1>6 DEF AdrTill
<1> HIDE DEF adr
<1>8. r.valid = (/\ r.success /\ adr # {}
                 /\ \E a \in remote.frames[Client!Max(adr)].addresses :
                        Client!NormalizeAddress(a) = Client!NormalizeAddress(expected))
  <2>1. CASE adr = {}
    <3>1. s.addresses = {} BY <1>3, <2>1 DEF Addresses, adr
    <3>2. ~Client!ValidateAddress(s, expected) BY <3>1 DEF Client!ValidateAddress
    <3> QED BY <1>5, <2>1, <3>2
  <2>2. CASE adr # {}
    <3>1. s.addresses = remote.frames[Client!Max(adr)].addresses
      BY <1>3, <2>2 DEF Addresses, adr
    <3>2. Client!ValidateAddress(s, expected)
            = \E a \in remote.frames[Client!Max(adr)].addresses :
                 Client!NormalizeAddress(a) = Client!NormalizeAddress(expected)
      BY <3>1 DEF Client!ValidateAddress
    <3> QED BY <1>5, <2>2, <3>2
  <2> QED BY <2>1, <2>2
<1>9. r.success = (remote.takesInfo /\ (last = "OK" \/ (last = "EOB" /\ adr # {})))
  BY <1>5 DEF ok
<1> HIDE DEF r
<1> QED BY <1>5, <1>7, <1>8, <1>9
    DEF Client!BinkpSound, r, Type, Deciding, h
-----------------------------------------------------------------------------
(* The replies of an FTP server. *)
LEMMA ReplyRead ==
  ASSUME NEW reply \in Seq(ReplyLines), Client!EndsOnce(reply), NEW more \in Seq(ReplyLines)
  PROVE  Client!ReadReply(reply \o more) = [code |-> Client!Last(reply).code, rest |-> more]
<1> DEFINE lines == reply \o more
           ends == {i \in DOMAIN lines : Client!EndsReply(lines[i])}
           n == IF ends = {} THEN Len(lines) ELSE Client!Min(ends)
           coded == {i \in 1..n : lines[i].code # ""}
<1>1. PICK m \in Nat : m = Len(reply) OBVIOUS
<1>2. m > 0 /\ Client!EndsReply(reply[m]) /\ \A i \in 1..(m - 1) : ~Client!EndsReply(reply[i])
  BY <1>1 DEF Client!EndsOnce
<1>3. PICK k \in Nat : k = Len(more) OBVIOUS
<1>4. lines \in Seq(ReplyLines) /\ Len(lines) = m + k /\ DOMAIN lines = 1..(m + k)
  BY <1>1, <1>3
<1>5. \A i \in 1..m : lines[i] = reply[i] BY <1>1
<1>6. SubSeq(lines, m + 1, Len(lines)) = more BY <1>1, DropHead
<1> HIDE DEF lines
<1>7. m \in ends /\ ends \in SUBSET Nat BY <1>2, <1>4, <1>5
<1>8. ASSUME NEW i \in ends PROVE m <= i
  <2>1. SUFFICES ASSUME i < m PROVE FALSE BY <1>4
  <2>2. i \in 1..(m - 1) /\ i \in 1..m BY <1>4, <2>1
  <2>3. Client!EndsReply(reply[i]) BY <1>5, <2>2
  <2> QED BY <1>2, <2>2, <2>3
<1>9. n = m
  <2> HIDE DEF ends
  <2>1. Client!Min(ends) = m BY <1>7, <1>8, LeastIs
  <2> QED BY <1>7, <2>1
<1> HIDE DEF n, ends
<1>10. m \in coded /\ coded \in SUBSET Nat /\ \A i \in coded : i <= m
  <2>1. lines[m].code # ""
    <3>1. lines[m] = reply[m] BY <1>2, <1>5
    <3> QED BY <1>2, <3>1 DEF Client!EndsReply
  <2>2. m \in 1..n BY <1>2, <1>9
  <2>3. coded \subseteq 1..m BY <1>9
  <2>4. m \in coded BY <2>1, <2>2
  <2> HIDE DEF coded
  <2> QED BY <2>3, <2>4
<1>11. Client!Max(coded) = m
  <2> HIDE DEF coded
  <2> QED BY <1>10, GreatestIs
<1>12. Client!ReadReply(lines) = [code |-> IF coded = {} THEN "" ELSE lines[Client!Max(coded)].code,
                                  rest |-> SubSeq(lines, n + 1, Len(lines))]
  BY DEF Client!ReadReply, coded, n, ends
<1> HIDE DEF coded
<1>13. lines[m] = reply[m] BY <1>2, <1>5
<1>14. Client!ReadReply(lines) = [code |-> reply[m].code, rest |-> more]
  BY <1>6, <1>9, <1>10, <1>11, <1>12, <1>13
<1> QED BY <1>1, <1>14 DEF lines, Client!Last

LEMMA NoReplyRead == Client!ReadReply(<<>>) = [code |-> "", rest |-> <<>>]
<1>1. SubSeq(<<>>, 0 + 1, 0) = <<>> OBVIOUS
<1>2. Len(<<>>) = 0 /\ DOMAIN <<>> = {} OBVIOUS
<1> DEFINE ends == {i \in DOMAIN <<>> : Client!EndsReply(<<>>[i])}
           n == IF ends = {} THEN Len(<<>>) ELSE Client!Min(ends)
           coded == {i \in 1..n : <<>>[i].code # ""}
<1>3. ends = {} BY <1>2
<1> HIDE DEF ends
<1>4. n = 0 BY <1>2, <1>3
<1> HIDE DEF n
<1>5. coded = {} BY <1>4
<1>6. Client!ReadReply(<<>>) = [code |-> IF coded = {} THEN "" ELSE <<>>[Client!Max(coded)].code,
                                rest |-> SubSeq(<<>>, n + 1, Len(<<>>))]
  BY DEF Client!ReadReply, coded, n, ends
<1> HIDE DEF coded
<1> QED BY <1>1, <1>2, <1>4, <1>5, <1>6

(* Of any lines: the code of a reply is that of one of its lines. *)
LEMMA GreatestExists ==
  ASSUME NEW n \in Nat, NEW S \in SUBSET (1..n), S # {}
  PROVE  Client!Max(S) \in S
<1> DEFINE D == {n - i : i \in S}
<1>1. D \in SUBSET Nat /\ D # {}
  <2>1. \A i \in S : n - i \in Nat OBVIOUS
  <2>2. \A d \in D : d \in Nat BY <2>1
  <2> QED BY <2>2
<1>2. Client!Min(D) \in D /\ \A y \in D : Client!Min(D) <= y
  <2> HIDE DEF D
  <2> QED BY <1>1, LeastExists
<1>3. PICK i \in S : Client!Min(D) = n - i BY <1>2
<1>4. \A j \in S : n - i <= n - j BY <1>2, <1>3
<1>5. S \in SUBSET Nat /\ \A j \in S : j <= i BY <1>4
<1>6. Client!Max(S) = i BY <1>5, GreatestIs
<1> QED BY <1>6

ReadFrom(lines, n, reply) ==
    /\ n \in 0..Len(lines)
    /\ reply.rest \in Seq(ReplyLines) /\ Len(reply.rest) = Len(lines) - n
    /\ \A j \in 1..(Len(lines) - n) : reply.rest[j] = lines[n + j]
    /\ reply.code # "" => \E i \in 1..n : lines[i].code = reply.code

LEMMA AnyReplyRead ==
  ASSUME NEW lines \in Seq(ReplyLines)
  PROVE  \E n : ReadFrom(lines, n, Client!ReadReply(lines))
<1> DEFINE ends == {i \in DOMAIN lines : Client!EndsReply(lines[i])}
           n == IF ends = {} THEN Len(lines) ELSE Client!Min(ends)
           coded == {i \in 1..n : lines[i].code # ""}
           reply == Client!ReadReply(lines)
<1>1. PICK N \in Nat : N = Len(lines) OBVIOUS
<1>2. n \in 0..N
  <2>1. ends \in SUBSET (1..N) /\ ends \in SUBSET Nat BY <1>1
  <2> HIDE DEF ends
  <2>2. CASE ends = {} BY <1>1, <2>2
  <2>3. CASE ends # {}
    <3>1. Client!Min(ends) \in ends BY <2>1, <2>3, LeastExists
    <3>2. Client!Min(ends) \in 1..N BY <2>1, <3>1
    <3>3. n = Client!Min(ends) BY <2>3
    <3> HIDE DEF n
    <3> QED BY <3>2, <3>3
  <2> QED BY <2>2, <2>3
<1>3. reply = [code |-> IF coded = {} THEN "" ELSE lines[Client!Max(coded)].code,
               rest |-> SubSeq(lines, n + 1, Len(lines))]
  BY DEF Client!ReadReply
<1> HIDE DEF n, reply
<1>4. reply.code # "" => \E i \in 1..n : lines[i].code = reply.code
  <2>1. SUFFICES ASSUME coded # {} PROVE \E i \in 1..n : lines[i].code = reply.code BY <1>3
  <2>2. coded \in SUBSET (1..n) OBVIOUS
  <2>3. n \in Nat BY <1>2
  <2> HIDE DEF coded
  <2>4. Client!Max(coded) \in coded BY <2>1, <2>2, <2>3, GreatestExists
  <2>5. reply.code = lines[Client!Max(coded)].code BY <1>3, <2>1
  <2> QED BY <2>2, <2>4, <2>5
<1> HIDE DEF coded
<1>5. reply.rest = SubSeq(lines, n + 1, N) BY <1>1, <1>3
<1>6. /\ reply.rest \in Seq(ReplyLines) /\ Len(reply.rest) = N - n
      /\ \A j \in 1..(N - n) : reply.rest[j] = lines[n + j]
  BY <1>1, <1>2, <1>5
<1>7. ReadFrom(lines, n, reply) BY <1>1, <1>2, <1>4, <1>6 DEF ReadFrom
<1> QED BY <1>7 DEF reply

LEMMA CodesGiven ==
  ASSUME NEW lines \in Seq(ReplyLines)
  PROVE  LET r == Client!FtpTest(lines) IN
         /\ r.success => \E i \in DOMAIN lines : lines[i].code = "220"
         /\ r.login => \E i, j \in DOMAIN lines :
                          i < j /\ lines[i].code = "220" /\ lines[j].code = "230"
<1> DEFINE banner == Client!ReadReply(lines)
           user == Client!ReadReply(banner.rest)
           pass == Client!ReadReply(user.rest)
           r == Client!FtpTest(lines)
<1>1. PICK n : ReadFrom(lines, n, banner) BY AnyReplyRead
<1>2. banner.rest \in Seq(ReplyLines) BY <1>1 DEF ReadFrom
<1>3. PICK m : ReadFrom(banner.rest, m, user) BY <1>2, AnyReplyRead
<1>4. user.rest \in Seq(ReplyLines) BY <1>3 DEF ReadFrom
<1>5. PICK k : ReadFrom(user.rest, k, pass) BY <1>4, AnyReplyRead
<1>6. /\ r.success => banner.code = "220"
      /\ r.login => banner.code = "220" /\ (user.code = "230" \/ pass.code = "230")
  BY DEF Client!FtpTest, Client!TryAnonymousLogin
<1> HIDE DEF banner, user, pass, r
<1>7. PICK N \in Nat : N = Len(lines) OBVIOUS
<1>8. n \in 0..N /\ m \in 0..(N - n) /\ k \in 0..((N - n) - m)
  BY <1>1, <1>3, <1>5, <1>7 DEF ReadFrom
<1>9. banner.code = "220" => \E i \in 1..n : lines[i].code = "220"
  BY <1>1 DEF ReadFrom
<1>10. user.code = "230" => \E j \in 1..N : n < j /\ lines[j].code = "230"
  <2>1. SUFFICES ASSUME user.code = "230" PROVE \E j \in 1..N : n < j /\ lines[j].code = "230"
    OBVIOUS
  <2>2. PICK i \in 1..m : banner.rest[i].code = "230" BY <1>3, <2>1 DEF ReadFrom
  <2>3. i \in 1..(N - n) /\ n + i \in 1..N /\ n < n + i BY <1>8
  <2>4. banner.rest[i] = lines[n + i] BY <1>1, <1>7, <2>3 DEF ReadFrom
  <2> QED BY <2>2, <2>3, <2>4
<1>11. pass.code = "230" => \E j \in 1..N : n < j /\ lines[j].code = "230"
  <2>1. SUFFICES ASSUME pass.code = "230" PROVE \E j \in 1..N : n < j /\ lines[j].code = "230"
    OBVIOUS
  <2>2. PICK i \in 1..k : user.rest[i].code = "230" BY <1>5, <2>1 DEF ReadFrom
  <2>3. /\ i \in 1..((N - n) - m) /\ m + i \in 1..(N - n) /\ n + (m + i) \in 1..N
        /\ n < n + (m + i)
    BY <1>8
  <2>4. Len(banner.rest) = N - n BY <1>1, <1>7 DEF ReadFrom
  <2>5. user.rest[i] = banner.rest[m + i] BY <1>3, <2>3, <2>4 DEF ReadFrom
  <2>6. banner.rest[m + i] = lines[n + (m + i)] BY <1>1, <1>7, <2>3 DEF ReadFrom
  <2> QED BY <2>2, <2>3, <2>5, <2>6
<1>12. DOMAIN lines = 1..N BY <1>7
<1>13. r.success => \E i \in DOMAIN lines : lines[i].code = "220" BY <1>6, <1>8, <1>9, <1>12
<1>14. r.login => \E i, j \in DOMAIN lines :
                     i < j /\ lines[i].code = "220" /\ lines[j].code = "230"
  <2>1. SUFFICES ASSUME r.login
                 PROVE  \E i, j \in DOMAIN lines :
                           i < j /\ lines[i].code = "220" /\ lines[j].code = "230"
    OBVIOUS
  <2>2. PICK i \in 1..n : lines[i].code = "220" BY <1>6, <1>9, <2>1
  <2>3. PICK j \in 1..N : n < j /\ lines[j].code = "230" BY <1>6, <1>10, <1>11, <2>1
  <2> QED BY <1>8, <1>12, <2>2, <2>3
<1> QED BY <1>13, <1>14 DEF r

(* What is left of a stream of sequences after the first n of them. *)
Left(t, S, seqs) ==
    /\ t \in [Nat -> Seq(S)] /\ t[0] = Client!FlattenSeq(seqs)
    /\ \A n \in Nat : IF n < Len(seqs) THEN t[n] = seqs[n + 1] \o t[n + 1] ELSE t[n] = <<>>

Continues(S, u, w) == \E x \in Seq(S) : w = u \o x

LEMMA ContinuesFurther ==
  ASSUME NEW S, NEW u \in Seq(S), NEW w \in Seq(S), NEW x \in Seq(S), Continues(S, u, w)
  PROVE  Continues(S, u, w \o x)
<1>1. PICK y \in Seq(S) : w = u \o y BY DEF Continues
<1>2. y \o x \in Seq(S) OBVIOUS
<1>3. (u \o y) \o x = u \o (y \o x) OBVIOUS
<1>4. w \o x = u \o (y \o x) BY <1>1, <1>3
<1> QED BY <1>2, <1>4, Zenon DEF Continues

LEMMA FlattenSeqLeft ==
  ASSUME NEW S, NEW seqs \in Seq(Seq(S))
  PROVE  \E t : Left(t, S, seqs)
<1>1. PICK f : Flattening(f, S, seqs) /\ Client!FlattenSeq(seqs) = f[Len(seqs)]
  BY FlattenSeqEquation
<1>2. PICK N \in Nat : N = Len(seqs) OBVIOUS
<1>3. f \in [0..N -> Seq(S)] /\ f[0] = <<>> BY <1>1, <1>2 DEF Flattening
<1>4. \A n \in Nat : n < N => f[n + 1] = f[n] \o seqs[n + 1] BY <1>1, <1>2 DEF Flattening
<1>5. \A i \in 1..N : seqs[i] \in Seq(S) BY <1>2
<1>6. ASSUME NEW k \in 0..N PROVE Continues(S, f[k], f[N])
  <2> DEFINE U == {n \in Nat : k <= n /\ n <= N => Continues(S, f[k], f[n])}
  <2>1. Continues(S, f[k], f[k])
    <3>1. <<>> \in Seq(S) /\ f[k] \in Seq(S) BY <1>3
    <3>2. f[k] = f[k] \o <<>> BY <3>1
    <3> QED BY <3>1, <3>2, Zenon DEF Continues
  <2>2. 0 \in U
    <3>1. k <= 0 => k = 0 OBVIOUS
    <3> QED BY <2>1, <3>1
  <2>3. ASSUME NEW n \in Nat, n \in U PROVE n + 1 \in U
    <3>1. SUFFICES ASSUME k <= n + 1, n + 1 <= N PROVE Continues(S, f[k], f[n + 1])
      OBVIOUS
    <3>2. CASE k = n + 1 BY <2>1, <3>2
    <3>3. CASE k # n + 1
      <4>1. k <= n /\ n <= N /\ n < N /\ n \in 0..N /\ n + 1 \in 1..N BY <3>1, <3>3
      <4>2. Continues(S, f[k], f[n]) BY <2>3, <4>1
      <4>3. f[k] \in Seq(S) /\ f[n] \in Seq(S) /\ seqs[n + 1] \in Seq(S) BY <1>3, <1>5, <4>1
      <4>4. Continues(S, f[k], f[n] \o seqs[n + 1]) BY <4>2, <4>3, ContinuesFurther
      <4> QED BY <1>4, <4>1, <4>4
    <3> QED BY <3>2, <3>3
  <2>4. Nat \subseteq U
    <3> HIDE DEF U
    <3> QED BY <2>2, <2>3, NaturalsInSet
  <2>5. k <= N BY <1>2
  <2> QED BY <2>4, <2>5
<1> DEFINE t == [n \in Nat |-> IF n < N THEN CHOOSE x \in Seq(S) : f[N] = f[n] \o x ELSE <<>>]
<1>7. ASSUME NEW n \in Nat, n < N PROVE t[n] \in Seq(S) /\ f[N] = f[n] \o t[n]
  <2>1. n \in 0..N BY <1>7
  <2>2. t[n] = CHOOSE x \in Seq(S) : f[N] = f[n] \o x BY <1>7
  <2>3. \E x \in Seq(S) : f[N] = f[n] \o x BY <1>6, <2>1, Zenon DEF Continues
  <2> HIDE DEF t
  <2> QED BY <2>2, <2>3, Zenon
<1>8. \A n \in Nat : ~(n < N) => t[n] = <<>> OBVIOUS
<1>9. t \in [Nat -> Seq(S)]
  <2>1. <<>> \in Seq(S) OBVIOUS
  <2>2. \A n \in Nat : t[n] \in Seq(S) BY <1>7, <1>8, <2>1
  <2>3. DOMAIN t = Nat /\ t = [n \in DOMAIN t |-> t[n]] OBVIOUS
  <2> HIDE DEF t
  <2> QED BY <2>2, <2>3
<1> HIDE DEF t
<1>10. ASSUME NEW n \in 0..N PROVE f[N] = f[n] \o t[n]
  <2>0. n \in Nat /\ (n < N \/ n = N) OBVIOUS
  <2>1. CASE n < N BY <1>7, <2>0, <2>1, Zenon
  <2>2. CASE n = N
    <3>1. t[n] = <<>> BY <1>8, <2>0, <2>2
    <3>2. f[n] \in Seq(S) BY <1>3
    <3>3. f[n] \o <<>> = f[n] BY <3>2
    <3> QED BY <2>2, <3>1, <3>3
  <2> QED BY <2>0, <2>1, <2>2, Zenon
<1>11. t[0] = Client!FlattenSeq(seqs)
  <2>0. 0 \in 0..N OBVIOUS
  <2>1. t[0] \in Seq(S) /\ f[N] = <<>> \o t[0] 
    <3>1. f[N] = f[0] \o t[0] BY <1>10, <2>0, Zenon
    <3>2. t[0] \in Seq(S) BY <1>9
    <3> QED BY <1>3, <3>1, <3>2
  <2>2. <<>> \o t[0] = t[0] BY <2>1
  <2> QED BY <1>1, <1>2, <2>1, <2>2
<1>12. ASSUME NEW n \in Nat, n < N PROVE t[n] = seqs[n + 1] \o t[n + 1]
  <2>1. n \in 0..N /\ n + 1 \in 0..N /\ n + 1 \in 1..N /\ n + 1 \in Nat BY <1>12
  <2>2. /\ f[n] \in Seq(S) /\ t[n] \in Seq(S) /\ seqs[n + 1] \in Seq(S) /\ t[n + 1] \in Seq(S)
    BY <1>3, <1>5, <1>9, <2>1
  <2> DEFINE rest == seqs[n + 1] \o t[n + 1]
  <2>3. rest \in Seq(S) BY <2>2
  <2>4. f[N] = f[n] \o t[n] BY <1>10, <2>1, Zenon
  <2>5. f[N] = f[n] \o rest
    <3>1. f[N] = f[n + 1] \o t[n + 1] BY <1>10, <2>1, Zenon
    <3>2. f[n + 1] = f[n] \o seqs[n + 1] BY <1>4, <1>12
    <3>3. (f[n] \o seqs[n + 1]) \o t[n + 1] = f[n] \o (seqs[n + 1] \o t[n + 1])
      <4>1. PICK u \in Seq(S), v \in Seq(S), w \in Seq(S) :
               u = f[n] /\ v = seqs[n + 1] /\ w = t[n + 1]
        BY <2>2, Zenon
      <4>2. (u \o v) \o w = u \o (v \o w) OBVIOUS
      <4> QED BY <4>1, <4>2, Zenon
    <3> QED BY <3>1, <3>2, <3>3
  <2> HIDE DEF rest
  <2>6. SubSeq(f[N], Len(f[n]) + 1, Len(f[N])) = t[n] BY <2>2, <2>4, DropHead
  <2>7. SubSeq(f[N], Len(f[n]) + 1, Len(f[N])) = rest BY <2>2, <2>3, <2>5, DropHead
  <2> QED BY <2>6, <2>7 DEF rest
<1> QED BY <1>2, <1>8, <1>9, <1>11, <1>12 DEF Left

LEMMA RepliesJudged ==
  ASSUME NEW replies \in Seq(Seq(ReplyLines))
  PROVE  Client!JudgedByItsReply(replies, Client!FtpTest(Client!FlattenSeq(replies)))
<1> DEFINE Code(i) == IF i <= Len(replies) THEN Client!Last(replies[i]).code ELSE ""
<1>1. PICK t : Left(t, ReplyLines, replies) BY FlattenSeqLeft
<1>2. t \in [Nat -> Seq(ReplyLines)] /\ t[0] = Client!FlattenSeq(replies) BY <1>1 DEF Left
<1>3. PICK N \in Nat : N = Len(replies) OBVIOUS
<1> DEFINE Once == \A i \in 1..Len(replies) : Client!EndsOnce(replies[i])
<1>4. ASSUME Once, NEW n \in Nat PROVE Client!ReadReply(t[n]) = [code |-> Code(n + 1), rest |-> t[n + 1]]
  <2>1. CASE n < N
    <3>1. n + 1 \in 1..N /\ n + 1 \in Nat /\ n + 1 <= N BY <2>1
    <3>2. replies[n + 1] \in Seq(ReplyLines) /\ t[n + 1] \in Seq(ReplyLines)
          /\ Client!EndsOnce(replies[n + 1])
      BY <1>2, <1>3, <1>4, <3>1
    <3>3. t[n] = replies[n + 1] \o t[n + 1] BY <1>1, <1>3, <2>1 DEF Left
    <3>4. Code(n + 1) = Client!Last(replies[n + 1]).code BY <1>3, <3>1
    <3> HIDE DEF Code
    <3> QED BY <3>2, <3>3, <3>4, ReplyRead
  <2>2. CASE ~(n < N)
    <3>1. t[n] = <<>> /\ t[n + 1] = <<>>
      <4>1. n + 1 \in Nat /\ ~(n + 1 < N) BY <2>2
      <4> QED BY <1>1, <1>3, <2>2, <4>1 DEF Left
    <3>2. Code(n + 1) = ""
      <4>1. ~(n + 1 <= N) BY <2>2
      <4> QED BY <1>3, <4>1
    <3> HIDE DEF Code
    <3> QED BY <3>1, <3>2, NoReplyRead
  <2> QED BY <2>1, <2>2
<1>5. ASSUME Once
      PROVE  /\ Client!ReadReply(t[0]) = [code |-> Code(1), rest |-> t[1]]
             /\ Client!ReadReply(t[1]) = [code |-> Code(2), rest |-> t[2]]
             /\ Client!ReadReply(t[2]) = [code |-> Code(3), rest |-> t[3]]
  <2>1. 0 + 1 = 1 /\ 1 + 1 = 2 /\ 2 + 1 = 3 OBVIOUS
  <2>2. 0 \in Nat /\ 1 \in Nat /\ 2 \in Nat OBVIOUS
  <2> HIDE DEF Code, Once
  <2>3. Client!ReadReply(t[0]) = [code |-> Code(0 + 1), rest |-> t[0 + 1]] BY <1>4, <1>5, <2>2
  <2>4. Client!ReadReply(t[1]) = [code |-> Code(1 + 1), rest |-> t[1 + 1]] BY <1>4, <1>5, <2>2
  <2>5. Client!ReadReply(t[2]) = [code |-> Code(2 + 1), rest |-> t[2 + 1]] BY <1>4, <1>5, <2>2
  <2> QED BY <2>1, <2>3, <2>4, <2>5
<1> DEFINE r == Client!FtpTest(t[0])
<1> HIDE DEF Code, Once
<1>6. ASSUME Once
      PROVE  /\ r.success = (Code(1) = "220")
             /\ r.tested = (r.success /\ Code(2) # "")
             /\ r.login = (r.success /\ (Code(2) = "230" \/ (Code(2) = "331" /\ Code(3) = "230")))
  <2>1. /\ Client!ReadReply(t[0]).code = Code(1) /\ Client!ReadReply(t[0]).rest = t[1]
        /\ Client!ReadReply(t[1]).code = Code(2) /\ Client!ReadReply(t[1]).rest = t[2]
        /\ Client!ReadReply(t[2]).code = Code(3)
    BY <1>5, <1>6
  <2> DEFINE tested == Code(2) # ""
             login == Code(2) = "230" \/ (Code(2) = "331" /\ Code(3) = "230")
             success == Code(1) = "220"
  <2>2. Client!TryAnonymousLogin(t[1]) = [tested |-> tested, login |-> login]
    BY <2>1, Zenon DEF Client!TryAnonymousLogin
  <2>3. r = [success |-> success, tested |-> success /\ Client!TryAnonymousLogin(t[1]).tested,
             login |-> success /\ Client!TryAnonymousLogin(t[1]).login]
    BY <2>1, Zenon DEF Client!FtpTest
  <2>4. tested \in BOOLEAN /\ login \in BOOLEAN /\ success \in BOOLEAN OBVIOUS
  <2> HIDE DEF tested, login, success, r
  <2>5. Client!TryAnonymousLogin(t[1]).tested = tested /\ Client!TryAnonymousLogin(t[1]).login = login
    BY <2>2
  <2>6. r.success = success /\ r.tested = (success /\ tested) /\ r.login = (success /\ login)
    BY <2>3, <2>5
  <2> QED BY <2>6 DEF tested, login, success
<1>7. t[0] \in Seq(ReplyLines) BY <1>2
<1>8. /\ r.success => \E i \in DOMAIN t[0] : t[0][i].code = "220"
      /\ r.login => \E i, j \in DOMAIN t[0] :
                       i < j /\ t[0][i].code = "220" /\ t[0][j].code = "230"
  BY <1>7, CodesGiven
<1>9. (r.tested => r.success) /\ (r.login => r.tested)
  <2> DEFINE anonymous == Client!TryAnonymousLogin(Client!ReadReply(t[0]).rest)
             success == Client!ReadReply(t[0]).code = "220"
  <2>1. anonymous.login => anonymous.tested BY DEF Client!TryAnonymousLogin
  <2>2. /\ r.success = success /\ r.tested = (success /\ anonymous.tested)
        /\ r.login = (success /\ anonymous.login)
    BY DEF Client!FtpTest
  <2> HIDE DEF anonymous, success, r
  <2> QED BY <2>1, <2>2
<1> HIDE DEF r
<1>10. Client!JudgedByItsReply(replies, r)
  <2> DEFINE lines == Client!FlattenSeq(replies)
             Says(i, code) == i \in DOMAIN lines /\ lines[i].code = code
  <2>1. r.success => \E i \in DOMAIN lines : Says(i, "220") BY <1>2, <1>8
  <2>2. r.login => \E i, j \in DOMAIN lines : i < j /\ Says(i, "220") /\ Says(j, "230")
    BY <1>2, <1>8
  <2> QED BY <1>6, <1>9, <2>1, <2>2, Zenon DEF Client!JudgedByItsReply, Code, Once
<1> QED BY <1>2, <1>10 DEF r
-----------------------------------------------------------------------------
(* EMSI, and the VModem tester. *)
Results ==
    [success : BOOLEAN, conformant : BOOLEAN, software : BOOLEAN, identity : BOOLEAN,
     valid : BOOLEAN, called : BOOLEAN, left : {0, 1},
     variant : {"", "down", "vmp", "emsi-raw", "emsi-telnet", "binkp", "banner", "telnet-login",
                "unknown"},
     note : {"", "read, then failed", "guessed", "failed", "none sent"},
     outcome : {"", "no-reply"} \cup Outcomes]

(* Nothing is claimed of who the peer is but what it announced. *)
Honest(res, peer) == (res.identity => peer.emsi.info = "dat") /\ (res.valid => res.identity)

(* What EMSI says of a peer leaves alone. *)
SameOutcome(res, t) ==
    /\ t.success = res.success /\ t.conformant = res.conformant /\ t.called = res.called
    /\ t.left = res.left /\ t.variant = res.variant /\ t.outcome = res.outcome

LEMMA EmsiTold ==
  ASSUME NEW res \in Results, NEW emsi, Handshake(emsi), NEW expected
  PROVE  LET t == Client!EmsiOver(res, emsi, expected) IN
         /\ t \in Results /\ SameOutcome(res, t)
         /\ t.identity = (emsi.info = "dat")
         /\ t.valid = (emsi.info = "dat" /\ expected \in emsi.addresses)
<1> DEFINE software == res.software \/ (emsi.info # "none" /\ emsi.mailer)
           identity == emsi.info = "dat"
           valid == emsi.info = "dat" /\ expected \in emsi.addresses
           note == CASE emsi.info = "dat" -> IF emsi.fails THEN "read, then failed" ELSE ""
                     [] emsi.info = "banner" -> "guessed"
                     [] emsi.info = "none" /\ emsi.fails -> "failed"
                     [] OTHER -> "none sent"
           t == Client!EmsiOver(res, emsi, expected)
<1>1. software \in BOOLEAN /\ identity \in BOOLEAN /\ valid \in BOOLEAN OBVIOUS
<1>2. note \in {"", "read, then failed", "guessed", "failed", "none sent"}
  BY DEF Handshake, Client!EmsiInfo
<1>3. t = [res EXCEPT !.software = software, !.identity = identity, !.valid = valid, !.note = note]
  BY DEF Client!EmsiOver
<1> HIDE DEF software, identity, valid, note, t
<1>4. t \in Results /\ SameOutcome(res, t) /\ t.identity = identity /\ t.valid = valid
  BY <1>1, <1>2, <1>3 DEF Results, SameOutcome
<1> QED BY <1>4 DEF identity, valid, t

LEMMA TestersAgreeing ==
  ASSUME NEW up \in BOOLEAN, NEW emsi, Handshake(emsi), NEW expected
  PROVE  Client!TestersAgree(up, emsi, expected, Client!IfcicoTest(up, emsi, expected))
<1> DEFINE res == [software |-> FALSE, identity |-> FALSE, valid |-> FALSE, note |-> ""]
           v == Client!EmsiOver(res, emsi, expected)
           r == Client!IfcicoTest(up, emsi, expected)
           dat == emsi.info = "dat"
           valid == emsi.info # "none" /\ expected \in emsi.addresses
           source == CASE emsi.info = "none" -> "" [] emsi.info = "banner" -> "banner"
                       [] OTHER -> "emsi_dat"
           name == CASE emsi.info = "none" -> "no data" [] emsi.info = "banner" -> "placeholder"
                     [] OTHER -> "announced"
<1>1. v.valid = (dat /\ expected \in emsi.addresses) /\ v.identity = dat
  <2>1. DOMAIN res = {"software", "identity", "valid", "note"} OBVIOUS
  <2>2. /\ v.valid = (emsi.info = "dat" /\ expected \in emsi.addresses)
        /\ v.identity = (emsi.info = "dat")
    BY DEF Client!EmsiOver
  <2> QED BY <2>2
<1>2. valid = (dat /\ expected \in emsi.addresses)
  <2>1. CASE dat BY <2>1
  <2>2. CASE ~dat
    <3>1. emsi.addresses = {} BY <2>2 DEF Handshake
    <3> QED BY <2>2, <3>1
  <2> QED BY <2>1, <2>2
<1>3. (source = "emsi_dat") = dat /\ (name = "announced") = dat /\ name # ""
  BY DEF Handshake, Client!EmsiInfo
<1>4. r = IF ~up \/ emsi.fails THEN [success |-> FALSE, name |-> "", source |-> "", valid |-> FALSE]
          ELSE [success |-> TRUE, name |-> name, source |-> source, valid |-> valid]
  BY DEF Client!IfcicoTest
<1>5. emsi.fails \in BOOLEAN BY DEF Handshake
<1> HIDE DEF v, r, valid, source, name, dat
<1>6. r.success = (up /\ ~emsi.fails)
  <2>1. CASE ~up \/ emsi.fails BY <1>4, <2>1
  <2>2. CASE ~(~up \/ emsi.fails)
    <3>1. r.success = TRUE BY <1>4, <2>2
    <3> QED BY <2>2, <3>1
  <2> QED BY <2>1, <2>2
<1>7. r.success => /\ r.valid = v.valid /\ (r.valid => v.identity)
                   /\ r.name # "" /\ (r.name = "announced") = v.identity
                   /\ (r.source = "emsi_dat") = (r.name = "announced")
  <2>1. SUFFICES ASSUME ~(~up \/ emsi.fails)
                 PROVE  /\ r.valid = v.valid /\ (r.valid => v.identity)
                        /\ r.name # "" /\ (r.name = "announced") = v.identity
                        /\ (r.source = "emsi_dat") = (r.name = "announced")
    BY <1>5, <1>6
  <2>2. r.valid = valid /\ r.source = source /\ r.name = name BY <1>4, <2>1
  <2>3. v.valid => v.identity BY <1>1
  <2> QED BY <1>1, <1>2, <1>3, <2>2, <2>3, Zenon
<1> QED BY <1>6, <1>7 DEF Client!TestersAgree, v, r, dat

LEMMA IdentityTold ==
  ASSUME NEW res \in Results, NEW peer, IsPeer(peer), NEW expected, Honest(res, peer)
  PROVE  LET t == Client!EmsiIdentity(res, peer, expected) IN
         t \in Results /\ SameOutcome(res, t) /\ Honest(t, peer)
<1> DEFINE t == Client!EmsiIdentity(res, peer, expected)
           e == Client!EmsiOver(res, peer.emsi, expected)
<1>1. CASE peer.upAgain
  <2>1. t = [e EXCEPT !.note = ""] BY <1>1 DEF Client!EmsiIdentity
  <2>2. /\ e \in Results /\ SameOutcome(res, e)
        /\ e.identity = (peer.emsi.info = "dat")
        /\ e.valid = (peer.emsi.info = "dat" /\ expected \in peer.emsi.addresses)
    BY EmsiTold DEF IsPeer
  <2> HIDE DEF e, t
  <2>3. t \in Results /\ SameOutcome(e, t) /\ t.identity = e.identity /\ t.valid = e.valid
    BY <2>1, <2>2 DEF Results, SameOutcome
  <2>4. SameOutcome(res, t) BY <2>2, <2>3 DEF SameOutcome
  <2>5. Honest(t, peer) BY <2>2, <2>3 DEF Honest
  <2> QED BY <2>3, <2>4, <2>5 DEF t
<1>2. CASE ~peer.upAgain
  <2>1. t = res BY <1>2 DEF Client!EmsiIdentity
  <2>2. SameOutcome(res, res) BY DEF SameOutcome
  <2> QED BY <2>1, <2>2
<1> QED BY <1>1, <1>2

LEMMA Named ==
  ASSUME NEW res \in Results, NEW peer, Honest(res, peer),
         NEW variant \in {"vmp", "emsi-raw", "emsi-telnet", "binkp", "banner", "telnet-login"}
  PROVE  LET t == Client!Is(res, variant) IN
         /\ t \in Results /\ Honest(t, peer) /\ t.success = TRUE /\ t.variant = variant
         /\ t.conformant = res.conformant /\ t.called = res.called /\ t.left = res.left
         /\ t.outcome = res.outcome
BY DEF Client!Is, Results, Honest

(* What a classification says is in what was heard. *)
Classified(res, t, peer, heard) ==
    /\ t \in Results /\ Honest(t, peer) /\ t.called = res.called /\ t.left = res.left
    /\ t.conformant => res.conformant \/ "VMP" \in heard.app
    /\ t.success \/ t.variant = "unknown"
    /\ t.variant \in {"emsi-raw", "emsi-telnet"} =>
          Client!HasEMSIMarker(heard) \/ "product" \in heard.app

LEMMA ClassifiedByHearing ==
  ASSUME NEW res \in Results, NEW peer, IsPeer(peer), NEW expected, Honest(res, peer),
         NEW heard
  PROVE  Classified(res, Client!Classify(res, peer, heard, expected), peer, heard)
<1> DEFINE t == Client!Classify(res, peer, heard, expected)
           emsi == Client!HasEMSIMarker(heard)
<1>1. CASE "VMP" \in heard.app
  <2> DEFINE u == Client!Is(res, "vmp")
  <2>1. t = [u EXCEPT !.conformant = TRUE, !.software = TRUE] BY <1>1 DEF Client!Classify
  <2>2. /\ u \in Results /\ Honest(u, peer) /\ u.success = TRUE /\ u.variant = "vmp"
        /\ u.called = res.called /\ u.left = res.left
    BY Named
  <2> HIDE DEF t, u
  <2>3. /\ t \in Results /\ t.success = TRUE /\ t.variant = "vmp"
        /\ t.called = res.called /\ t.left = res.left
        /\ t.identity = u.identity /\ t.valid = u.valid
    BY <2>1, <2>2 DEF Results
  <2> QED BY <1>1, <2>2, <2>3 DEF Classified, Honest, t
<1>2. CASE "VMP" \notin heard.app /\ emsi
  <2>1. PICK variant \in {"emsi-telnet", "emsi-raw"} :
           variant = IF heard.telnet THEN "emsi-telnet" ELSE "emsi-raw"
    OBVIOUS
  <2> DEFINE u == Client!Is(res, variant)
             e == Client!EmsiIdentity(u, peer, expected)
             software == e.software \/ "product" \in heard.app
  <2>2. t = [e EXCEPT !.software = software] BY <1>2, <2>1 DEF Client!Classify
  <2>3. /\ u \in Results /\ Honest(u, peer) /\ u.success = TRUE
        /\ u.conformant = res.conformant /\ u.called = res.called /\ u.left = res.left
    BY <2>1, Named
  <2> HIDE DEF u
  <2>4. e \in Results /\ SameOutcome(u, e) /\ Honest(e, peer) BY <2>3, IdentityTold
  <2>5. software \in BOOLEAN OBVIOUS
  <2> HIDE DEF t, e, software, emsi
  <2>6. /\ t \in Results /\ t.success = e.success /\ t.conformant = e.conformant
        /\ t.called = e.called /\ t.left = e.left
        /\ t.identity = e.identity /\ t.valid = e.valid
    BY <2>2, <2>4, <2>5 DEF Results
  <2> QED BY <1>2, <2>3, <2>4, <2>6 DEF Classified, Honest, SameOutcome, t, emsi
<1>3. CASE "VMP" \notin heard.app /\ ~emsi /\ "NUL" \in heard.app
  <2>1. t = Client!Is(res, "binkp") BY <1>3 DEF Client!Classify
  <2> HIDE DEF t
  <2>2. /\ t \in Results /\ Honest(t, peer) /\ t.success = TRUE /\ t.variant = "binkp"
        /\ t.conformant = res.conformant /\ t.called = res.called /\ t.left = res.left
    BY <2>1, Named
  <2> QED BY <2>2 DEF Classified, t
<1>4. CASE heard.app \cap {"VMP", "NUL"} = {} /\ ~emsi
  <2>0. "VMP" \notin heard.app /\ "NUL" \notin heard.app BY <1>4
  <2>1. CASE heard.telnet /\ "product" \in heard.app
    <3> DEFINE u == Client!Is(res, "emsi-telnet")
               e == Client!EmsiIdentity(u, peer, expected)
    <3>1. t = [e EXCEPT !.software = TRUE] BY <1>4, <2>0, <2>1 DEF Client!Classify
    <3>2. /\ u \in Results /\ Honest(u, peer) /\ u.success = TRUE
          /\ u.conformant = res.conformant /\ u.called = res.called /\ u.left = res.left
      BY Named
    <3> HIDE DEF u
    <3>3. e \in Results /\ SameOutcome(u, e) /\ Honest(e, peer) BY <3>2, IdentityTold
    <3> HIDE DEF t, e
    <3>4. /\ t \in Results /\ t.success = e.success /\ t.conformant = e.conformant
          /\ t.called = e.called /\ t.left = e.left
          /\ t.identity = e.identity /\ t.valid = e.valid
      BY <3>1, <3>3 DEF Results
    <3> QED BY <2>1, <3>2, <3>3, <3>4 DEF Classified, Honest, SameOutcome, t
  <2>2. CASE ~(heard.telnet /\ "product" \in heard.app) /\ "banner" \in heard.app
    <3>1. t = Client!Is(res, "banner") BY <1>4, <2>0, <2>2 DEF Client!Classify
    <3> HIDE DEF t
    <3>2. /\ t \in Results /\ Honest(t, peer) /\ t.success = TRUE /\ t.variant = "banner"
          /\ t.conformant = res.conformant /\ t.called = res.called /\ t.left = res.left
      BY <3>1, Named
    <3> QED BY <3>2 DEF Classified, t
  <2>3. CASE heard.telnet /\ "product" \notin heard.app /\ "banner" \notin heard.app
    <3>0. heard.app \cap {"product", "banner"} = {} BY <2>3
    <3>1. t = Client!Is(res, "telnet-login") BY <1>4, <2>0, <2>3, <3>0 DEF Client!Classify
    <3> HIDE DEF t
    <3>2. /\ t \in Results /\ Honest(t, peer) /\ t.success = TRUE /\ t.variant = "telnet-login"
          /\ t.conformant = res.conformant /\ t.called = res.called /\ t.left = res.left
      BY <3>1, Named
    <3> QED BY <3>2 DEF Classified, t
  <2>4. CASE ~heard.telnet /\ "banner" \notin heard.app
    <3>1. t = [res EXCEPT !.variant = "unknown"] BY <1>4, <2>0, <2>4 DEF Client!Classify
    <3> HIDE DEF t
    <3>2. /\ t \in Results /\ t.variant = "unknown" /\ t.identity = res.identity
          /\ t.valid = res.valid /\ t.conformant = res.conformant /\ t.called = res.called
          /\ t.left = res.left
      BY <3>1 DEF Results
    <3> QED BY <3>2 DEF Classified, Honest, t
  <2> QED BY <2>1, <2>2, <2>3, <2>4
<1> QED BY <1>1, <1>2, <1>3, <1>4
LEMMA HeardOfPeer ==
  ASSUME NEW peer, IsPeer(peer), NEW greeted \in BOOLEAN, greeted => peer.speaks = "at once"
  PROVE  LET heard == Client!Sniff(peer, greeted) IN
         /\ heard.app \subseteq peer.opening \cup peer.answer
         /\ ~heard.nudged /\ "INQ" \in heard.app =>
              "INQ" \in peer.opening /\ peer.speaks \in {"at once", "later"}
<1> DEFINE heard == Client!Sniff(peer, greeted)
           silent == ~greeted /\ peer.speaks \in {"nudged", "never"}
           nudged == silent \/ (peer.speaks # "never" /\ peer.telnet
                                  /\ peer.opening \cap Client!Replies = {})
           app == peer.opening \cup (IF nudged /\ peer.telnet THEN peer.answer ELSE {})
<1>1. CASE peer.speaks = "never"
  <2>1. heard = [app |-> {}, telnet |-> FALSE, nudged |-> TRUE] BY <1>1 DEF Client!Sniff
  <2> HIDE DEF heard
  <2>2. heard.app = {} /\ heard.nudged = TRUE BY <2>1
  <2> QED BY <2>2 DEF heard
<1>2. CASE peer.speaks # "never"
  <2>1. heard = [app |-> app, telnet |-> peer.telnet, nudged |-> nudged]
    BY <1>2 DEF Client!Sniff
  <2>2. app \subseteq peer.opening \cup peer.answer OBVIOUS
  <2>3. ~nudged => app = peer.opening /\ peer.speaks \in {"at once", "later"}
    BY <1>2 DEF IsPeer, Client!Speaks
  <2>4. nudged \in BOOLEAN OBVIOUS
  <2> HIDE DEF heard, app, nudged
  <2>5. heard.app = app /\ heard.nudged = nudged BY <2>1
  <2> QED BY <2>2, <2>3, <2>5 DEF heard
<1> QED BY <1>1, <1>2

LEMMA MarkersHeard ==
  ASSUME NEW res, NEW t, NEW peer, IsPeer(peer),
         NEW greeted \in BOOLEAN, greeted => peer.speaks = "at once",
         Classified(res, t, peer, Client!Sniff(peer, greeted))
  PROVE  /\ t.conformant => res.conformant \/ "VMP" \in peer.opening \cup peer.answer
         /\ t.variant \in {"emsi-raw", "emsi-telnet"} =>
              \/ (peer.opening \cup peer.answer) \cap {"REQ", "HBT", "product"} # {}
              \/ "INQ" \in peer.opening /\ peer.speaks \in {"at once", "later"}
<1> DEFINE heard == Client!Sniff(peer, greeted)
<1>1. /\ heard.app \subseteq peer.opening \cup peer.answer
      /\ ~heard.nudged /\ "INQ" \in heard.app =>
           "INQ" \in peer.opening /\ peer.speaks \in {"at once", "later"}
  BY HeardOfPeer
<1>2. Classified(res, t, peer, heard) OBVIOUS
<1> HIDE DEF heard
<1>3. t.conformant => res.conformant \/ "VMP" \in heard.app BY <1>2 DEF Classified
<1>4. t.variant \in {"emsi-raw", "emsi-telnet"} =>
        Client!HasEMSIMarker(heard) \/ "product" \in heard.app
  BY <1>2 DEF Classified
<1>5. Client!HasEMSIMarker(heard) =>
         \/ "REQ" \in heard.app \/ "HBT" \in heard.app
         \/ ~heard.nudged /\ "INQ" \in heard.app
  BY DEF Client!HasEMSIMarker, Client!Markers
<1>6. ASSUME NEW word \in heard.app \cap {"REQ", "HBT", "product"}
      PROVE  (peer.opening \cup peer.answer) \cap {"REQ", "HBT", "product"} # {}
  BY <1>1, <1>6
<1> QED BY <1>1, <1>3, <1>4, <1>5, <1>6

(* What has been found so far does no more than it may. *)
Sound(r, peer, enabled, mayCall) ==
    /\ r.called => enabled /\ mayCall /\ peer.speaks # "at once"
    /\ r.conformant => \/ r.called /\ peer.call \in {"connected", "no answer"}
                       \/ "VMP" \in peer.opening \cup peer.answer
    /\ ~r.success => \/ r.variant \in {"down", "unknown"}
                     \/ r.variant = "vmp" /\ r.outcome = "no-local-port"
    /\ r.identity => peer.emsi.info = "dat"
    /\ r.valid => r.identity
    /\ r.variant \in {"emsi-raw", "emsi-telnet"} =>
            \/ (peer.opening \cup peer.answer) \cap {"REQ", "HBT", "product"} # {}
            \/ "INQ" \in peer.opening /\ peer.speaks \in {"at once", "later"}
    /\ r.left = 0 \/ (r.called = FALSE /\ peer.call = "cancelled")

(* Before a classification. *)
Unclassified(res, peer, enabled, mayCall) ==
    /\ res \in Results /\ Honest(res, peer) /\ res.conformant = FALSE
    /\ res.called => enabled /\ mayCall /\ peer.speaks # "at once"
    /\ res.left = 0 \/ (res.called = FALSE /\ peer.call = "cancelled")

LEMMA FallbackSound ==
  ASSUME NEW res, NEW peer, IsPeer(peer), NEW enabled, NEW mayCall, NEW expected,
         NEW greeted \in BOOLEAN, greeted => peer.speaks = "at once",
         Unclassified(res, peer, enabled, mayCall)
  PROVE  Sound(Client!Fallback(res, peer, expected, greeted), peer, enabled, mayCall)
<1> DEFINE heard == Client!Sniff(peer, greeted)
           r == Client!Classify(res, peer, heard, expected)
           t == Client!Fallback(res, peer, expected, greeted)
<1>1. res \in Results /\ Honest(res, peer) /\ res.conformant = FALSE BY DEF Unclassified
<1>2. Classified(res, r, peer, heard) BY <1>1, ClassifiedByHearing
<1>3. t = r \/ (t = [r EXCEPT !.outcome = "no-reply"] /\ r.variant = "unknown")
  BY DEF Client!Fallback
<1> HIDE DEF r, t
<1>4. /\ r.conformant => "VMP" \in peer.opening \cup peer.answer
      /\ r.variant \in {"emsi-raw", "emsi-telnet"} =>
           \/ (peer.opening \cup peer.answer) \cap {"REQ", "HBT", "product"} # {}
           \/ "INQ" \in peer.opening /\ peer.speaks \in {"at once", "later"}
  BY <1>1, <1>2, MarkersHeard
<1> HIDE DEF heard
<1>5. r \in Results BY <1>2 DEF Classified
<1>6. /\ t.success = r.success /\ t.conformant = r.conformant /\ t.called = r.called
      /\ t.left = r.left /\ t.variant = r.variant /\ t.identity = r.identity /\ t.valid = r.valid
  BY <1>3, <1>5 DEF Results
<1> QED BY <1>2, <1>4, <1>6 DEF Sound, Classified, Honest, Unclassified, t

LEMMA CallPlaced ==
  ASSUME NEW peer, IsPeer(peer), NEW expected,
         NEW enabled, NEW mayCall, enabled, mayCall, peer.speaks # "at once"
  PROVE  LET res == [Client!NoResult EXCEPT !.called = peer.call # "cancelled"]
             t == Client!PlaceVMPCall(res, peer, expected)
         IN /\ Client!IsVMODEM(peer.call) => Sound(t, peer, enabled, mayCall)
            /\ ~Client!IsVMODEM(peer.call) => Unclassified(t, peer, enabled, mayCall)
<1> DEFINE res == [Client!NoResult EXCEPT !.called = peer.call # "cancelled"]
           t == Client!PlaceVMPCall(res, peer, expected)
           named == Client!Is(res, "vmp")
           vmp == [named EXCEPT !.conformant = TRUE, !.software = TRUE, !.called = TRUE,
                                !.outcome = peer.call]
<1>0. peer.call \in Outcomes BY DEF IsPeer
<1>1. /\ res \in Results /\ Honest(res, peer) /\ res.conformant = FALSE /\ res.left = 0
      /\ res.success = FALSE /\ res.variant = ""
      /\ res.called = (peer.call # "cancelled")
      /\ res.identity = FALSE /\ res.valid = FALSE
  BY DEF Client!NoResult, Results, Honest
<1>2. t = CASE peer.call = "no-local-port" -> [res EXCEPT !.variant = "vmp", !.outcome = peer.call]
            [] peer.call = "connected" -> Client!EmsiOver(vmp, peer.emsi, expected)
            [] peer.call = "no answer" -> vmp
            [] peer.call = "cancelled" -> [res EXCEPT !.left = 1]
            [] OTHER -> res
  BY DEF Client!PlaceVMPCall
<1> HIDE DEF res
<1>3. /\ named \in Results /\ named.success = TRUE /\ named.variant = "vmp"
      /\ named.left = 0 /\ named.identity = FALSE /\ named.valid = FALSE
  BY <1>1 DEF Client!Is, Results
<1> HIDE DEF named, t
<1>4. /\ vmp \in Results /\ vmp.success = TRUE /\ vmp.variant = "vmp" /\ vmp.conformant = TRUE
      /\ vmp.called = TRUE /\ vmp.left = 0 /\ vmp.identity = FALSE /\ vmp.valid = FALSE
  BY <1>0, <1>3 DEF Results
<1> HIDE DEF vmp
<1>5. CASE peer.call = "no-local-port"
  <2>1. t = [res EXCEPT !.variant = "vmp", !.outcome = peer.call] BY <1>2, <1>5
  <2>2. /\ t.success = FALSE /\ t.variant = "vmp" /\ t.outcome = "no-local-port" /\ t.left = 0
        /\ t.conformant = FALSE /\ t.identity = FALSE /\ t.valid = FALSE
    BY <1>1, <1>5, <2>1 DEF Results
  <2> QED BY <1>5, <2>2 DEF Sound, Client!IsVMODEM, t, res
<1>6. CASE peer.call = "connected"
  <2>1. t = Client!EmsiOver(vmp, peer.emsi, expected) BY <1>2, <1>6
  <2>2. Handshake(peer.emsi) BY DEF IsPeer
  <2>3. /\ t \in Results /\ SameOutcome(vmp, t) /\ t.identity = (peer.emsi.info = "dat")
        /\ t.valid = (peer.emsi.info = "dat" /\ expected \in peer.emsi.addresses)
    BY <1>4, <2>1, <2>2, EmsiTold
  <2> QED BY <1>4, <1>6, <2>3 DEF Sound, SameOutcome, Client!IsVMODEM, t, res
<1>7. CASE peer.call = "no answer"
  <2>1. t = vmp BY <1>2, <1>7
  <2> QED BY <1>4, <1>7, <2>1 DEF Sound, Client!IsVMODEM, t, res
<1>8. CASE peer.call = "cancelled"
  <2>1. t = [res EXCEPT !.left = 1] BY <1>2, <1>8
  <2>2. t \in Results /\ t.called = FALSE /\ t.conformant = FALSE /\ t.identity = FALSE
        /\ t.valid = FALSE
    BY <1>1, <1>8, <2>1 DEF Results
  <2> QED BY <1>8, <2>2 DEF Unclassified, Honest, Client!IsVMODEM, t, res
<1>9. CASE peer.call \in {"silent", "error"}
  <2>1. t = res BY <1>2, <1>9
  <2> QED BY <1>1, <1>9, <2>1 DEF Unclassified, Client!IsVMODEM, t, res
<1> QED BY <1>0, <1>5, <1>6, <1>7, <1>8, <1>9 DEF Outcomes

LEMMA VModemSounds ==
  ASSUME NEW peer, IsPeer(peer), NEW enabled \in BOOLEAN, NEW mayCall \in BOOLEAN, NEW expected
  PROVE  Client!VModemSound(peer, enabled, mayCall,
                            Client!VModemTest(peer, enabled, mayCall, expected))
<1> DEFINE r == Client!VModemTest(peer, enabled, mayCall, expected)
           calls == enabled /\ mayCall /\ peer.speaks # "at once"
           tried == Client!PlaceVMPCall([Client!NoResult EXCEPT !.called = peer.call # "cancelled"],
                                        peer, expected)
<1>1. SUFFICES Sound(r, peer, enabled, mayCall)
  <2> HIDE DEF r
  <2> QED BY DEF Sound, Client!VModemSound, r
<1>2. Unclassified(Client!NoResult, peer, enabled, mayCall)
  BY DEF Unclassified, Client!NoResult, Results, Honest
<1>3. ASSUME NEW res, Unclassified(res, peer, enabled, mayCall)
      PROVE  Sound(Client!Down(res), peer, enabled, mayCall)
  <2> DEFINE d == Client!Down(res)
  <2>1. d = [res EXCEPT !.variant = "down"] BY DEF Client!Down
  <2> HIDE DEF d
  <2>2. /\ d.variant = "down" /\ d.conformant = res.conformant /\ d.called = res.called
        /\ d.left = res.left /\ d.identity = res.identity /\ d.valid = res.valid
    BY <1>3, <2>1 DEF Unclassified, Results
  <2> QED BY <1>3, <2>2 DEF Unclassified, Honest, Sound, d
<1>4. CASE ~peer.up
  <2>1. r = Client!Down(Client!NoResult) BY <1>4 DEF Client!VModemTest
  <2> HIDE DEF r
  <2> QED BY <1>2, <1>3, <2>1 DEF r
<1>5. CASE peer.up /\ ~calls
  <2>1. r = Client!Fallback(Client!NoResult, peer, expected, peer.speaks = "at once")
    BY <1>5 DEF Client!VModemTest
  <2>2. Sound(Client!Fallback(Client!NoResult, peer, expected, peer.speaks = "at once"),
              peer, enabled, mayCall)
    BY <1>2, FallbackSound
  <2> QED BY <2>1, <2>2
<1>6. CASE peer.up /\ calls
  <2>1. /\ Client!IsVMODEM(peer.call) => Sound(tried, peer, enabled, mayCall)
        /\ ~Client!IsVMODEM(peer.call) => Unclassified(tried, peer, enabled, mayCall)
    BY <1>6, CallPlaced
  <2>2. CASE Client!IsVMODEM(peer.call)
    <3>1. r = tried BY <1>6, <2>2 DEF Client!VModemTest
    <3> QED BY <2>1, <2>2, <3>1
  <2>3. CASE ~Client!IsVMODEM(peer.call)
    <3>1. r = IF ~peer.upAgain THEN Client!Down(tried)
              ELSE Client!Fallback(tried, peer, expected, FALSE)
      BY <1>6, <2>3 DEF Client!VModemTest
    <3> HIDE DEF r, tried
    <3>2. Unclassified(tried, peer, enabled, mayCall) BY <2>1, <2>3
    <3>3. Sound(Client!Down(tried), peer, enabled, mayCall) BY <1>3, <3>2
    <3>4. Sound(Client!Fallback(tried, peer, expected, FALSE), peer, enabled, mayCall)
      BY <3>2, FallbackSound
    <3> QED BY <3>1, <3>3, <3>4 DEF r
  <2> QED BY <2>2, <2>3
<1> QED BY <1>4, <1>5, <1>6
-----------------------------------------------------------------------------
LEMMA FlattenSeqOfClient ==
  ASSUME NEW seqs
  PROVE  FlattenSeq(seqs) = Client!FlattenSeq(seqs)
BY DEF FlattenSeq, Client!FlattenSeq

(* The answer to a call, whatever the peer does. *)
Understood(c, r) ==
    /\ c.op = "ReadStream" => Client!StreamAsSent(c.chunks, r)
    /\ c.op = "TelnetTest" => Client!BannerAsShown(c.up, c.inTime, c.pieces, r)
    /\ c.op = "BinkpTest" => Client!BinkpSound(c.remote, c.expected, c.maxFrames, r)
    /\ c.op = "FtpTest" => Client!JudgedByItsReply(c.replies, r)
    /\ c.op = "IfcicoTest" => Client!TestersAgree(c.up, c.emsi, c.expected, r)
    /\ c.op = "VModemTest" => Client!VModemSound(c.peer, c.enabled, c.mayCall, r)

LEMMA AnswersUnderstood ==
  ASSUME NEW c, c.op \in Testers, Arguments(c)
  PROVE  Understood(c, AnswerOfTester(c))
<1> DEFINE r == AnswerOfTester(c)
<1>1. CASE c.op = "ReadStream"
  <2>1. r = Client!ReadStream(c.chunks) BY <1>1 DEF AnswerOfTester
  <2> HIDE DEF r
  <2>2. Client!StreamAsSent(c.chunks, r) BY <1>1, <2>1, StreamUncut DEF Arguments
  <2> QED BY <1>1, <2>2 DEF Understood, r
<1>2. CASE c.op = "TelnetTest"
  <2>1. r = Client!TelnetTest(c.up, c.inTime, FlattenSeq(c.pieces)) BY <1>2 DEF AnswerOfTester
  <2> HIDE DEF r
  <2>2. r = Client!TelnetTest(c.up, c.inTime, Client!FlattenSeq(c.pieces))
    BY <2>1, FlattenSeqOfClient
  <2>3. c.pieces \in Seq(Seq(Byte)) /\ c.up \in BOOLEAN /\ c.inTime \in BOOLEAN
    BY <1>2 DEF Arguments
  <2>4. Client!BannerAsShown(c.up, c.inTime, c.pieces, r) BY <2>2, <2>3, BannerShown
  <2> QED BY <1>2, <2>4 DEF Understood, r
<1>3. CASE c.op = "BinkpTest"
  <2>1. r = Client!BinkpTest(c.remote, c.expected, c.maxFrames) BY <1>3 DEF AnswerOfTester
  <2> HIDE DEF r
  <2>2. Client!BinkpSound(c.remote, c.expected, c.maxFrames, r)
    BY <1>3, <2>1, BinkpUnderstood DEF Arguments
  <2> QED BY <1>3, <2>2 DEF Understood, r
<1>4. CASE c.op = "FtpTest"
  <2>1. r = Client!FtpTest(FlattenSeq(c.replies)) BY <1>4 DEF AnswerOfTester
  <2> HIDE DEF r
  <2>2. r = Client!FtpTest(Client!FlattenSeq(c.replies)) BY <2>1, FlattenSeqOfClient
  <2>3. c.replies \in Seq(Seq(ReplyLines)) BY <1>4 DEF Arguments
  <2>4. Client!JudgedByItsReply(c.replies, r) BY <2>2, <2>3, RepliesJudged
  <2> QED BY <1>4, <2>4 DEF Understood, r
<1>5. CASE c.op = "IfcicoTest"
  <2>1. r = Client!IfcicoTest(c.up, c.emsi, c.expected) BY <1>5 DEF AnswerOfTester
  <2> HIDE DEF r
  <2>2. Client!TestersAgree(c.up, c.emsi, c.expected, r)
    BY <1>5, <2>1, TestersAgreeing DEF Arguments
  <2> QED BY <1>5, <2>2 DEF Understood, r
<1>6. CASE c.op = "VModemTest"
  <2>1. r = Client!VModemTest(c.peer, c.enabled, c.mayCall, c.expected) BY <1>6 DEF AnswerOfTester
  <2> HIDE DEF r
  <2>2. Client!VModemSound(c.peer, c.enabled, c.mayCall, r)
    BY <1>6, <2>1, VModemSounds DEF Arguments
  <2> QED BY <1>6, <2>2 DEF Understood, r
<1> QED BY <1>1, <1>2, <1>3, <1>4, <1>5, <1>6 DEF Testers

(* Peers are understood, whoever is called and whatever they do.              *)
(* [telnetBinaryConn.Read, cleanBanner, receiveRemoteInfo,                    *)
(* readFullFTPResponse, IfcicoTester.Test, classify]                          *)
THEOREM PeersUnderstoodCorrect == TesterSpec => []PeersUnderstood
<1> DEFINE Inv == call # NoCall => Understood(call, answer)
<1>1. Inv => PeersUnderstood BY DEF PeersUnderstood, Answered, Understood
<1>2. ASSUME NEW f \in DOMAIN Calls, Idle(f) PROVE Inv BY <1>2 DEF Idle
<1>3. Inv /\ [CallTester]_machine => Inv'
  <2> SUFFICES ASSUME Inv, [CallTester]_machine PROVE Inv' OBVIOUS
  <2>1. CASE CallTester
    <3>1. PICK c \in Calls[group] :
             c.op \in Testers /\ call' = c /\ answer' = AnswerOfTester(c)
      BY <2>1 DEF CallTester
    <3>2. group \in DOMAIN Calls BY <2>1 DEF CallTester
    <3>3. Arguments(c) BY <3>1, <3>2, TesterArguments
    <3>4. Understood(c, AnswerOfTester(c)) BY <3>1, <3>3, AnswersUnderstood
    <3>5. Understood(call', answer') BY <3>1, <3>4
    <3> QED BY <3>5 DEF Understood
  <2>2. CASE UNCHANGED machine BY <2>2 DEF machine, Understood
  <2> QED BY <2>1, <2>2
<1>4. (\E f \in DOMAIN Calls : Idle(f)) => Inv BY <1>2
<1> QED BY <1>1, <1>3, <1>4, PTL DEF TesterSpec

-----------------------------------------------------------------------------
(* The hours in which a node may be called. *)
Windows == INSTANCE CallWindows

(* A window that starts on every day of the week, or of the weekend, or more. *)
Sources == {"T-flag", "#nn", "ZMH"}
Regular ==
    {w \in [source : Sources, start : Int, end : Int, days : SUBSET Windows!AllDays] :
        Windows!Weekdays \subseteq w.days \/ Windows!Weekends \subseteq w.days}

(* A day of a window after today, and within a week of it. *)
LEMMA StartsThisWeek ==
  ASSUME NEW w \in Regular, NEW day \in Int
  PROVE  \E d \in 1..6 : (day + d) % 7 \in w.days
<1>1. PICK k \in 0..6 : k = day % 7 OBVIOUS
<1>2. PICK q \in Int : day = 7 * q + k
  <2>1. day = 7 * (day \div 7) + (day % 7) OBVIOUS
  <2> QED BY <1>1, <2>1
<1>3. \A d \in 0..6 : (day + d) % 7 = IF k + d > 6 THEN k + d - 7 ELSE k + d
  BY <1>2
<1>4. \/ {1, 2} \subseteq w.days \/ {0, 6} \subseteq w.days
  BY DEF Regular, Windows!Weekdays, Windows!Weekends
<1>5. ASSUME NEW a \in 0..6, a # k PROVE \E d \in 1..6 : (day + d) % 7 = a
  <2>1. CASE a > k
    <3>1. a - k \in 1..6 /\ k + (a - k) = a BY <2>1
    <3> QED BY <1>3, <3>1
  <2>2. CASE a < k
    <3>1. (a + 7) - k \in 1..6 /\ k + ((a + 7) - k) = a + 7 BY <2>2
    <3> QED BY <1>3, <3>1
  <2> QED BY <1>5, <2>1, <2>2
<1>6. \E a \in 0..6 : a # k /\ a \in w.days BY <1>1, <1>4
<1> QED BY <1>5, <1>6

(* Days, and the minutes of a day. *)
Clock == 0..1439
Time(day, clock) == 1440 * day + clock

LEMMA DayAndClock ==
  ASSUME NEW t \in Int
  PROVE  \E day \in Int, clock \in Clock : t = Time(day, clock)
<1>1. t = 1440 * (t \div 1440) + (t % 1440) /\ t % 1440 \in 0..1439 /\ t \div 1440 \in Int
  OBVIOUS
<1> QED BY <1>1 DEF Time, Clock

IsTime(t, day, clock) ==
    /\ t \in Int /\ t \div Windows!DayLength = day
    /\ Windows!ClockOf(t) = clock /\ Windows!WeekdayOf(t) = day % 7

LEMMA DayOf ==
  ASSUME NEW day \in Int, NEW clock \in Clock
  PROVE  IsTime(Time(day, clock), day, clock)
BY DEF Windows!DayLength, Windows!ClockOf, Windows!WeekdayOf, Time, IsTime, Clock

(* When a window is open, day by day. *)
Opens(w, day, clock) ==
    LET s == Windows!ClockOf(w.start)
        e == Windows!ClockOf(w.end)
    IN IF s <= e THEN day % 7 \in w.days /\ s <= clock /\ clock < e
       ELSE \/ s <= clock /\ day % 7 \in w.days
            \/ clock < e /\ (day - 1) % 7 \in w.days

LEMMA OpenOn ==
  ASSUME NEW w \in Regular, NEW day \in Int, NEW clock \in Clock
  PROVE  Windows!IsInWindow(w, Time(day, clock)) <=> Opens(w, day, clock)
<1>1. ((day % 7) + 6) % 7 = (day - 1) % 7 OBVIOUS
<1>2. IsTime(Time(day, clock), day, clock) BY DayOf
<1> QED BY <1>1, <1>2 DEF IsTime, Windows!IsInWindow, Windows!IncludesDay, Opens

LEMMA SoonestStart ==
  ASSUME NEW S, S \subseteq Int, NEW x \in S, NEW low \in Int, \A y \in S : y > low
  PROVE  Windows!Earliest(S) \in S /\ \A y \in S : Windows!Earliest(S) <= y
<1> DEFINE N == {n \in Nat : low + n \in S}
<1>1. x - low \in N BY x \in Int, x > low
<1>2. PICK n \in N : \A m \in N : ~ (<<m, n>> \in OpToRel(<, Nat))
  BY <1>1, NatLessThanWellFounded, WFMin
<1>3. \A m \in N : n <= m
  <2>1. \A m \in N : ~ (m < n) /\ m \in Nat /\ n \in Nat BY <1>2 DEF OpToRel
  <2> QED BY <2>1
<1>4. low + n \in S BY <1>2
<1>5. \A y \in S : low + n <= y
  <2> SUFFICES ASSUME NEW y \in S PROVE low + n <= y OBVIOUS
  <2>1. y - low \in N BY y \in Int, y > low
  <2> QED BY <1>3, <2>1, y \in Int
<1>6. \E m \in S : \A y \in S : m <= y BY <1>4, <1>5
<1> QED BY <1>6 DEF Windows!Earliest, Windows!Min


(* The openings of windows, as days and minutes of the day. *)
Openable(windows) ==
    \A i \in 1..Len(windows) :
        Windows!ClockOf(windows[i].start) # Windows!ClockOf(windows[i].end)

LEMMA WindowsAre ==
  ASSUME NEW windows \in Seq(Regular)
  PROVE  ToSet(windows) = {windows[i] : i \in 1..Len(windows)} /\ ToSet(windows) \subseteq Regular
<1>1. DOMAIN windows = 1..Len(windows) OBVIOUS
<1>2. \A i \in 1..Len(windows) : windows[i] \in Regular OBVIOUS
<1> QED BY <1>1, <1>2 DEF ToSet

OnWeekday(t, d, day) == Windows!WeekdayOf(t + d * Windows!DayLength) = day % 7

LEMMA LaterDay ==
  ASSUME NEW day \in Int, NEW clock \in Clock, NEW d \in Int
  PROVE  OnWeekday(Time(day, clock), d, day + d)
<1>1. Time(day, clock) + d * Windows!DayLength = Time(day + d, clock)
  BY DEF Windows!DayLength, Time, Clock
<1>2. day + d \in Int OBVIOUS
<1>3. IsTime(Time(day + d, clock), day + d, clock) BY <1>2, DayOf
<1> QED BY <1>1, <1>3 DEF IsTime, OnWeekday

LEMMA StartsAre ==
  ASSUME NEW windows \in Seq(Regular), NEW avail, avail.windows = windows,
         NEW today \in Int, NEW now \in Clock, NEW u
  PROVE  u \in Windows!NextStarts(avail, Time(today, now)) <=>
            \E w \in ToSet(windows), d \in 0..6 :
               /\ (today + d) % 7 \in w.days
               /\ u = Time(today + d, Windows!ClockOf(w.start))
               /\ u > Time(today, now)
<1> DEFINE t == Time(today, now)
           Days(w) == {d \in 0..6 : Windows!IncludesDay(w, Windows!WeekdayOf(t + d * Windows!DayLength))}
           Starts(w) == {Windows!DayLength * (t \div Windows!DayLength + d) + Windows!ClockOf(w.start) : d \in Days(w)}
<1>1. t \div Windows!DayLength = today
  <2>1. IsTime(t, today, now) BY DayOf
  <2> QED BY <2>1 DEF IsTime
<1>2. \A d \in 0..6 : Windows!WeekdayOf(t + d * Windows!DayLength) = (today + d) % 7
  <2>1. \A d \in 0..6 : OnWeekday(t, d, today + d) BY LaterDay
  <2> QED BY <2>1 DEF OnWeekday
<1>3. ToSet(windows) = Windows!ToSet(windows) BY DEF ToSet, Windows!ToSet
<1>4. u \in Windows!NextStarts(avail, t) <=>
         u > t /\ \E w \in ToSet(windows) : u \in Starts(w)
  BY <1>3 DEF Windows!NextStarts
<1> HIDE DEF t
<1>5. \A w : u \in Starts(w) <=> \E d \in 0..6 : /\ (today + d) % 7 \in w.days
                                                /\ u = Time(today + d, Windows!ClockOf(w.start))
  <2>1. \A w : Days(w) = {d \in 0..6 : (today + d) % 7 \in w.days}
    BY <1>2 DEF Windows!IncludesDay
  <2>2. \A w : \A d \in 0..6 : Windows!DayLength * (t \div Windows!DayLength + d) + Windows!ClockOf(w.start)
                            = Time(today + d, Windows!ClockOf(w.start))
    BY <1>1 DEF Windows!DayLength, Time
  <2> DEFINE Start(w, d) == Windows!DayLength * (t \div Windows!DayLength + d) + Windows!ClockOf(w.start)
  <2>3. \A w : Starts(w) = {Start(w, d) : d \in Days(w)} OBVIOUS
  <2> HIDE DEF Days, Start, Starts
  <2>4. \A w : u \in Starts(w) <=> \E d \in Days(w) : u = Start(w, d) BY <2>3
  <2>5. \A w : \A d \in 0..6 : Start(w, d) = Time(today + d, Windows!ClockOf(w.start))
    BY <2>2 DEF Start
  <2> QED BY <2>1, <2>4, <2>5
<1> HIDE DEF Starts
<1> QED BY <1>4, <1>5 DEF t


LEMMA TimeOrder ==
  ASSUME NEW a \in Int, NEW b \in Int, NEW x \in Clock, NEW y \in Clock
  PROVE  /\ Time(a, x) \in Int
         /\ Time(a, x) < Time(b, y) => a <= b
         /\ Time(a, x) < Time(a, y) => x < y
         /\ a < b => Time(a, x) < Time(b, y)
<1>1. PICK m \in Int : m = 1440 * a OBVIOUS
<1>2. PICK n \in Int : n = 1440 * b OBVIOUS
<1>3. x \in Int /\ y \in Int /\ 0 <= x /\ x <= 1439 /\ 0 <= y /\ y <= 1439 BY DEF Clock
<1>4. m + x \in Int /\ (m + x < m + y => x < y) BY <1>3
<1>5. a < b => m + 1440 <= n BY <1>1, <1>2
<1>6. a > b => n + 1440 <= m BY <1>1, <1>2
<1>7. m + x < n + y => ~(n + 1440 <= m) BY <1>3
<1>8. m + 1440 <= n => m + x < n + y BY <1>3
<1>9. Time(a, x) = m + x /\ Time(a, y) = m + y /\ Time(b, y) = n + y BY <1>1, <1>2 DEF Time
<1> QED BY <1>4, <1>5, <1>6, <1>7, <1>8, <1>9

LEMMA ClockTyped == \A t \in Int : Windows!ClockOf(t) \in Clock
BY DEF Windows!ClockOf, Windows!DayLength, Clock

(* What is open later and not now has opened between. *)
LEMMA OpenedBetween ==
  ASSUME NEW w \in Regular, NEW today \in Int, NEW now \in Clock, NEW day \in Int, NEW clock \in Clock,
         Opens(w, day, clock), ~Opens(w, today, now), Time(today, now) < Time(day, clock)
  PROVE  \E d \in {day - 1, day} :
            /\ d % 7 \in w.days /\ d >= today
            /\ Time(d, Windows!ClockOf(w.start)) <= Time(day, clock)
            /\ Time(d, Windows!ClockOf(w.start)) > Time(today, now)
<1>1. PICK s \in Clock : s = Windows!ClockOf(w.start) BY ClockTyped DEF Regular
<1>2. PICK e \in Clock : e = Windows!ClockOf(w.end) BY ClockTyped DEF Regular
<1>3. /\ s \in 0..1439 /\ e \in 0..1439 /\ now \in 0..1439 /\ clock \in 0..1439
      /\ today \in Int /\ day \in Int
  BY DEF Clock
<1>4. 1440 * today + now < 1440 * day + clock BY DEF Time
<1> DEFINE On(d) == d % 7 \in w.days
<1>5. IF s <= e THEN On(day) /\ s <= clock /\ clock < e
      ELSE (s <= clock /\ On(day)) \/ (clock < e /\ On(day - 1))
  BY <1>1, <1>2 DEF Opens
<1>6. ~(IF s <= e THEN On(today) /\ s <= now /\ now < e
        ELSE (s <= now /\ On(today)) \/ (now < e /\ On(today - 1)))
  BY <1>1, <1>2 DEF Opens
<1> HIDE DEF On
<1>7. today <= day BY TimeOrder
<1>8. today = day => now < clock BY TimeOrder
<1> DEFINE Start(d) == On(d) /\ d >= today /\ 1440 * d + s <= 1440 * day + clock
                       /\ 1440 * d + s > 1440 * today + now
<1>9. Start(day - 1) \/ Start(day)
  <2>1. CASE s <= clock /\ On(day) /\ (s <= e => clock < e)
    <3>1. CASE today = day
      <4>1. ~(s <= now) BY <1>3, <1>6, <1>8, <2>1, <3>1
      <4> QED BY <1>3, <2>1, <3>1, <4>1
    <3>2. CASE today < day BY <1>3, <2>1, <3>2
    <3> QED BY <1>3, <1>7, <3>1, <3>2
  <2>2. CASE ~(s <= e) /\ clock < e /\ On(day - 1)
    <3>1. CASE today = day
      <4>1. now < e BY <1>3, <1>8, <2>2, <3>1
      <4> QED BY <1>6, <2>2, <3>1, <4>1
    <3>2. CASE today = day - 1
      <4>1. ~(s <= now) BY <1>6, <2>2, <3>2
      <4> QED BY <1>3, <2>2, <3>2, <4>1
    <3>3. CASE today < day - 1 BY <1>3, <2>2, <3>3
    <3> QED BY <1>3, <1>7, <3>1, <3>2, <3>3
  <2> QED BY <1>5, <2>1, <2>2
<1>10. \A d \in {day - 1, day} : Start(d) =>
          /\ d % 7 \in w.days /\ d >= today
          /\ Time(d, s) <= Time(day, clock) /\ Time(d, s) > Time(today, now)
  BY DEF Time, On
<1> HIDE DEF Start
<1> QED BY <1>1, <1>9, <1>10

(* A node that may not be called now may be from the next start of a window,  *)
(* and not before.                                                            *)
LEMMA SoonestCall ==
  ASSUME NEW windows \in Seq(Regular), windows # <<>>, Openable(windows),
         NEW avail, avail.windows = windows, avail.cm = FALSE,
         NEW t \in Int, ~Windows!IsCallableNow(avail, t)
  PROVE  LET next == Windows!Earliest(Windows!NextStarts(avail, t))
         IN /\ next \in Int /\ next >= t /\ Windows!IsCallableNow(avail, next)
            /\ \A u \in Int : t <= u /\ u < next => ~Windows!IsCallableNow(avail, u)
<1> DEFINE S == Windows!NextStarts(avail, t)
           next == Windows!Earliest(S)
           Open(u) == \E w \in ToSet(windows) : Windows!IsInWindow(w, u)
<1>1. PICK today \in Int, now \in Clock : t = Time(today, now) BY DayAndClock
<1>2. ToSet(windows) \subseteq Regular /\ windows[1] \in ToSet(windows)
  <2>1. 1 \in 1..Len(windows) BY EmptySeq
  <2> QED BY <2>1, WindowsAre
<1>3. \A u : Windows!IsCallableNow(avail, u) <=> Open(u)
  <2>1. Windows!ToSet(windows) = ToSet(windows) BY DEF ToSet, Windows!ToSet
  <2> QED BY <2>1 DEF Windows!IsCallableNow
<1> DEFINE Start(u, w, d) == /\ (today + d) % 7 \in w.days
                             /\ u = Time(today + d, Windows!ClockOf(w.start)) /\ u > t
<1>4. \A u : u \in S <=> \E w \in ToSet(windows), d \in 0..6 : Start(u, w, d)
  BY <1>1, StartsAre
<1>5. \A w \in Regular : Windows!ClockOf(w.start) \in Clock /\ w.start \in Int
  BY ClockTyped DEF Regular
<1>6. \A w \in Regular, d \in 0..6 : Time(today + d, Windows!ClockOf(w.start)) \in Int
  <2> SUFFICES ASSUME NEW w \in Regular, NEW d \in 0..6
               PROVE  Time(today + d, Windows!ClockOf(w.start)) \in Int
    OBVIOUS
  <2>1. today + d \in Int /\ Windows!ClockOf(w.start) \in Clock BY <1>5
  <2> QED BY <2>1, TimeOrder
<1>7. S \subseteq Int /\ \A u \in S : u > t
  <2>1. \A w \in ToSet(windows), d \in 0..6 : \A u : Start(u, w, d) => u \in Int /\ u > t
    BY <1>2, <1>6
  <2> HIDE DEF S, Start
  <2> QED BY <1>4, <2>1
<1>8. \E u : u \in S
  <2>1. PICK d \in 1..6 : (today + d) % 7 \in windows[1].days BY <1>2, StartsThisWeek
  <2> DEFINE u == Time(today + d, Windows!ClockOf(windows[1].start))
  <2>2. u > t
    <3>1. today + d \in Int /\ today < today + d OBVIOUS
    <3>2. Time(today, now) < Time(today + d, Windows!ClockOf(windows[1].start))
      BY <1>2, <1>5, <3>1, TimeOrder
    <3>3. u \in Int BY <1>2, <1>5, <3>1, TimeOrder
    <3> QED BY <1>1, <3>2, <3>3
  <2>3. Start(u, windows[1], d) /\ d \in 0..6 BY <2>1, <2>2
  <2> HIDE DEF u, Start
  <2> QED BY <1>2, <1>4, <2>3
<1>9. next \in S /\ \A u \in S : next <= u
  <2> HIDE DEF S, next
  <2>1. next = Windows!Earliest(S) BY DEF next
  <2> QED BY <1>7, <1>8, <2>1, SoonestStart
<1>10. PICK w0 \in ToSet(windows), d0 \in 0..6 : Start(next, w0, d0) BY <1>4, <1>9
<1> HIDE DEF S, next
<1>11. Open(next)
  <2>1. w0 \in Regular /\ Windows!ClockOf(w0.start) \in Clock /\ today + d0 \in Int
    BY <1>2, <1>5
  <2>2. Windows!ClockOf(w0.start) # Windows!ClockOf(w0.end) /\ Windows!ClockOf(w0.end) \in Clock
    <3>1. PICK i \in 1..Len(windows) : w0 = windows[i] BY WindowsAre
    <3>2. Windows!ClockOf(w0.start) # Windows!ClockOf(w0.end) BY <3>1 DEF Openable
    <3>3. w0.end \in Int BY <2>1 DEF Regular
    <3> QED BY <3>2, <3>3, ClockTyped
  <2>3. Opens(w0, today + d0, Windows!ClockOf(w0.start))
    <3>1. PICK s \in Clock : s = Windows!ClockOf(w0.start) BY <2>1
    <3>2. PICK e \in Clock : e = Windows!ClockOf(w0.end) BY <2>2
    <3>3. s \in Int /\ e \in Int /\ s # e BY <2>2, <3>1, <3>2 DEF Clock
    <3>4. (today + d0) % 7 \in w0.days BY <1>10
    <3> QED BY <3>1, <3>2, <3>3, <3>4 DEF Opens
  <2>4. Windows!IsInWindow(w0, next) BY <1>10, <2>1, <2>3, OpenOn
  <2> QED BY <2>4
<1>12. ASSUME NEW u \in Int, t < u, u < next PROVE ~Open(u)
  <2> SUFFICES ASSUME NEW w \in ToSet(windows), Windows!IsInWindow(w, u) PROVE FALSE
    OBVIOUS
  <2>1. PICK day \in Int, clock \in Clock : u = Time(day, clock) BY DayAndClock
  <2>2. w \in Regular BY <1>2
  <2>3. Opens(w, day, clock) BY <2>1, <2>2, OpenOn
  <2>4. ~Opens(w, today, now)
    <3>1. ~Windows!IsInWindow(w, t) BY <1>3
    <3> QED BY <1>1, <2>2, <3>1, OpenOn
  <2>5. PICK d \in {day - 1, day} :
           /\ d % 7 \in w.days /\ d >= today
           /\ Time(d, Windows!ClockOf(w.start)) <= u
           /\ Time(d, Windows!ClockOf(w.start)) > t
    BY <1>1, <1>12, <2>1, <2>2, <2>3, <2>4, OpenedBetween
  <2>6. PICK s \in Clock : s = Windows!ClockOf(w.start) BY <1>5, <2>2
  <2>7. PICK s0 \in Clock : s0 = Windows!ClockOf(w0.start) BY <1>2, <1>5
  <2>a. d \in Int /\ today + d0 \in Int OBVIOUS
  <2>8. Time(d, s) < Time(today + d0, s0) /\ Time(d, s) \in Int
    <3>1. Time(d, s) \in Int /\ Time(today + d0, s0) \in Int BY <2>a, TimeOrder
    <3>2. Time(d, s) <= u /\ next = Time(today + d0, s0) BY <1>10, <2>5, <2>6, <2>7
    <3> QED BY <1>12, <3>1, <3>2
  <2>9. d - today \in 0..6 /\ today + (d - today) = d
    <3>1. d <= today + d0 BY <2>8, <2>a, TimeOrder
    <3>2. d >= today /\ d0 \in Int /\ 0 <= d0 /\ d0 <= 6 BY <2>5
    <3> QED BY <2>a, <3>1, <3>2
  <2>10. Start(Time(d, s), w, d - today) BY <2>5, <2>6, <2>9
  <2>11. Time(d, s) \in S
    <3> HIDE DEF Start
    <3> QED BY <1>4, <2>9, <2>10
  <2> QED BY <1>7, <1>9, <1>12, <2>5, <2>6, <2>8, <2>11
<1> HIDE DEF Open
<1>13. next \in Int /\ next > t BY <1>7, <1>9
<1>14. \A u \in Int : t <= u /\ u < next => ~Open(u) BY <1>3, <1>12
<1> QED BY <1>3, <1>11, <1>13, <1>14 DEF next, S


LEMMA CardinalityOfWindows ==
  ASSUME NEW S
  PROVE  Windows!Cardinality(S) = Cardinality(S)
BY DEF Cardinality, Windows!Cardinality

(* The windows in the order of their starts are windows. *)
LEMMA SortedTyped ==
  ASSUME NEW windows \in Seq(Regular)
  PROVE  /\ Windows!Sorted(windows) \in Seq(Regular)
         /\ Len(Windows!Sorted(windows)) = Len(windows)
<1>1. PICK N \in Nat : N = Len(windows) OBVIOUS
<1> DEFINE D == 1..N
           before(i, j) == Windows!LexBefore(<<windows[i].start, i>>, <<windows[j].start, j>>)
           Before(i) == {j \in D : before(j, i)}
           Rank(i) == Cardinality(Before(i))
           rank == [i \in D |-> Rank(i)]
<1>2. DOMAIN windows = D BY <1>1
<1>3. \A i \in D : windows[i] \in Regular /\ windows[i].start \in Int /\ i \in Int
  BY <1>1 DEF Regular
<1>4. \A i, j \in D : before(i, j) <=> \/ windows[i].start < windows[j].start
                                       \/ windows[i].start = windows[j].start /\ i < j
  BY DEF Windows!LexBefore
<1> HIDE DEF before
<1>5. \A i \in D : ~before(i, i) BY <1>3, <1>4
<1>6. \A i, j \in D : i # j => before(i, j) \/ before(j, i) BY <1>3, <1>4
<1>7. \A i, j, k \in D : before(i, j) /\ before(j, k) => before(i, k) BY <1>3, <1>4
<1>8. IsFiniteSet(D) /\ Cardinality(D) = N BY FS_Interval
<1>9. \A i \in D : /\ Before(i) \subseteq D /\ IsFiniteSet(Before(i)) /\ Rank(i) \in Nat
                   /\ i \notin Before(i)
  <2> SUFFICES ASSUME NEW i \in D
               PROVE /\ Before(i) \subseteq D /\ IsFiniteSet(Before(i)) /\ Rank(i) \in Nat
                     /\ i \notin Before(i)
    OBVIOUS
  <2>1. Before(i) \in SUBSET D OBVIOUS
  <2>2. IsFiniteSet(Before(i)) BY <1>8, <2>1, FS_Subset
  <2>3. Rank(i) \in Nat BY <2>2, FS_CardinalityType
  <2> QED BY <1>5, <2>1, <2>2, <2>3
<1>10. \A i \in D : Rank(i) < N
  <2> SUFFICES ASSUME NEW i \in D PROVE Rank(i) < N OBVIOUS
  <2>1. Before(i) \in SUBSET D /\ D # Before(i) BY <1>9
  <2> HIDE DEF Before, D
  <2>2. Rank(i) <= N /\ (N = Rank(i) => D = Before(i)) BY <1>8, <2>1, FS_Subset
  <2>3. Rank(i) \in Nat BY <1>9
  <2> QED BY <2>1, <2>2, <2>3
<1>11. \A i, j \in D : before(i, j) => Rank(i) < Rank(j)
  <2> SUFFICES ASSUME NEW i \in D, NEW j \in D, before(i, j) PROVE Rank(i) < Rank(j)
    OBVIOUS
  <2>1. Before(i) \subseteq Before(j) BY <1>7
  <2>2. i \in Before(j) OBVIOUS
  <2>3. i \notin Before(i) /\ IsFiniteSet(Before(j)) /\ Rank(i) \in Nat /\ Rank(j) \in Nat
    BY <1>9
  <2> HIDE DEF Before, D
  <2>4. Before(i) \in SUBSET Before(j) /\ Before(j) # Before(i) BY <2>1, <2>2, <2>3
  <2>5. Rank(i) <= Rank(j) /\ (Rank(j) = Rank(i) => Before(j) = Before(i))
    BY <2>3, <2>4, FS_Subset
  <2> QED BY <2>3, <2>4, <2>5
<1> HIDE DEF Before
<1>12. \A i, j \in D : Rank(i) = Rank(j) => i = j
  <2>1. \A i \in D : Rank(i) \in Nat BY <1>9
  <2> HIDE DEF Rank, D
  <2> QED BY <1>6, <1>11, <2>1
<1>13. rank \in Injection(D, 0..(N - 1))
  <2>1. \A i \in D : Rank(i) \in 0..(N - 1) BY <1>9, <1>10
  <2> HIDE DEF Rank, D
  <2>2. rank \in [D -> 0..(N - 1)] BY <2>1
  <2> QED BY <1>12, <2>2 DEF Injection, IsInjective
<1>14. \A k \in D : \E i \in D : Rank(i) = k - 1
  <2>1. IsFiniteSet(0..(N - 1)) /\ Cardinality(0..(N - 1)) = N BY FS_Interval
  <2> HIDE DEF rank, D
  <2>2. rank \in Surjection(D, 0..(N - 1)) BY <1>8, <1>13, <2>1, FS_Injection
  <2>3. \A m \in 0..(N - 1) : \E i \in D : rank[i] = m BY <2>2 DEF Surjection
  <2>4. \A k \in D : k - 1 \in 0..(N - 1) BY DEF D
  <2> QED BY <2>3, <2>4 DEF rank
<1> DEFINE At(k) == CHOOSE i \in D : Rank(i) = k - 1
<1>15. \A k \in D : At(k) \in D
  <2> HIDE DEF Rank, D
  <2> QED BY <1>14
<1>16. Windows!Sorted(windows) = [k \in D |-> windows[At(k)]]
  <2> DEFINE other == [i \in D |-> Windows!Cardinality(Before(i))]
  <2>1. Windows!Sorted(windows) = [k \in D |-> windows[CHOOSE i \in D : other[i] = k - 1]]
    BY <1>2 DEF Windows!Sorted, Before, before
  <2>2. \A i \in D : other[i] = Rank(i) BY CardinalityOfWindows
  <2>3. \A k : (CHOOSE i \in D : other[i] = k - 1) = At(k)
    <3> HIDE DEF other, Rank, D
    <3> QED BY <2>2
  <2> HIDE DEF other, At
  <2> QED BY <2>1, <2>3
<1> HIDE DEF At, rank, Rank
<1>17. Windows!Sorted(windows) \in [1..N -> Regular] BY <1>3, <1>15, <1>16
<1> QED BY <1>1, <1>17


LEMMA EarlierOf ==
  ASSUME NEW a \in Int, NEW b \in Int
  PROVE  /\ Windows!Min({a, b}) = IF a <= b THEN a ELSE b
         /\ Windows!Max({a, b}) = IF a <= b THEN b ELSE a
<1>1. \A x \in {a, b} : (\A y \in {a, b} : x <= y) <=> x = IF a <= b THEN a ELSE b OBVIOUS
<1>2. \A x \in {a, b} : (\A y \in {a, b} : x >= y) <=> x = IF a <= b THEN b ELSE a OBVIOUS
<1>3. (IF a <= b THEN a ELSE b) \in {a, b} /\ (IF a <= b THEN b ELSE a) \in {a, b} OBVIOUS
<1> QED BY <1>1, <1>2, <1>3 DEF Windows!Min, Windows!Max

LEMMA MergeNextTyped ==
  ASSUME NEW merged \in Seq(Regular), NEW next \in Regular
  PROVE  /\ Windows!MergeNext(merged, next) \in Seq(Regular)
         /\ Windows!MergeNext(merged, next) # <<>>
<1>1. ASSUME NEW s \in Seq(Regular), NEW w \in Regular
      PROVE  Append(s, w) \in Seq(Regular) /\ Append(s, w) # <<>>
  OBVIOUS
<1>2. CASE merged # <<>> /\ Windows!CanMerge(Windows!Last(merged), next)
  <2>1. Len(merged) \in Nat /\ Len(merged) # 0 BY <1>2, EmptySeq
  <2>2. PICK v \in Regular : v = Windows!Last(merged) BY <2>1 DEF Windows!Last
  <2>3. Windows!Front(merged) \in Seq(Regular) BY <2>1 DEF Windows!Front
  <2>4. Windows!MergeWindows(v, next) \in Regular
    <3> DEFINE a == Windows!Min({v.start, next.start})
               b == Windows!Max({v.end, next.end})
    <3>1. /\ v.start \in Int /\ next.start \in Int /\ v.end \in Int /\ next.end \in Int
          /\ v.source \in Sources /\ v.days \subseteq Windows!AllDays
          /\ next.days \subseteq Windows!AllDays
          /\ Windows!Weekdays \subseteq v.days \/ Windows!Weekends \subseteq v.days
      BY DEF Regular
    <3>2. a \in Int /\ b \in Int BY <3>1, EarlierOf
    <3>3. Windows!MergeWindows(v, next) = [source |-> v.source, start |-> a, end |-> b,
                                           days |-> v.days \cup next.days]
      BY DEF Windows!MergeWindows, Windows!Window
    <3> HIDE DEF a, b
    <3> QED BY <3>1, <3>2, <3>3 DEF Regular
  <2>5. Windows!MergeNext(merged, next)
        = Append(Windows!Front(merged), Windows!MergeWindows(v, next))
    BY <1>2, <2>2 DEF Windows!MergeNext
  <2> QED BY <1>1, <2>3, <2>4, <2>5
<1>3. CASE ~(merged # <<>> /\ Windows!CanMerge(Windows!Last(merged), next))
  <2>1. Windows!MergeNext(merged, next) = Append(merged, next)
    BY <1>3, Zenon DEF Windows!MergeNext
  <2> QED BY <1>1, <2>1
<1> QED BY <1>2, <1>3

LEMMA MergesTyped ==
  ASSUME NEW byStart \in Seq(Regular), NEW n \in Nat, n <= Len(byStart)
  PROVE  /\ Windows!Merges(byStart)[n] \in Seq(Regular)
         /\ n > 0 => Windows!Merges(byStart)[n] # <<>>
<1> DEFINE D == Seq(Regular)
           After(s, k) == Windows!MergeNext(s, byStart[k])
           F == [k \in Nat |-> [s \in D |-> IF k \in 1..Len(byStart) THEN After(s, k) ELSE s]]
           Is(h) == h = [k \in 0..Len(byStart) |-> IF k = 0 THEN <<>> ELSE After(h[k - 1], k)]
<1>1. PICK N \in Nat : N = Len(byStart) OBVIOUS
<1>2. \A s \in D, k \in 1..N : After(s, k) \in D /\ After(s, k) # <<>>
  <2>1. \A k \in 1..N : byStart[k] \in Regular BY <1>1
  <2> QED BY <2>1, MergeNextTyped
<1> HIDE DEF Next
<1>3. F \in [Nat -> [D -> D]] BY <1>1, <1>2
<1>4. <<>> \in D OBVIOUS
<1>5. PICK g : Recursion(g, D, <<>>, F)
  <2> HIDE DEF F, D
  <2> QED BY <1>3, <1>4, RecursionExists
<1>6. g[0] = <<>> /\ \A k \in Nat : g[k] \in D BY <1>5 DEF Recursion
<1>7. ASSUME NEW k \in Nat, k < N PROVE g[k + 1] = After(g[k], k + 1)
  <2>1. g[k] \in D /\ k + 1 \in Nat /\ k + 1 \in 1..Len(byStart) BY <1>1, <1>6, <1>7
  <2>2. g[k + 1] = F[k + 1][g[k]]
    <3> HIDE DEF F
    <3> QED BY <1>5 DEF Recursion
  <2> QED BY <2>1, <2>2
<1>8. \E h : Is(h)
  <2> DEFINE h == [k \in 0..N |-> g[k]]
  <2>1. ASSUME NEW k \in 0..N
        PROVE  h[k] = IF k = 0 THEN <<>> ELSE After(h[k - 1], k)
    <3>1. CASE k = 0 BY <1>6, <3>1
    <3>2. CASE k # 0
      <4>1. k - 1 \in Nat /\ k - 1 < N /\ (k - 1) + 1 = k /\ k - 1 \in 0..N BY <3>2
      <4>2. g[(k - 1) + 1] = After(g[k - 1], (k - 1) + 1) BY <1>7, <4>1, Zenon
      <4>3. h[k] = g[k] /\ h[k - 1] = g[k - 1] BY <4>1
      <4> HIDE DEF h
      <4> QED BY <3>2, <4>1, <4>2, <4>3
    <3> QED BY <3>1, <3>2
  <2>2. h = [k \in 0..N |-> h[k]] OBVIOUS
  <2> HIDE DEF h
  <2>3. h = [k \in 0..N |-> IF k = 0 THEN <<>> ELSE After(h[k - 1], k)] BY <2>1, <2>2, Zenon
  <2> QED BY <1>1, <2>3
<1> DEFINE M == Windows!Merges(byStart)
<1>9. Is(M)
  <2>1. M = CHOOSE h : Is(h) BY DEF Windows!Merges, Next
  <2> HIDE DEF Is, M
  <2> QED BY <1>8, <2>1
<1>10. M[0] = <<>> BY <1>1, <1>9
<1>11. ASSUME NEW k \in Nat, k < N PROVE M[k + 1] = After(M[k], k + 1)
  <2>1. k + 1 \in 0..N /\ k + 1 # 0 /\ (k + 1) - 1 = k BY <1>11
  <2> QED BY <1>1, <1>9, <2>1
<1> HIDE DEF M, D
<1> DEFINE T == {k \in Nat : k <= N => M[k] \in D /\ (k > 0 => M[k] # <<>>)}
<1>12. 0 \in T BY <1>4, <1>10
<1>13. ASSUME NEW k \in Nat, k \in T PROVE k + 1 \in T
  <2>1. SUFFICES ASSUME k < N PROVE M[k + 1] \in D /\ M[k + 1] # <<>> OBVIOUS
  <2>2. M[k] \in D /\ k + 1 \in 1..N BY <1>13, <2>1
  <2> QED BY <1>2, <1>11, <2>1, <2>2
<1>14. Nat \subseteq T
  <2> HIDE DEF T
  <2> QED BY <1>12, <1>13, NaturalsInSet
<1> QED BY <1>1, <1>14 DEF M, D

(* What is merged are windows, and some if there were some. *)
LEMMA MergeTyped ==
  ASSUME NEW windows \in Seq(Regular)
  PROVE  /\ Windows!Merge(windows) \in Seq(Regular)
         /\ windows # <<>> => Windows!Merge(windows) # <<>>
<1> DEFINE byStart == Windows!Sorted(windows)
<1>1. byStart \in Seq(Regular) /\ Len(byStart) = Len(windows) BY SortedTyped
<1>2. PICK n \in Nat : n = Len(windows) OBVIOUS
<1>3. windows # <<>> => n > 0 BY <1>2, EmptySeq
<1>4. Windows!Merge(windows) = Windows!Merges(byStart)[n] BY <1>2 DEF Windows!Merge
<1> HIDE DEF byStart
<1> QED BY <1>1, <1>2, <1>3, <1>4, MergesTyped

(* The windows that flags name. *)
LEMMA LetterTyped ==
  ASSUME NEW start \in Int, NEW end \in Int,
         NEW days \in {Windows!AllDays, Windows!Weekdays, Windows!Weekends}
  PROVE  Windows!Letter(start, end, days) \in Regular
<1>1. PICK a \in Int : a = 30 * start OBVIOUS
<1>2. PICK b \in Int :
         b = IF end = 48 THEN Windows!DayLength - 1
             ELSE IF end < start THEN 30 * end + Windows!DayLength ELSE 30 * end
  BY DEF Windows!DayLength
<1>3. /\ days \subseteq Windows!AllDays
      /\ Windows!Weekdays \subseteq days \/ Windows!Weekends \subseteq days
  BY DEF Windows!AllDays, Windows!Weekdays, Windows!Weekends
<1>4. Windows!Letter(start, end, days)
      = [source |-> "T-flag", start |-> a, end |-> b, days |-> days]
  BY <1>1, <1>2 DEF Windows!Letter, Windows!Window
<1>5. "T-flag" \in Sources BY DEF Sources
<1>6. [source |-> "T-flag", start |-> a, end |-> b, days |-> days] \in Regular
  BY <1>3, <1>5 DEF Regular
<1> QED BY <1>4, <1>6

LEMMA TableTyped == \A x \in DOMAIN Windows!TIMSTable : Windows!TIMSTable[x] \in Regular
<1>1. \A s, e \in Int : \A d \in {Windows!AllDays, Windows!Weekdays, Windows!Weekends} :
         Windows!Letter(s, e, d) \in Regular
  BY LetterTyped
<1> QED BY <1>1 DEF Windows!TIMSTable

LEMMA EveryDay ==
  ASSUME NEW source \in Sources, NEW start \in Int, NEW end \in Int
  PROVE  Windows!Window(source, start, end, Windows!AllDays) \in Regular
BY DEF Regular, Windows!Window, Windows!AllDays, Windows!Weekdays, Windows!Weekends

LEMMA MailHourTyped ==
  ASSUME NEW zone \in Int
  PROVE  Windows!GetZMHWindow(zone) \in Regular
<1>1. \A h \in Int : 30 * h \in Int /\ 30 * h + 60 \in Int OBVIOUS
<1>2. \A h \in Int : Windows!Window("ZMH", 30 * h, 30 * h + 60, Windows!AllDays) \in Regular
  <2> SUFFICES ASSUME NEW h \in Int
               PROVE  Windows!Window("ZMH", 30 * h, 30 * h + 60, Windows!AllDays) \in Regular
    OBVIOUS
  <2>1. PICK a \in Int, b \in Int : a = 30 * h /\ b = 30 * h + 60 BY <1>1
  <2>2. Windows!Window("ZMH", a, b, Windows!AllDays) \in Regular
    <3>1. "ZMH" \in Sources BY DEF Sources
    <3> QED BY <3>1, EveryDay
  <2> QED BY <2>1, <2>2
<1>3. Windows!ZMHDefaults \in Seq(Regular) /\ Len(Windows!ZMHDefaults) = 6
  <2> DEFINE hour(h) == Windows!Window("ZMH", 30 * h, 30 * h + 60, Windows!AllDays)
  <2>1. Windows!ZMHDefaults = <<hour(18), hour(5), hour(36), hour(16), hour(5), hour(44)>>
    BY DEF Windows!ZMHDefaults
  <2>2. \A h \in Int : hour(h) \in Regular BY <1>2
  <2> HIDE DEF hour
  <2> QED BY <2>1, <2>2
<1>4. DOMAIN Windows!ZMHDefaults = 1..6
  <2> HIDE DEF Windows!ZMHDefaults
  <2> QED BY <1>3
<1>5. PICK k \in 1..6 : k = IF zone \in DOMAIN Windows!ZMHDefaults THEN zone ELSE 2 BY <1>4
<1>6. PICK s \in Seq(Regular) : s = Windows!ZMHDefaults /\ Len(s) = 6 BY <1>3
<1>7. s[k] \in Regular
  <2>1. k \in 1..Len(s) BY <1>6
  <2> QED BY <2>1
<1>8. Windows!GetZMHWindow(zone) = s[k] BY <1>5, <1>6 DEF Windows!GetZMHWindow
<1> QED BY <1>7, <1>8

(* A flag of a node: the letters of a T flag, the hour of a flag #nn. *)
IsFlag(f) ==
    /\ f.kind = "T" => f.letters \in Seq(STRING)
    /\ f.kind = "#" => f.hour \in Int

LEMMA WindowsOfTyped ==
  ASSUME NEW f, IsFlag(f)
  PROVE  Windows!WindowsOf(f) \in Seq(Regular)
<1>0. <<>> \in Seq(Regular) OBVIOUS
<1>1. CASE f.kind = "T"
  <2>1. f.letters \in Seq(STRING) BY <1>1 DEF IsFlag
  <2>2. PICK letters \in Seq(STRING) : letters = f.letters BY <2>1
  <2>3. Windows!WindowsOf(f) = Windows!ParseTFlag(letters) BY <1>1, <2>2 DEF Windows!WindowsOf
  <2> DEFINE named == [i \in DOMAIN letters |-> Windows!TIMSTable[letters[i]]]
             bad == letters = <<>> \/ \E i \in DOMAIN letters : letters[i] \notin DOMAIN Windows!TIMSTable
  <2>4. Windows!ParseTFlag(letters) = IF bad THEN <<>> ELSE <<Head(Windows!Merge(named))>>
    BY DEF Windows!ParseTFlag
  <2>5. CASE bad BY <1>0, <2>3, <2>4, <2>5
  <2>6. CASE ~bad
    <3>1. PICK n \in Nat : n = Len(letters) OBVIOUS
    <3>2. DOMAIN letters = 1..n /\ n > 0 BY <2>6, <3>1, EmptySeq
    <3>3. \A i \in 1..n : Windows!TIMSTable[letters[i]] \in Regular BY <2>6, <3>2, TableTyped
    <3>4. named \in [1..n -> Regular] BY <3>2, <3>3
    <3> HIDE DEF named
    <3>5. named \in Seq(Regular) /\ named # <<>> BY <3>2, <3>4
    <3>6. PICK m \in Seq(Regular) : m = Windows!Merge(named) /\ m # <<>> BY <3>5, MergeTyped
    <3>7. Head(m) \in Regular BY <3>6
    <3> HIDE DEF bad
    <3>8. Windows!WindowsOf(f) = <<Head(m)>> BY <2>3, <2>4, <2>6, <3>6
    <3> QED BY <3>7, <3>8
  <2> QED BY <2>5, <2>6
<1>2. CASE f.kind = "#"
  <2>1. PICK h \in Int : h = f.hour BY <1>2 DEF IsFlag
  <2>2. Windows!WindowsOf(f) = Windows!ParseNumberFlag(h)
    BY <1>2, <2>1 DEF Windows!WindowsOf
  <2>3. PICK w \in Regular : w = Windows!Window("#nn", 60 * h, 60 * h + 60, Windows!AllDays)
    <3>1. PICK a \in Int, b \in Int : a = 60 * h /\ b = 60 * h + 60 OBVIOUS
    <3>2. Windows!Window("#nn", a, b, Windows!AllDays) \in Regular
      <4>1. "#nn" \in Sources BY DEF Sources
      <4> QED BY <4>1, EveryDay
    <3> QED BY <3>1, <3>2
  <2>4. Windows!ParseNumberFlag(h) = IF h \in 0..23 THEN <<w>> ELSE <<>>
    BY <2>3 DEF Windows!ParseNumberFlag
  <2>5. <<w>> \in Seq(Regular) OBVIOUS
  <2> QED BY <1>0, <2>2, <2>4, <2>5
<1>3. CASE f.kind # "T" /\ f.kind # "#"
  <2>1. Windows!WindowsOf(f) = <<>> BY <1>3 DEF Windows!WindowsOf
  <2> QED BY <1>0, <2>1
<1> QED BY <1>1, <1>2, <1>3

(* Flags of a node and the windows they name, one after the other. *)
WindowsNamed(own) == [i \in DOMAIN own |-> Windows!WindowsOf(own[i])]

LEMMA NamedTyped ==
  ASSUME NEW Flags, \A f \in Flags : IsFlag(f), NEW own \in Seq(Flags)
  PROVE  Windows!FlattenSeq(WindowsNamed(own)) \in Seq(Regular)
<1>1. PICK n \in Nat : n = Len(own) OBVIOUS
<1>2. \A f \in Flags : Windows!WindowsOf(f) \in Seq(Regular) BY WindowsOfTyped
<1>3. PICK seqs \in Seq(Seq(Regular)) : seqs = WindowsNamed(own)
  <2>1. DOMAIN own = 1..n /\ \A i \in 1..n : own[i] \in Flags BY <1>1
  <2>2. \A i \in 1..n : Windows!WindowsOf(own[i]) \in Seq(Regular) BY <1>2, <2>1
  <2>3. WindowsNamed(own) \in [1..n -> Seq(Regular)] BY <2>1, <2>2 DEF WindowsNamed
  <2> QED BY <2>3
<1>4. Windows!FlattenSeq(seqs) = Client!FlattenSeq(seqs)
  BY DEF Windows!FlattenSeq, Client!FlattenSeq
<1>5. PICK f : Flattening(f, Regular, seqs) /\ Client!FlattenSeq(seqs) = f[Len(seqs)]
  BY FlattenSeqEquation
<1>6. f[Len(seqs)] \in Seq(Regular)
  <2>1. Len(seqs) \in 0..Len(seqs) BY <1>3
  <2> QED BY <1>5, <2>1 DEF Flattening
<1> QED BY <1>3, <1>4, <1>5, <1>6

LEMMA WindowsTyped ==
  ASSUME NEW Flags, \A f \in Flags : IsFlag(f), NEW own \in Seq(Flags),
         NEW zone \in Int, NEW pstn \in BOOLEAN
  PROVE  /\ Windows!ParseNodeFlags(own, zone, pstn).windows \in Seq(Regular)
         /\ Windows!ParseNodeFlags(own, zone, pstn).cm \in BOOLEAN
<1> DEFINE has(kind) == \E i \in DOMAIN own : own[i].kind = kind
           mail == IF has("ZMH") THEN <<Windows!GetZMHWindow(zone)>> ELSE <<>>
           explicit == Windows!FlattenSeq(WindowsNamed(own)) \o mail
           default == ~has("CM") /\ pstn /\ explicit = <<>>
<1>1. <<Windows!GetZMHWindow(zone)>> \in Seq(Regular)
  <2>1. PICK w \in Regular : w = Windows!GetZMHWindow(zone) BY MailHourTyped
  <2> QED BY <2>1
<1>2. mail \in Seq(Regular) BY <1>1
<1>3. Windows!FlattenSeq(WindowsNamed(own)) \in Seq(Regular) BY NamedTyped
<1>4. explicit \in Seq(Regular)
  <2> HIDE DEF mail
  <2> QED BY <1>2, <1>3
<1>5. Windows!ParseNodeFlags(own, zone, pstn)
      = [cm |-> has("CM"), icm |-> has("ICM"), default |-> default,
         windows |-> IF default THEN <<Windows!GetZMHWindow(zone)>> ELSE Windows!Merge(explicit)]
  BY DEF Windows!ParseNodeFlags, WindowsNamed
<1>6. has("CM") \in BOOLEAN OBVIOUS
<1> HIDE DEF explicit, default, has
<1>7. Windows!Merge(explicit) \in Seq(Regular) BY <1>4, MergeTyped
<1> QED BY <1>1, <1>5, <1>6, <1>7

(* A call that must wait waits for the first moment at which the node may be  *)
(* called, whatever its flags and its zone: the start that GetNextCallTime     *)
(* takes from the days ahead is the first one at which a window is open, and   *)
(* none is open before it (the last part of HoursKept).                        *)
THEOREM WaitsForTheFirst ==
  ASSUME NEW Flags, \A f \in Flags : IsFlag(f), NEW own \in Seq(Flags),
         NEW zone \in Int, NEW pstn \in BOOLEAN, NEW times \in SUBSET Int
  PROVE  Windows!FirstMoment(times, Windows!Availability(own, zone, pstn, times))
<1> DEFINE avail == Windows!ParseNodeFlags(own, zone, pstn)
           Told(t) == Windows!GetNextCallTime(avail, t)
           told == [avail |-> avail, next |-> [t \in times |-> Told(t)]]
           now(t) == Windows!IsCallableNow(avail, t)
           ahead(t) == Windows!Earliest(Windows!NextStarts(avail, t))
<1>1. Windows!Availability(own, zone, pstn, times) = told
  BY DEF Windows!Availability
<1>2. PICK windows \in Seq(Regular) : windows = avail.windows BY WindowsTyped
<1>3. avail.cm \in BOOLEAN BY WindowsTyped
<1>4. \A t : Told(t) = IF now(t) THEN [callable |-> TRUE, next |-> t]
                       ELSE [callable |-> FALSE, next |-> ahead(t)]
  BY DEF Windows!GetNextCallTime
<1>5. told.avail = avail /\ \A t \in times : told.next[t] = Told(t) OBVIOUS
<1>6. \A t : avail.cm \/ windows = <<>> => now(t)
  BY <1>2 DEF Windows!IsCallableNow
<1> HIDE DEF avail, Told, told
<1>7. SUFFICES ASSUME \A w \in Windows!ToSet(windows) :
                         Windows!ClockOf(w.start) # Windows!ClockOf(w.end),
                      NEW t \in times
               PROVE  LET next == Told(t).next
                      IN /\ next >= t /\ now(next)
                         /\ \A u \in times : t <= u /\ u < next => ~Told(u).callable
  BY <1>1, <1>2, <1>5 DEF Windows!FirstMoment
<1>8. Openable(windows)
  <2>1. Windows!ToSet(windows) = ToSet(windows) BY DEF ToSet, Windows!ToSet
  <2> QED BY <1>7, <2>1, WindowsAre DEF Openable
<1>9. t \in Int /\ times \subseteq Int OBVIOUS
<1>10. CASE now(t)
  <2>1. Told(t).next = t BY <1>4, <1>10
  <2> HIDE DEF now
  <2> QED BY <1>9, <1>10, <2>1
<1>11. CASE ~now(t)
  <2>1. avail.cm = FALSE /\ windows # <<>> BY <1>3, <1>6, <1>11
  <2>2. PICK next \in Int : next = ahead(t) /\ next >= t /\ now(next)
                            /\ \A u \in Int : t <= u /\ u < next => ~now(u)
    BY <1>2, <1>8, <1>9, <1>11, <2>1, SoonestCall
  <2>3. Told(t).next = next BY <1>4, <1>11, <2>2
  <2>4. \A u : ~now(u) => ~Told(u).callable
    <3> HIDE DEF now
    <3> QED BY <1>4
  <2> HIDE DEF now
  <2> QED BY <1>9, <2>2, <2>3, <2>4
<1> QED BY <1>10, <1>11
=============================================================================
