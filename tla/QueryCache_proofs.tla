------------------------- MODULE QueryCache_proofs -------------------------
(***************************************************************************)
(* Theorems about the query cache for any requests, keys, times to live    *)
(* and number of inserts.  That a reset meets no reader is inductive as it *)
(* stands.  What can be served needs to know where answers are on their    *)
(* way into the cache, and what a sweep that has collected has missed.     *)
(***************************************************************************)
EXTENDS QueryCache, SequenceTheorems, TLAPS

(* The lock. *)
LEMMA ExclusionStep == ResetExcludesReaders /\ [Next]_vars => ResetExcludesReaders'
<1> SUFFICES ASSUME ResetExcludesReaders, [Next]_vars PROVE ResetExcludesReaders'
  OBVIOUS
<1> USE DEF ResetExcludesReaders, HeldForReading, HeldForWriting, requestVars, sweepVars,
            budgetVars, gcUnchanged, closerUnchanged
<1>1. ASSUME NEW r \in Request, Call(r) \/ RequestStep(r) PROVE ResetExcludesReaders'
  <2>1. CASE RLock(r)
    BY <2>1 DEF RLock, RLockFree, Goto
  <2>2. CASE Call(r) \/ Get(r) \/ DeleteExpired(r) \/ Fetch(r) \/ Set(r)
    <3>1. UNCHANGED <<backend, inv, gc, closer>>
      BY <2>2 DEF Call, Get, DeleteExpired, Fetch, Set
    <3>2. PICK s \in RequestState : pc' = [pc EXCEPT ![r] = s]
                                    /\ (s \in {"get", "set"} => backend # "badger")
      BY <2>2 DEF Call, Get, DeleteExpired, Fetch, Set, Goto, Return, RequestState
    <3> QED
      BY <3>1, <3>2
  <2> QED
    BY <1>1, <2>1, <2>2 DEF RequestStep
<1>2. CASE InsertNodes \/ SweepStep
  BY <1>2 DEF InsertNodes, SweepStep, RLockSweep, Collect, Delete, SweepMap, Swept, RLockFree
<1>3. CASE GcStep \/ EvictExpired
  BY <1>3 DEF GcStep, EvictExpired, GcStop, ApplyDiskBudget, LockForReset, LockFree, DropAll,
              DropAllFails, UpdateSizeMetrics
<1>4. CASE Close \/ CloseStep
  BY <1>4 DEF Close, CloseStep, AwaitGc, CloseDB, LockFree
<1>5. CASE Tick
  BY <1>5 DEF Tick
<1>6. CASE Restart
  BY <1>6 DEF Restart
<1>7. CASE UNCHANGED vars
  BY <1>7 DEF vars
<1> QED
  BY <1>1, <1>2, <1>3, <1>4, <1>5, <1>6, <1>7 DEF Next

(* Nothing reads Badger while it is dropped or closed. *)
THEOREM ExclusionCorrect == Spec => []ResetExcludesReaders
<1>1. Init => ResetExcludesReaders
  BY DEF Init, ResetExcludesReaders, HeldForReading, HeldForWriting
<1> QED
  BY <1>1, ExclusionStep, PTL DEF Spec

-----------------------------------------------------------------------------
(* The parts of TypeOK. *)
RequestType ==
    /\ pc \in [Request -> RequestState]
    /\ key \in [Request -> Key \cup {None}]
    /\ answer \in [Request -> Answer \cup {None}]
SweepType ==
    /\ inv \in {"idle", "next", "collect", "delete"}
    /\ sweep \in Seq(Families) /\ found \in SUBSET Key
    /\ begun \in 0..MaxInserts /\ swept \in [Families -> 0..MaxInserts]
BudgetType ==
    /\ admissionBlocked \in BOOLEAN /\ overBudgetTicks \in 0..ResetAfterTicks
    /\ admissionBlocked <=> overBudgetTicks > 0
OtherType ==
    /\ backend \in Backends /\ cache \in [Key -> Entry \cup {None}]
    /\ gc \in {"wait", "lock", "drop", "scan", "exited"}
    /\ closer \in {"open", "stopping", "lock", "close", "closed"}

LEMMA TypeParts == TypeOK <=> RequestType /\ SweepType /\ BudgetType /\ OtherType
BY Zenon DEF TypeOK, RequestType, SweepType, BudgetType, OtherType

(* Answers on their way: a request that is to store has an answer, of which   *)
(* the time to live is not zero.                                              *)
InFill(r) == pc[r] \in {"rlockSet", "set"}
FillSound ==
    \A r \in Request :
        /\ pc[r] # "idle" => key[r] \in Key
        /\ InFill(r) => answer[r] \in Answer /\ TtlOf(key[r], answer[r].rows) > 0

(* Of an entry that is not served the key is left. *)
EntrySound(e, k) ==
    e # None =>
        /\ e.left = 0 => e = Expired
        /\ e.left > 0 => e.age + e.left <= MaxFill + TtlOf(k, e.rows) /\ e.epoch >= swept[Family[k]]
CacheSound == \A k \in Key : EntrySound(cache[k], k)

(* A sweep under way: what it has not found was written after its insert.     *)
SweepSound ==
    /\ inv # "idle" => sweep # <<>>
    /\ \A f \in Families : swept[f] <= begun
    /\ inv = "delete" =>
          \A k \in Key : Live(k) /\ Family[k] = Head(sweep) => k \in found \/ cache[k].epoch = begun

ServedInv == TypeOK /\ FillSound /\ CacheSound /\ SweepSound

LEMMA ServedInvImplies == ASSUME ServedInv PROVE ServedSound
BY DEF ServedInv, ServedSound, AgeBounded, SweepReaches, CacheSound, EntrySound, Live

LEMMA PrefixesType == ASSUME NEW recent PROVE PrefixesOf(recent) \in Seq(Families)
<1>1. \A f \in Families : Keyed(f) \in Seq(Families)
  BY DEF Keyed
<1>2. Keyed("stats") \o Keyed("search") \in Seq(Families)
  BY <1>1, ConcatProperties DEF Families
<1>3. Keyed("stats") \o Keyed("search") \o Keyed("dates") \in Seq(Families)
  BY <1>1, <1>2, ConcatProperties DEF Families
<1>4. Keyed("stats") \o Keyed("search") \o Keyed("dates") \o Keyed("analytics") \in Seq(Families)
  BY <1>1, <1>3, ConcatProperties DEF Families
<1>5. (IF recent THEN Keyed("sysops") ELSE <<>>) \in Seq(Families)
  BY <1>1 DEF Families
<1> QED
  BY <1>4, <1>5, ConcatProperties DEF PrefixesOf

LEMMA TtlType ==
    ASSUME QueryCacheAssumption, NEW k \in Key, NEW rows \in BOOLEAN
    PROVE  TtlOf(k, rows) \in Nat
BY DEF TtlOf, QueryCacheAssumption

LEMMA ServedInit == ASSUME QueryCacheAssumption, Init PROVE ServedInv
<1> USE DEF QueryCacheAssumption
<1>1. RequestType /\ SweepType /\ OtherType
  BY EmptySeq DEF Init, RequestType, SweepType, OtherType, RequestState
<1>3. BudgetType
  <2>1. 0 \in 0..ResetAfterTicks /\ ~(0 > 0)
    OBVIOUS
  <2> QED
    BY <2>1, Zenon DEF Init, BudgetType
<1>2. FillSound /\ CacheSound /\ SweepSound
  BY DEF Init, FillSound, InFill, CacheSound, EntrySound, SweepSound
<1> QED
  BY <1>1, <1>2, <1>3, TypeParts DEF ServedInv

LEMMA BudgetKept ==
    ASSUME TypeOK, UNCHANGED budgetVars PROVE BudgetType'
BY TypeParts, Zenon DEF BudgetType, budgetVars

LEMMA TypePartsNext ==
    ASSUME RequestType', SweepType', BudgetType', OtherType' PROVE TypeOK'
BY Zenon DEF TypeOK, RequestType, SweepType, BudgetType, OtherType

(* Requests. *)
LEMMA RequestKeeps ==
    ASSUME QueryCacheAssumption, ServedInv, NEW r \in Request, Call(r) \/ RequestStep(r)
    PROVE  ServedInv'
<1> USE DEF QueryCacheAssumption
<1>1. /\ TypeOK /\ FillSound /\ CacheSound /\ SweepSound
      /\ RequestType /\ SweepType /\ OtherType
  BY TypeParts DEF ServedInv
<1>2. ASSUME UNCHANGED cache, UNCHANGED <<backend, sweepVars, budgetVars, gc, closer>>
      PROVE  CacheSound' /\ SweepSound'
  BY <1>1, <1>2 DEF CacheSound, EntrySound, SweepSound, Live, sweepVars, TtlOf
<1>3. CASE Call(r) \/ RLock(r) \/ Get(r) \/ Fetch(r)
  <2>1. UNCHANGED cache /\ UNCHANGED <<backend, sweepVars, budgetVars, gc, closer>>
    BY <1>3 DEF Call, RLock, Get, Fetch
  <2>2. TypeOK'
    <3>1. RequestType'
      BY <1>1, <1>3 DEF RequestType, Call, RLock, Get, Fetch, Goto, Return, RequestState, Answer
    <3>2. SweepType' /\ OtherType'
      BY <1>1, <2>1 DEF SweepType, OtherType, sweepVars
    <3> QED
      BY <1>1, <2>1, <3>1, <3>2, BudgetKept, TypePartsNext
  <2>3. FillSound'
    <3>1. CASE Call(r)
      BY <1>1, <3>1 DEF RequestType, FillSound, InFill, Call, Goto, TtlOf
    <3>2. CASE RLock(r)
      BY <1>1, <3>2 DEF RequestType, FillSound, InFill, RLock, Goto, TtlOf
    <3>3. CASE Get(r)
      BY <1>1, <3>3 DEF RequestType, FillSound, InFill, Get, Goto, Return, TtlOf
    <3>4. CASE Fetch(r)
      <4>1. key[r] \in Key
        BY <1>1, <3>4 DEF FillSound, Fetch
      <4>2. CASE Return(r)
        BY <1>1, <4>2 DEF RequestType, FillSound, InFill, Goto, Return, TtlOf
      <4>3. CASE ~Return(r)
        <5>1. PICK rows \in BOOLEAN :
                /\ rows \/ EmptyTtl[key[r]] > 0
                /\ answer' = [answer EXCEPT ![r] = [rows |-> rows, age |-> 0]]
          BY <3>4, <4>3 DEF Fetch
        <5> DEFINE a == [rows |-> rows, age |-> 0]
        <5>2. a \in Answer /\ TtlOf(key[r], a.rows) > 0
          BY <4>1, <5>1 DEF Answer, TtlOf
        <5>3. UNCHANGED key /\ \A q \in Request : answer'[q] = IF q = r THEN a ELSE answer[q]
          BY <1>1, <3>4, <4>3, <5>1 DEF Fetch, RequestType
        <5>4. PICK s \in RequestState : pc' = [pc EXCEPT ![r] = s] /\ pc[r] = "fetch"
          BY <3>4, <4>3 DEF Fetch, Goto, RequestState
        <5> HIDE DEF a
        <5> QED
          BY <1>1, <4>1, <5>2, <5>3, <5>4 DEF RequestType, FillSound, InFill, TtlOf
      <4> QED
        BY <4>2, <4>3
    <3> QED
      BY <1>3, <3>1, <3>2, <3>3, <3>4
  <2> QED
    BY <1>2, <2>1, <2>2, <2>3 DEF ServedInv
<1>4. CASE DeleteExpired(r)
  <2>1. key[r] \in Key
    BY <1>1, <1>4 DEF FillSound, DeleteExpired
  <2>2. cache' = [cache EXCEPT ![key[r]] = None] /\ UNCHANGED <<sweepVars, key, answer>>
    BY <1>4 DEF DeleteExpired
  <2>3. TypeOK'
    <3>1. RequestType' /\ SweepType' /\ OtherType'
      BY <1>1, <1>4, <2>1 DEF RequestType, SweepType, OtherType, DeleteExpired, Goto,
                              RequestState, sweepVars
    <3> QED
      BY <1>1, <1>4, <3>1, BudgetKept, TypePartsNext DEF DeleteExpired
  <2>4. FillSound'
    BY <1>1, <1>4 DEF TypeOK, FillSound, InFill, DeleteExpired, Goto, TtlOf
  <2>5. CacheSound' /\ SweepSound'
    BY <1>1, <2>1, <2>2 DEF TypeOK, CacheSound, EntrySound, SweepSound, Live, sweepVars, TtlOf
  <2> QED
    BY <2>3, <2>4, <2>5 DEF ServedInv
<1>5. CASE Set(r)
  <2>1. /\ key[r] \in Key /\ answer[r] \in Answer
        /\ TtlOf(key[r], answer[r].rows) > 0 /\ TtlOf(key[r], answer[r].rows) \in Nat
    BY <1>1, <1>5, TtlType DEF FillSound, InFill, Set, Answer
  <2> DEFINE e == EntryOf(key[r], answer[r])
  <2>2. /\ e \in Entry /\ e.left > 0 /\ e.epoch = begun
        /\ e.age + e.left <= MaxFill + TtlOf(key[r], e.rows)
    BY <1>1, <2>1 DEF EntryOf, Entry, Answer, TypeOK
  <2>3. cache' = cache \/ cache' = [cache EXCEPT ![key[r]] = e]
    BY <1>5 DEF Set
  <2>4. UNCHANGED <<backend, sweepVars, budgetVars, gc, closer>> /\ Return(r)
    BY <1>5 DEF Set
  <2> HIDE DEF e
  <2>5. TypeOK'
    <3>1. RequestType' /\ SweepType'
      BY <1>1, <2>4 DEF RequestType, SweepType, Return, Goto, RequestState, sweepVars
    <3>2. OtherType'
      BY <1>1, <2>2, <2>3, <2>4 DEF OtherType
    <3> QED
      BY <1>1, <2>4, <3>1, <3>2, BudgetKept, TypePartsNext
  <2>6. FillSound'
    BY <1>1, <2>4 DEF TypeOK, FillSound, InFill, Return, Goto, TtlOf
  <2>7. CacheSound' /\ SweepSound'
    <3>1. CASE cache' = cache
      BY <1>2, <2>4, <3>1
    <3>2. CASE cache' = [cache EXCEPT ![key[r]] = e]
      <4>1. \A k \in Key : cache'[k] = IF k = key[r] THEN e ELSE cache[k]
        BY <1>1, <2>1, <3>2 DEF TypeOK
      <4>2. swept[Family[key[r]]] <= begun
        BY <1>1, <2>1 DEF SweepSound
      <4>3. CacheSound'
        BY <1>1, <2>1, <2>2, <2>4, <4>1, <4>2 DEF CacheSound, EntrySound, sweepVars, TtlOf
      <4>4. SweepSound'
        BY <1>1, <2>2, <2>4, <4>1 DEF SweepSound, Live, sweepVars
      <4> QED
        BY <4>3, <4>4
    <3> QED
      BY <2>3, <3>1, <3>2
  <2> QED
    BY <2>5, <2>6, <2>7 DEF ServedInv
<1> QED
  BY <1>3, <1>4, <1>5 DEF RequestStep

(* The sweep. *)
LEMMA SweepKeeps ==
    ASSUME QueryCacheAssumption, ServedInv, InsertNodes \/ SweepStep
    PROVE  ServedInv'
<1> USE DEF QueryCacheAssumption
<1>1. /\ TypeOK /\ FillSound /\ CacheSound /\ SweepSound
      /\ RequestType /\ SweepType /\ OtherType
  BY TypeParts DEF ServedInv
<1>2. UNCHANGED <<backend, requestVars, budgetVars, gc, closer>>
  BY DEF InsertNodes, SweepStep, RLockSweep, Collect, Delete, SweepMap, Swept
<1>3. RequestType' /\ BudgetType' /\ FillSound'
  BY <1>1, <1>2, BudgetKept DEF RequestType, FillSound, InFill, requestVars, TtlOf
<1>4. ASSUME SweepType', cache' \in [Key -> Entry \cup {None}], CacheSound', SweepSound'
      PROVE  ServedInv'
  <2>1. OtherType'
    BY <1>1, <1>2, <1>4 DEF OtherType
  <2> QED
    BY <1>3, <1>4, <2>1, TypePartsNext DEF ServedInv
<1>5. CASE InsertNodes
  <2>1. PICK recent \in BOOLEAN : sweep' = PrefixesOf(recent)
    BY <1>5 DEF InsertNodes
  <2>2. sweep' \in Seq(Families)
    BY <2>1, PrefixesType
  <2>3. /\ inv = "idle" /\ begun' = begun + 1 /\ begun' \in 0..MaxInserts
        /\ inv' = (IF sweep' = <<>> THEN "idle" ELSE "next") /\ UNCHANGED <<cache, found, swept>>
    BY <1>1, <1>5 DEF InsertNodes, SweepType
  <2>4. SweepType' /\ cache' \in [Key -> Entry \cup {None}]
    BY <1>1, <2>2, <2>3 DEF SweepType, OtherType
  <2>5. CacheSound'
    BY <1>1, <2>3 DEF CacheSound, EntrySound, TtlOf
  <2>6. SweepSound'
    BY <1>1, <2>3 DEF SweepSound, SweepType
  <2> QED
    BY <1>4, <2>4, <2>5, <2>6
<1>6. CASE RLockSweep
  <2>1. inv = "next" /\ inv' = "collect" /\ UNCHANGED <<cache, sweep, found, begun, swept>>
    BY <1>6 DEF RLockSweep
  <2> QED
    BY <1>1, <1>4, <2>1 DEF SweepType, OtherType, CacheSound, EntrySound, SweepSound, TtlOf
<1>7. ASSUME NEW ok \in BOOLEAN, Swept(ok), inv # "idle", NEW gone \in SUBSET Key,
             cache' = [k \in Key |-> IF k \in gone THEN None ELSE cache[k]],
             ok => \A k \in Key \ gone :
                      Live(k) /\ Family[k] = Head(sweep) => cache[k].epoch = begun
      PROVE  ServedInv'
  <2>1. sweep # <<>> /\ Head(sweep) \in Families /\ Tail(sweep) \in Seq(Families)
    BY <1>1, <1>7, HeadTailProperties DEF SweepSound, SweepType
  <2>2. /\ sweep' = Tail(sweep) /\ found' = {} /\ begun' = begun
        /\ inv' = (IF Tail(sweep) = <<>> THEN "idle" ELSE "next")
        /\ swept' = IF ok THEN [swept EXCEPT ![Head(sweep)] = begun] ELSE swept
    BY <1>7 DEF Swept
  <2>3. \A f \in Families : swept'[f] = IF ok /\ f = Head(sweep) THEN begun ELSE swept[f]
    BY <1>1, <2>1, <2>2 DEF SweepType
  <2>4. SweepType'
    BY <1>1, <2>1, <2>2 DEF SweepType
  <2>5. cache' \in [Key -> Entry \cup {None}]
    BY <1>1, <1>7 DEF OtherType
  <2>6. SweepSound'
    BY <1>1, <2>2, <2>3 DEF SweepSound, SweepType
  <2>7. CacheSound'
    <3> SUFFICES ASSUME NEW k \in Key, k \notin gone, cache[k] # None
                 PROVE  EntrySound(cache[k], k)'
      BY <1>7 DEF CacheSound, EntrySound
    <3>1. cache'[k] = cache[k] /\ EntrySound(cache[k], k)
      BY <1>1, <1>7 DEF CacheSound
    <3>2. cache[k].left > 0 => cache[k].epoch >= swept'[Family[k]]
      <4>1. CASE ok /\ Family[k] = Head(sweep)
        <5>1. swept'[Family[k]] = begun /\ begun \in Nat
          BY <1>1, <2>3, <4>1 DEF SweepType
        <5>2. cache[k].left > 0 => cache[k].epoch = begun
          BY <1>7, <4>1 DEF Live
        <5> QED
          BY <5>1, <5>2
      <4>2. CASE ~(ok /\ Family[k] = Head(sweep))
        BY <2>3, <3>1, <4>2 DEF EntrySound
      <4> QED
        BY <4>1, <4>2
    <3> QED
      BY <3>1, <3>2 DEF EntrySound, TtlOf
  <2> QED
    BY <1>4, <2>4, <2>5, <2>6, <2>7
<1>8. CASE Collect
  <2>1. CASE Swept(FALSE) /\ UNCHANGED cache
    <3>1. cache' = [k \in Key |-> IF k \in {} THEN None ELSE cache[k]]
      BY <1>1, <2>1 DEF OtherType
    <3>2. {} \in SUBSET Key /\ FALSE \in BOOLEAN /\ inv # "idle"
      BY <1>8 DEF Collect
    <3> QED
      BY <1>7, <2>1, <3>1, <3>2, Zenon
  <2>2. CASE ~(Swept(FALSE) /\ UNCHANGED cache)
    <3>1. /\ inv = "collect" /\ inv' = "delete" /\ UNCHANGED <<cache, sweep, begun, swept>>
          /\ found' = {k \in Key : Live(k) /\ Family[k] = Head(sweep)}
      BY <1>8, <2>2 DEF Collect
    <3>2. SweepType' /\ cache' \in [Key -> Entry \cup {None}]
      BY <1>1, <3>1 DEF SweepType, OtherType
    <3>3. CacheSound' /\ SweepSound'
      BY <1>1, <3>1 DEF CacheSound, EntrySound, SweepSound, Live, TtlOf
    <3> QED
      BY <1>4, <3>2, <3>3
  <2> QED
    BY <2>1, <2>2
<1>9. CASE Delete
  <2>1. inv = "delete" /\ found \in SUBSET Key
    BY <1>1, <1>9 DEF Delete, SweepType
  <2>2. CASE Swept(TRUE) /\ cache' = [k \in Key |-> IF k \in found THEN None ELSE cache[k]]
    BY <1>1, <1>7, <2>1, <2>2 DEF SweepSound
  <2>3. CASE Swept(FALSE) /\ UNCHANGED cache
    <3>1. cache' = [k \in Key |-> IF k \in {} THEN None ELSE cache[k]]
      BY <1>1, <2>3 DEF OtherType
    <3>2. {} \in SUBSET Key /\ FALSE \in BOOLEAN /\ inv # "idle"
      BY <2>1
    <3> QED
      BY <1>7, <2>3, <3>1, <3>2, Zenon
  <2> QED
    BY <1>9, <2>2, <2>3 DEF Delete
<1>10. CASE SweepMap
  <2> DEFINE gone == {k \in Key : Family[k] = Head(sweep)}
  <2>1. cache' = [k \in Key |-> IF k \in gone THEN None ELSE cache[k]]
    BY <1>10 DEF SweepMap
  <2>2. inv = "next" /\ Swept(TRUE)
    BY <1>10 DEF SweepMap
  <2> QED
    BY <1>7, <2>1, <2>2
<1> QED
  BY <1>5, <1>6, <1>8, <1>9, <1>10 DEF SweepStep

(* Entries go away: the goroutine, a reset. *)
LEMMA GcKeeps ==
    ASSUME QueryCacheAssumption, ServedInv, GcStep \/ EvictExpired
    PROVE  ServedInv'
<1> USE DEF QueryCacheAssumption
<1>1. /\ TypeOK /\ FillSound /\ CacheSound /\ SweepSound
      /\ RequestType /\ SweepType /\ OtherType /\ BudgetType
  BY TypeParts DEF ServedInv
<1>2. UNCHANGED <<backend, requestVars, sweepVars, closer>>
  BY DEF GcStep, EvictExpired, GcStop, ApplyDiskBudget, LockForReset, DropAll, DropAllFails,
         UpdateSizeMetrics, gcUnchanged
<1>3. RequestType' /\ SweepType' /\ FillSound'
  BY <1>1, <1>2 DEF RequestType, SweepType, FillSound, InFill, requestVars, sweepVars, TtlOf
<1>4. PICK gone \in SUBSET Key : cache' = [k \in Key |-> IF k \in gone THEN None ELSE cache[k]]
  <2>1. CASE UNCHANGED cache
    <3>1. cache' = [k \in Key |-> IF k \in {} THEN None ELSE cache[k]]
      BY <1>1, <2>1 DEF OtherType
    <3>2. {} \in SUBSET Key
      OBVIOUS
    <3> QED
      BY <3>1, <3>2
  <2>2. CASE EvictExpired
    <3>1. cache' = [k \in Key |-> IF k \in {c \in Key : ~Live(c)} THEN None ELSE cache[k]]
      BY <2>2 DEF EvictExpired
    <3> QED
      BY <3>1
  <2>3. CASE DropAll
    <3>1. cache' = [k \in Key |-> IF k \in Key THEN None ELSE cache[k]]
      BY <2>3 DEF DropAll
    <3> QED
      BY <3>1
  <2>4. CASE DropAllFails
    BY <2>4 DEF DropAllFails
  <2> QED
    BY <2>1, <2>2, <2>3, <2>4 DEF GcStep, GcStop, ApplyDiskBudget, LockForReset, UpdateSizeMetrics
<1>5. CacheSound' /\ SweepSound'
  BY <1>1, <1>2, <1>4 DEF CacheSound, EntrySound, SweepSound, Live, sweepVars, TtlOf
<1>6. gc' \in {"wait", "lock", "drop", "scan", "exited"}
  BY <1>1 DEF OtherType, GcStep, EvictExpired, GcStop, ApplyDiskBudget, LockForReset, DropAll,
              DropAllFails, UpdateSizeMetrics
<1>7. OtherType'
  BY <1>1, <1>2, <1>4, <1>6 DEF OtherType
<1>8. BudgetType'
  <2>1. CASE UNCHANGED budgetVars
    BY <1>1, <2>1, BudgetKept
  <2>2. CASE admissionBlocked' = FALSE /\ overBudgetTicks' = 0
    <3>1. 0 \in 0..ResetAfterTicks /\ ~(0 > 0)
      OBVIOUS
    <3> QED
      BY <2>2, <3>1, Zenon DEF BudgetType
  <2>3. CASE admissionBlocked' = TRUE /\ overBudgetTicks' = 1
    <3>1. 1 \in 0..ResetAfterTicks /\ 1 > 0
      OBVIOUS
    <3> QED
      BY <2>3, <3>1, Zenon DEF BudgetType
  <2>4. CASE admissionBlocked /\ UNCHANGED admissionBlocked
             /\ overBudgetTicks' = IF overBudgetTicks < ResetAfterTicks
                                   THEN overBudgetTicks + 1 ELSE ResetAfterTicks
    <3>1. overBudgetTicks' \in 0..ResetAfterTicks /\ overBudgetTicks' > 0
      BY <1>1, <2>4 DEF BudgetType
    <3> QED
      BY <1>1, <2>4, <3>1, Zenon DEF BudgetType
  <2>5. CASE ApplyDiskBudget
    BY <2>1, <2>2, <2>3, <2>4, <2>5, Zenon DEF ApplyDiskBudget, budgetVars
  <2>6. CASE DropAll
    BY <2>2, <2>6, Zenon DEF DropAll
  <2> QED
    BY <2>1, <2>5, <2>6 DEF GcStep, EvictExpired, GcStop, LockForReset, DropAllFails,
                            UpdateSizeMetrics
<1> QED
  BY <1>3, <1>5, <1>7, <1>8, TypePartsNext DEF ServedInv

(* Time, and a restart. *)
LEMMA OlderSound ==
    ASSUME QueryCacheAssumption, NEW k \in Key, NEW e \in Entry \cup {None}, EntrySound(e, k)
    PROVE  /\ Older(e) \in Entry \cup {None} /\ EntrySound(Older(e), k)
           /\ Older(e) # None /\ Older(e).left > 0 =>
                 e # None /\ e.left > 0 /\ Older(e).epoch = e.epoch
<1> USE DEF QueryCacheAssumption
<1>1. Expired \in Entry /\ Expired.left = 0
  BY DEF Expired, Entry
<1>2. CASE e = None \/ e = Expired
  BY <1>1, <1>2 DEF Older, EntrySound
<1>3. CASE e # None /\ e # Expired
  <2>1. e \in Entry /\ e.left > 0 /\ e.left \in Nat /\ e.age \in Nat
    BY <1>3 DEF EntrySound, Entry
  <2>2. CASE e.left = 1
    BY <1>1, <1>3, <2>2 DEF Older, EntrySound
  <2>3. CASE e.left # 1
    <3>1. Older(e) = [e EXCEPT !.age = e.age + 1, !.left = e.left - 1]
      BY <1>3, <2>3 DEF Older
    <3>2. e.age + 1 \in Nat /\ e.left - 1 \in Nat /\ e.left - 1 > 0
      BY <2>1, <2>3
    <3>3. /\ Older(e) \in Entry /\ Older(e).age = e.age + 1 /\ Older(e).left = e.left - 1
          /\ Older(e).rows = e.rows /\ Older(e).epoch = e.epoch
      BY <2>1, <3>1, <3>2 DEF Entry
    <3>4. e.age + e.left <= MaxFill + TtlOf(k, e.rows) /\ e.epoch >= swept[Family[k]]
      BY <1>3, <2>1 DEF EntrySound
    <3>5. EntrySound(Older(e), k)
      BY <2>1, <3>2, <3>3, <3>4 DEF EntrySound
    <3> QED
      BY <1>3, <2>1, <3>3, <3>5
  <2> QED
    BY <2>2, <2>3
<1> QED
  BY <1>2, <1>3

LEMMA TickKeeps ==
    ASSUME QueryCacheAssumption, ServedInv, Tick
    PROVE  ServedInv'
<1> USE DEF QueryCacheAssumption
<1>1. /\ TypeOK /\ FillSound /\ CacheSound /\ SweepSound
      /\ RequestType /\ SweepType /\ OtherType
  BY TypeParts DEF ServedInv
<1>2. /\ cache' = [k \in Key |-> Older(cache[k])]
      /\ UNCHANGED <<backend, pc, key, sweepVars, budgetVars, gc, closer>>
  BY DEF Tick
<1>3. ASSUME NEW r \in Request
      PROVE  /\ answer'[r] \in Answer \cup {None}
             /\ answer[r] \in Answer => answer'[r] \in Answer /\ answer'[r].rows = answer[r].rows
  <2>1. answer'[r] = IF answer[r] = None THEN None ELSE [answer[r] EXCEPT !.age = @ + 1]
    BY DEF Tick
  <2>2. CASE answer[r] = None
    BY <2>1, <2>2
  <2>3. CASE answer[r] # None
    <3>1. answer[r] \in Answer /\ answer[r].age \in 0..MaxFill /\ answer[r].age < MaxFill
      BY <1>1, <2>3 DEF RequestType, Answer, Tick
    <3>2. answer[r].age + 1 \in 0..MaxFill
      BY <3>1
    <3> QED
      BY <2>1, <2>3, <3>1, <3>2 DEF Answer
  <2> QED
    BY <2>2, <2>3
<1>4. answer' = [r \in Request |-> answer'[r]]
  BY DEF Tick
<1>5. RequestType' /\ FillSound'
  BY <1>1, <1>2, <1>3, <1>4 DEF RequestType, FillSound, InFill, TtlOf
<1>6. \A k \in Key :
        /\ cache'[k] \in Entry \cup {None} /\ EntrySound(cache'[k], k)
        /\ cache'[k] # None /\ cache'[k].left > 0 =>
              cache[k] # None /\ cache[k].left > 0 /\ cache'[k].epoch = cache[k].epoch
  BY <1>1, <1>2, OlderSound DEF OtherType, CacheSound
<1>7. SweepType' /\ OtherType'
  BY <1>1, <1>2, <1>6 DEF SweepType, OtherType, sweepVars
<1>8. CacheSound'
  BY <1>2, <1>6 DEF CacheSound, EntrySound, sweepVars, TtlOf
<1>9. SweepSound'
  BY <1>1, <1>2, <1>6 DEF SweepSound, Live, sweepVars
<1> QED
  BY <1>1, <1>2, <1>5, <1>7, <1>8, <1>9, BudgetKept, TypePartsNext DEF ServedInv

LEMMA RestartKeeps ==
    ASSUME QueryCacheAssumption, ServedInv, Restart
    PROVE  ServedInv'
<1> USE DEF QueryCacheAssumption
<1>1. /\ TypeOK /\ FillSound /\ CacheSound /\ SweepSound
      /\ RequestType /\ SweepType /\ OtherType
  BY TypeParts DEF ServedInv
<1>2. RequestType' /\ SweepType' /\ OtherType'
  BY <1>1, EmptySeq DEF Restart, RequestType, SweepType, OtherType, RequestState
<1>3. BudgetType'
  <2>1. 0 \in 0..ResetAfterTicks /\ ~(0 > 0)
    OBVIOUS
  <2> QED
    BY <2>1, Zenon DEF Restart, BudgetType
<1>4. FillSound' /\ CacheSound' /\ SweepSound'
  BY <1>1 DEF Restart, FillSound, InFill, CacheSound, EntrySound, SweepSound, TtlOf
<1> QED
  BY <1>2, <1>3, <1>4, TypePartsNext DEF ServedInv

LEMMA RestKeeps ==
    ASSUME QueryCacheAssumption, ServedInv, Close \/ CloseStep \/ UNCHANGED vars
    PROVE  ServedInv'
<1>1. /\ TypeOK /\ FillSound /\ CacheSound /\ SweepSound
      /\ RequestType /\ SweepType /\ OtherType
  BY TypeParts DEF ServedInv
<1>2. UNCHANGED <<backend, cache, requestVars, sweepVars, budgetVars, gc>>
  BY DEF Close, CloseStep, AwaitGc, CloseDB, closerUnchanged, vars
<1>3. RequestType' /\ SweepType'
  BY <1>1, <1>2 DEF RequestType, SweepType, requestVars, sweepVars
<1>4. OtherType'
  BY <1>1, <1>2 DEF OtherType, Close, CloseStep, AwaitGc, CloseDB, vars
<1>5. FillSound' /\ CacheSound' /\ SweepSound'
  BY <1>1, <1>2 DEF FillSound, InFill, CacheSound, EntrySound, SweepSound, Live, TtlOf,
                    requestVars, sweepVars
<1> QED
  BY <1>1, <1>2, <1>3, <1>4, <1>5, BudgetKept, TypePartsNext DEF ServedInv

LEMMA ServedStep == ServedInv /\ [Next]_vars => ServedInv'
BY QueryCacheAssumption, RequestKeeps, SweepKeeps, GcKeeps, TickKeeps, RestartKeeps, RestKeeps
   DEF Next

(* However fills, sweeps, resets and restarts interleave: what can be served  *)
(* has a bounded age, and no sweep that went well should have removed it.     *)
THEOREM ServedCorrect == Spec => []ServedSound
<1>1. Init => ServedInv
  BY QueryCacheAssumption, ServedInit
<1>2. ServedInv => ServedSound
  BY ServedInvImplies
<1> QED
  BY <1>1, <1>2, ServedStep, PTL DEF Spec
=============================================================================
