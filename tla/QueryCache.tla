----------------------------- MODULE QueryCache -----------------------------
(***************************************************************************)
(* The web server's read path: requests look a key up in the cache, query  *)
(* the database on a miss and store the answer; an insert of nodes sweeps  *)
(* the key families it outdates; the cache's own goroutine keeps the disk  *)
(* budget.  Two backends: Badger, on disk, whose operations all take       *)
(* resetMu for reading and whose reset and Close take it for writing, and  *)
(* a map with a mutex that is held for one step only.                      *)
(*                                                                         *)
(* The lock is the set of places that hold it or wait for it.  As in Go, a *)
(* waiting writer keeps new readers out.  An answer is reduced to whether  *)
(* it has rows and to its age, the time since its query read the database. *)
(***************************************************************************)
EXTENDS Integers, Sequences

CONSTANTS
    Request,        \* handlers of the server, each with one request at a time
    Key,            \* cache keys
    Family,         \* Family[k]: the key family, that is the prefix, of a key
    Ttl,            \* Ttl[k]: how long an answer is kept
    EmptyTtl,       \* EmptyTtl[k]: the same of an empty answer; 0: not stored
    Backends,       \* the backends to consider
    ResetAfterTicks,    \* diskBudgetResetAfterTicks
    MaxFill,        \* bound: time from a query's read to the end of its Set
    MaxInserts,     \* bound: inserts of nodes through this process
    None

Families == {"stats", "search", "dates", "analytics", "sysops", "node"}

ASSUME QueryCacheAssumption ==
    /\ Family \in [Key -> Families]
    /\ Ttl \in [Key -> Nat \ {0}] /\ EmptyTtl \in [Key -> Nat]
    /\ \A k \in Key : EmptyTtl[k] <= Ttl[k]
    /\ Backends \subseteq {"badger", "memory"}
    /\ ResetAfterTicks \in Nat \ {0, 1}
    /\ MaxFill \in Nat /\ MaxInserts \in Nat

VARIABLES
    backend,        \* config.Type
    cache,          \* per key, the stored entry or None
    pc, key, answer,    \* the requests: their step, key and fetched answer
    inv, sweep, found,  \* InvalidateAfterImport: step, prefixes left, keys collected
    begun,          \* history: inserts made, each with its invalidation
    swept,          \* history: per family, the last of them that has swept it
    admissionBlocked, overBudgetTicks,
    gc,             \* the cache's goroutine
    closer          \* the goroutine that calls Close

requestVars == <<pc, key, answer>>
sweepVars == <<inv, sweep, found, begun, swept>>
budgetVars == <<admissionBlocked, overBudgetTicks>>
vars == <<backend, cache, requestVars, sweepVars, budgetVars, gc, closer>>

(* An entry's time to live that is left, and history: the age of its answer,  *)
(* and how many inserts had been made when it was written.                    *)
Answer == [rows : BOOLEAN, age : 0..MaxFill]
Entry == [rows : BOOLEAN, age : Nat, left : Nat, epoch : 0..MaxInserts]

(* Of an expired entry the key is left. *)
Expired == [rows |-> FALSE, age |-> 0, left |-> 0, epoch |-> 0]

RequestState == {"idle", "rlockGet", "get", "expired", "fetch", "rlockSet", "set"}
Sizes == {"resume", "between", "over"}

TypeOK ==
    /\ backend \in Backends
    /\ cache \in [Key -> Entry \cup {None}]
    /\ pc \in [Request -> RequestState]
    /\ key \in [Request -> Key \cup {None}]
    /\ answer \in [Request -> Answer \cup {None}]
    /\ inv \in {"idle", "next", "collect", "delete"}
    /\ sweep \in Seq(Families)
    /\ found \in SUBSET Key
    /\ begun \in 0..MaxInserts
    /\ swept \in [Families -> 0..MaxInserts]
    /\ admissionBlocked \in BOOLEAN
    /\ overBudgetTicks \in 0..ResetAfterTicks
    /\ admissionBlocked <=> overBudgetTicks > 0
    /\ gc \in {"wait", "lock", "drop", "scan", "exited"}
    /\ closer \in {"open", "stopping", "lock", "close", "closed"}

Init ==
    /\ backend \in Backends
    /\ cache = [k \in Key |-> None]
    /\ pc = [r \in Request |-> "idle"]
    /\ key = [r \in Request |-> None] /\ answer = [r \in Request |-> None]
    /\ inv = "idle" /\ sweep = <<>> /\ found = {}
    /\ begun = 0 /\ swept = [f \in Families |-> 0]
    /\ admissionBlocked = FALSE /\ overBudgetTicks = 0
    /\ gc = "wait" /\ closer = "open"

-----------------------------------------------------------------------------
(* resetMu *)
HeldForReading ==
    \/ \E r \in Request : pc[r] \in {"get", "set"} /\ backend = "badger"
    \/ inv \in {"collect", "delete"}
HeldForWriting == gc = "drop" \/ closer = "close"
WriterWaits == gc = "lock" \/ closer = "lock"

RLockFree == ~HeldForWriting /\ ~WriterWaits
LockFree == ~HeldForWriting /\ ~HeldForReading

Closed == backend = "badger" /\ closer = "closed"
Live(k) == cache[k] # None /\ cache[k].left > 0

(* An expired entry or, once the database is closed, any is a miss. *)
Hit(k) == Live(k) /\ ~Closed

-----------------------------------------------------------------------------
(* cachedFetch and its variants, one request. *)
Goto(r, s) == pc' = [pc EXCEPT ![r] = s]
Return(r) ==
    /\ Goto(r, "idle")
    /\ key' = [key EXCEPT ![r] = None]
    /\ answer' = [answer EXCEPT ![r] = None]

Call(r) ==
    /\ pc[r] = "idle"
    /\ \E k \in Key : key' = [key EXCEPT ![r] = k]
    /\ Goto(r, IF backend = "badger" THEN "rlockGet" ELSE "get")
    /\ UNCHANGED <<backend, cache, answer, sweepVars, budgetVars, gc, closer>>

RLockAnyTime(r) ==            \* faulty variant: without the lock of the reset
    \/ pc[r] = "rlockGet" /\ Goto(r, "get") /\ UNCHANGED <<backend, cache, key, answer, sweepVars, budgetVars, gc, closer>>
    \/ pc[r] = "rlockSet" /\ Goto(r, "set") /\ UNCHANGED <<backend, cache, key, answer, sweepVars, budgetVars, gc, closer>>
RLock(r) ==
    /\ RLockFree
    /\ \/ pc[r] = "rlockGet" /\ Goto(r, "get")
       \/ pc[r] = "rlockSet" /\ Goto(r, "set")
    /\ UNCHANGED <<backend, cache, key, answer, sweepVars, budgetVars, gc, closer>>

(* A hit returns.  The map's Get deletes an expired entry in a second step.   *)
GetSliding(r) ==              \* faulty variant: a hit extends the entry's life
    /\ pc[r] = "get"
    /\ IF Hit(key[r])
       THEN Return(r) /\ cache' = [cache EXCEPT ![key[r]].left = Ttl[key[r]]]
       ELSE Goto(r, "fetch") /\ UNCHANGED <<cache, key, answer>>
    /\ UNCHANGED <<backend, sweepVars, budgetVars, gc, closer>>
Get(r) ==
    /\ pc[r] = "get"
    /\ \/ Hit(key[r]) /\ Return(r)
       \/ /\ ~Hit(key[r])
          /\ Goto(r, IF backend = "memory" /\ cache[key[r]] # None THEN "expired" ELSE "fetch")
          /\ UNCHANGED <<key, answer>>
    /\ UNCHANGED <<backend, cache, sweepVars, budgetVars, gc, closer>>

(* "Lazy delete expired entry": whatever is there by now. *)
DeleteExpired(r) ==
    /\ pc[r] = "expired"
    /\ cache' = [cache EXCEPT ![key[r]] = None]
    /\ Goto(r, "fetch")
    /\ UNCHANGED <<backend, key, answer, sweepVars, budgetVars, gc, closer>>

(* The query fails, or its context ends, and nothing is stored; an empty      *)
(* answer is stored by some readers only.  Other processes import nodelists   *)
(* and store test results without the cache: any answer may come at any time. *)
(* Set refuses while the cache is suspended, and only then takes the lock.    *)
Fetch(r) ==
    /\ pc[r] = "fetch"
    /\ \/ Return(r)
       \/ /\ backend = "memory" \/ ~admissionBlocked
          /\ \E rows \in BOOLEAN :
             /\ rows \/ EmptyTtl[key[r]] > 0
             /\ answer' = [answer EXCEPT ![r] = [rows |-> rows, age |-> 0]]
          /\ Goto(r, IF backend = "badger" THEN "rlockSet" ELSE "set")
          /\ UNCHANGED key
    /\ UNCHANGED <<backend, cache, sweepVars, budgetVars, gc, closer>>

TtlOf(k, rows) == IF rows THEN Ttl[k] ELSE EmptyTtl[k]

EntryOf(k, a) ==
    [rows |-> a.rows, age |-> a.age, left |-> TtlOf(k, a.rows), epoch |-> begun]

Set(r) ==
    /\ pc[r] = "set"
    /\ cache' = IF Closed THEN cache
                ELSE [cache EXCEPT ![key[r]] = EntryOf(key[r], answer[r])]
    /\ Return(r)
    /\ UNCHANGED <<backend, sweepVars, budgetVars, gc, closer>>

-----------------------------------------------------------------------------
(* InsertNodes on the cached storage: the insert, then InvalidateAfterImport  *)
(* prefix by prefix; a prefix without keys has nothing to do.                 *)
Keyed(f) == IF \E k \in Key : Family[k] = f THEN <<f>> ELSE <<>>

PrefixesOf(recent) ==
    Keyed("stats") \o Keyed("search") \o Keyed("dates") \o Keyed("analytics")
    \o (IF recent THEN Keyed("sysops") ELSE <<>>)

InsertNodes ==
    /\ inv = "idle" /\ begun < MaxInserts
    /\ begun' = begun + 1
    /\ \E recent \in BOOLEAN : sweep' = PrefixesOf(recent)
    /\ inv' = IF sweep' = <<>> THEN "idle" ELSE "next"
    /\ UNCHANGED <<backend, cache, requestVars, found, swept, budgetVars, gc, closer>>

(* Badger: one read transaction collects, another deletes, under one RLock.   *)
(* Either may fail (a deletion of very many keys is too big a transaction),   *)
(* which is logged.                                                           *)
RLockSweep ==
    /\ inv = "next" /\ backend = "badger" /\ RLockFree
    /\ inv' = "collect"
    /\ UNCHANGED <<backend, cache, requestVars, sweep, found, begun, swept, budgetVars, gc, closer>>

Swept(ok) ==
    /\ sweep' = Tail(sweep) /\ found' = {}
    /\ inv' = IF Tail(sweep) = <<>> THEN "idle" ELSE "next"
    /\ swept' = IF ok THEN [swept EXCEPT ![Head(sweep)] = begun] ELSE swept
    /\ UNCHANGED <<backend, requestVars, begun, budgetVars, gc, closer>>

Collect ==
    /\ inv = "collect"
    /\ \/ /\ ~Closed
          /\ found' = {k \in Key : Live(k) /\ Family[k] = Head(sweep)}
          /\ inv' = "delete"
          /\ UNCHANGED <<backend, cache, requestVars, sweep, begun, swept, budgetVars, gc, closer>>
       \/ Swept(FALSE) /\ UNCHANGED cache

Delete ==
    /\ inv = "delete"
    /\ \/ /\ cache' = [k \in Key |-> IF k \in found THEN None ELSE cache[k]]
          /\ Swept(TRUE)
       \/ Swept(FALSE) /\ UNCHANGED cache

(* The map: all keys of the prefix at once. *)
SweepMap ==
    /\ inv = "next" /\ backend = "memory"
    /\ cache' = [k \in Key |-> IF Family[k] = Head(sweep) THEN None ELSE cache[k]]
    /\ Swept(TRUE)

-----------------------------------------------------------------------------
(* The cache's goroutine. *)
gcUnchanged == UNCHANGED <<backend, requestVars, sweepVars, closer>>

EvictExpired ==
    /\ gc = "wait" /\ backend = "memory"
    /\ \E k \in Key : cache[k] # None /\ ~Live(k)
    /\ cache' = [k \in Key |-> IF Live(k) THEN cache[k] ELSE None]
    /\ gcUnchanged /\ UNCHANGED <<gc, budgetVars>>

GcStop ==
    /\ gc = "wait" /\ closer # "open"
    /\ gc' = "exited"
    /\ gcUnchanged /\ UNCHANGED <<cache, budgetVars>>

(* applyDiskBudget.  What is measured is up to a minute old, and what drains  *)
(* the disk is Badger's compaction: any size may be read.  Without a cap it   *)
(* is as if every size were below the resume mark.                            *)
ApplyDiskBudgetRecounts ==    \* faulty variant: counts from one at every tick
    /\ gc = "wait" /\ backend = "badger"
    /\ \E s \in Sizes :
        /\ admissionBlocked' = IF s = "between" THEN admissionBlocked ELSE s = "over"
        /\ overBudgetTicks' = IF s = "over" THEN 1 ELSE 0
    /\ gc' = "scan"
    /\ gcUnchanged /\ UNCHANGED cache
ApplyDiskBudget ==
    /\ gc = "wait" /\ backend = "badger"
    /\ \E s \in Sizes :
        /\ \/ /\ admissionBlocked /\ s = "resume"
              /\ admissionBlocked' = FALSE /\ overBudgetTicks' = 0 /\ gc' = "scan"
           \/ /\ admissionBlocked /\ s = "over"
              /\ overBudgetTicks' = IF overBudgetTicks < ResetAfterTicks
                                     THEN overBudgetTicks + 1 ELSE ResetAfterTicks
              /\ gc' = IF overBudgetTicks + 1 >= ResetAfterTicks THEN "lock" ELSE "scan"
              /\ UNCHANGED admissionBlocked
           \/ /\ ~admissionBlocked /\ s = "over"
              /\ admissionBlocked' = TRUE /\ overBudgetTicks' = 1 /\ gc' = "scan"
           \/ /\ s = "between" \/ (~admissionBlocked /\ s = "resume")
              /\ gc' = "scan"
              /\ UNCHANGED <<admissionBlocked, overBudgetTicks>>
    /\ gcUnchanged /\ UNCHANGED cache

LockForReset ==
    /\ gc = "lock" /\ LockFree
    /\ gc' = "drop"
    /\ gcUnchanged /\ UNCHANGED <<cache, budgetVars>>

(* DropAll; when it fails the cache stays suspended. *)
DropAll ==
    /\ gc = "drop"
    /\ cache' = [k \in Key |-> None]
    /\ admissionBlocked' = FALSE /\ overBudgetTicks' = 0
    /\ gc' = "scan"
    /\ gcUnchanged

DropAllFails ==
    /\ gc = "drop"
    /\ \E D \in SUBSET Key : cache' = [k \in Key |-> IF k \in D THEN None ELSE cache[k]]
    /\ gc' = "scan"
    /\ gcUnchanged /\ UNCHANGED budgetVars

(* updateSizeMetrics takes the lock for reading, too. *)
UpdateSizeMetrics ==
    /\ gc = "scan" /\ RLockFree
    /\ gc' = "wait"
    /\ gcUnchanged /\ UNCHANGED <<cache, budgetVars>>

-----------------------------------------------------------------------------
(* Close: stop the goroutine, wait for it, exclude the readers, close. *)
closerUnchanged == UNCHANGED <<backend, cache, requestVars, sweepVars, budgetVars, gc>>

Close ==
    /\ closer = "open"
    /\ closer' = IF backend = "badger" THEN "stopping" ELSE "closed"
    /\ closerUnchanged

AwaitGcLocked ==              \* faulty variant: takes the lock, then waits for the goroutine
    /\ closer = "stopping" /\ LockFree
    /\ closer' = "close"
    /\ closerUnchanged
AwaitGc ==
    /\ closer = "stopping" /\ gc = "exited"
    /\ closer' = "lock"
    /\ closerUnchanged

CloseDB ==
    /\ \/ closer = "lock" /\ LockFree /\ closer' = "close"
       \/ closer = "close" /\ gc = "exited" /\ closer' = "closed"
    /\ closerUnchanged

-----------------------------------------------------------------------------
(* Time passes.  A fetched answer reaches the cache within MaxFill. *)
Older(e) ==
    IF e = None \/ e = Expired THEN e
    ELSE IF e.left = 1 THEN Expired
    ELSE [e EXCEPT !.age = @ + 1, !.left = @ - 1]

Tick ==
    /\ \A r \in Request : answer[r] # None => answer[r].age < MaxFill
    /\ answer' = [r \in Request |-> IF answer[r] = None THEN None
                                    ELSE [answer[r] EXCEPT !.age = @ + 1]]
    /\ cache' = [k \in Key |-> Older(cache[k])]
    /\ UNCHANGED <<backend, pc, key, sweepVars, budgetVars, gc, closer>>

(* The process ends at any point; what Badger has on disk is there again.     *)
Restart ==
    /\ pc' = [r \in Request |-> "idle"]
    /\ key' = [r \in Request |-> None] /\ answer' = [r \in Request |-> None]
    /\ inv' = "idle" /\ sweep' = <<>> /\ found' = {}
    /\ admissionBlocked' = FALSE /\ overBudgetTicks' = 0
    /\ gc' = "wait" /\ closer' = "open"
    /\ cache' = IF backend = "badger" THEN cache ELSE [k \in Key |-> None]
    /\ UNCHANGED <<backend, begun, swept>>

RequestStep(r) == RLock(r) \/ Get(r) \/ DeleteExpired(r) \/ Fetch(r) \/ Set(r)
SweepStep == RLockSweep \/ Collect \/ Delete \/ SweepMap
GcStep == GcStop \/ ApplyDiskBudget \/ LockForReset \/ DropAll \/ DropAllFails \/ UpdateSizeMetrics
CloseStep == AwaitGc \/ CloseDB

Next ==
    \/ \E r \in Request : Call(r) \/ RequestStep(r)
    \/ InsertNodes \/ SweepStep
    \/ GcStep \/ EvictExpired
    \/ Close \/ CloseStep
    \/ Tick \/ Restart

Spec == Init /\ [][Next]_vars

(* Goroutines that can run do, and queries end, by their budget if not        *)
(* otherwise.  A reader that waits for a writer goes first when the writer    *)
(* unlocks; the ticker ticks; DropAll does not fail for ever; and a goroutine *)
(* whose ticker and stop channel are both ready takes the latter some time.   *)
Fairness ==
    /\ \A r \in Request : SF_vars(RequestStep(r))
    /\ SF_vars(SweepStep)
    /\ WF_vars(GcStep) /\ SF_vars(GcStop) /\ SF_vars(DropAll)
    /\ WF_vars(CloseStep)

FairSpec == Spec /\ Fairness

-----------------------------------------------------------------------------
(* "Badger documents DropAll as resilient to concurrent writes, but not to    *)
(* reads": nothing reads the store while it is reset or closed, not even the  *)
(* goroutine's own count of the keys or a sweep.                              *)
ResetExcludesReaders == HeldForWriting => ~HeldForReading

(* However fills, resets, sweeps and restarts interleave, an answer that can  *)
(* still be served was read from the database no longer ago than its time to  *)
(* live, which is shorter for an empty one, and the time of its fill.         *)
AgeBounded ==
    \A k \in Key :
        Live(k) => cache[k].age + cache[k].left <= MaxFill + TtlOf(k, cache[k].rows)

(* A sweep that reported no error leaves no entry written before its insert,  *)
(* in any state of the budget.  A fill in flight may still bring an older     *)
(* answer, which AgeBounded bounds.                                           *)
SweepReaches == \A k \in Key : Live(k) => cache[k].epoch >= swept[Family[k]]

(* What is served: an answer of a bounded age that no sweep should have       *)
(* removed.                                                                   *)
ServedSound == TypeOK /\ AgeBounded /\ SweepReaches

(* Every request returns, and Close does: the readers, the reset and Close    *)
(* never wait for one another in a circle.                                    *)
RequestsReturn == \A r \in Request : pc[r] # "idle" ~> pc[r] = "idle"
CloseReturns == closer # "open" ~> closer \in {"closed", "open"}

CallsReturn == RequestsReturn /\ CloseReturns

(* "The reset survives as a backstop": as long as ticks find the cache either *)
(* over its limit or drained, admission resumes.                              *)
Decided == gc = "wait" /\ (gc' = "lock" \/ budgetVars' # budgetVars)

Resumes == admissionBlocked ~> (~admissionBlocked \/ closer # "open")

BackstopResets == []<><<Decided>>_vars => Resumes

=============================================================================
