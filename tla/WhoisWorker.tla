---------------------------- MODULE WhoisWorker ----------------------------
(***************************************************************************)
(* The daemon's WHOIS worker.  Testers put domains on a bounded queue and  *)
(* never wait; one goroutine takes them off, resolves them through the     *)
(* resolver's memory cache, the table domain_whois_cache, port 43 and RDAP *)
(* in that order, stores what is worth storing, and remembers for a day    *)
(* which domains need no new lookup.  Stop closes the queue.               *)
(*                                                                         *)
(* Time is relative: an entry counts down what is left of its life, and    *)
(* the age of the answer in it, which is history, counts up.               *)
(***************************************************************************)
EXTENDS Integers, Sequences

CONSTANTS
    Tester,         \* goroutines that test nodes
    Domain,         \* registrable domains
    Tld,            \* Tld[d]: the last label of a domain
    QueueCap,       \* capacity of the queue
    Day, Hour,      \* seenTTL, the windows and TTLs of a day; TTL of a transient error
    None

VARIABLES
    queue,      \* w.queue
    stop,       \* Stop: "no", "flagged", "closed" or, when it has returned, "done"
    cancelled,  \* the daemon's context
    tester,     \* per tester, the domain it is about to send, or None
    worker,     \* the goroutine: its step and domain
    seen,       \* w.seen
    mem,        \* r.cache
    stored,     \* the newest row of a domain in domain_whois_cache
    tldServer,  \* r.tldServers
    bootstrapFetched    \* of the RDAP resolver

callers == <<tester, stop, cancelled>>
caches == <<mem, tldServer, bootstrapFetched>>
vars == <<queue, callers, worker, seen, stored, caches>>

Tlds == {Tld[d] : d \in Domain}

(* WhoisResult: with data; without; "domain not found"; WhoisNoServerError;   *)
(* any other error.                                                           *)
Result == {"data", "empty", "notfound", "noserver", "transient"}

(* settled, age and result of a domain that is seen are history. *)
MaxAge == 3 * Day
Answer == [result : Result, settled : BOOLEAN, age : 0..MaxAge]
Entry == [answer : Answer, left : 0..Day]
Row == [answer : Answer, age : 0..(Day + 1)]

(* What the constants are. *)
Parameters ==
    /\ DOMAIN Tld = Domain
    /\ QueueCap \in Nat \ {0}
    /\ Day \in Nat /\ Hour \in Nat /\ 0 < Hour /\ Hour <= Day
    /\ None \notin Domain \cup Entry \cup Row

ASSUME WhoisWorkerAssumption == Parameters

TypeOK ==
    /\ queue \in Seq(Domain) /\ Len(queue) <= QueueCap
    /\ stop \in {"no", "flagged", "closed", "done"}
    /\ cancelled \in BOOLEAN
    /\ tester \in [Tester -> Domain \cup {None}]
    /\ worker \in [step : {"idle", "resolve", "store", "exited"}, domain : Domain \cup {None}]
    /\ worker.step \in {"resolve", "store"} <=> worker.domain # None
    /\ seen \in [Domain -> Entry \cup {None}]
    /\ mem \in [Domain -> Entry \cup {None}]
    /\ stored \in [Domain -> Row \cup {None}]
    /\ tldServer \in [Tlds -> [server : BOOLEAN, left : 0..Day] \cup {None}]
    /\ bootstrapFetched \in BOOLEAN
    /\ stop = "done" => worker.step = "exited"

Fresh ==
    /\ queue = <<>> /\ stop = "no" /\ cancelled = FALSE
    /\ tester = [t \in Tester |-> None]
    /\ worker = [step |-> "idle", domain |-> None]
    /\ seen = [d \in Domain |-> None] /\ mem = [d \in Domain |-> None]
    /\ tldServer = [t \in Tlds |-> None] /\ bootstrapFetched = FALSE

Init == Fresh /\ stored = [d \in Domain |-> None]

Live(e) == e # None /\ e.left > 0

-----------------------------------------------------------------------------
(* Enqueue: the checks, and then the send, which the queue's closing may      *)
(* overtake; the panic of that is recovered.                                  *)
Enqueue(t, d) ==
    /\ tester[t] = None
    /\ stop = "no" /\ ~Live(seen[d])
    /\ tester' = [tester EXCEPT ![t] = d]
    /\ UNCHANGED <<queue, stop, cancelled, worker, seen, stored, caches>>

Send(t) ==
    /\ tester[t] # None
    /\ \/ /\ stop \in {"closed", "done"} \/ Len(queue) = QueueCap
          /\ UNCHANGED queue
       \/ /\ stop \in {"no", "flagged"} /\ Len(queue) < QueueCap
          /\ queue' = Append(queue, tester[t])
    /\ tester' = [tester EXCEPT ![t] = None]
    /\ UNCHANGED <<stop, cancelled, worker, seen, stored, caches>>

-----------------------------------------------------------------------------
(* processQueue *)
Take ==
    /\ worker.step = "idle" /\ queue # <<>>
    /\ worker' = [step |-> "resolve", domain |-> Head(queue)]
    /\ queue' = Tail(queue)
    /\ UNCHANGED <<callers, seen, stored, caches>>

Exit ==
    /\ worker.step = "idle"
    /\ cancelled \/ (stop = "closed" /\ queue = <<>>)
    /\ worker' = [step |-> "exited", domain |-> None]
    /\ UNCHANGED <<queue, callers, seen, stored, caches>>

(* classifyWhoisResult *)
ShouldPersist(result) == result \in {"data", "notfound"}
ShouldMarkSeen(result) == result # "transient"

Finish == worker' = [step |-> "idle", domain |-> None]

MarkSeen(d, answer) ==
    seen' = IF ShouldMarkSeen(answer.result)
            THEN [seen EXCEPT ![d] = [answer |-> answer, left |-> Day]] ELSE seen

CacheTtl(result) == IF result = "transient" THEN Hour ELSE Day

CacheResult(d, answer) ==
    mem' = [mem EXCEPT ![d] = [answer |-> answer, left |-> CacheTtl(answer.result)]]

(* Resolve returns what the memory cache has. *)
ResolveFromMemory ==
    LET d == worker.domain IN
    /\ worker.step = "resolve" /\ Live(mem[d])
    /\ MarkSeen(d, mem[d].answer)
    /\ Finish
    /\ UNCHANGED <<queue, callers, stored, caches>>

(* doResolve trusts a row of the last day, which enters the memory cache as   *)
(* if it were new.                                                            *)
ResolveFromStore ==
    LET d == worker.domain IN
    /\ worker.step = "resolve" /\ ~Live(mem[d]) /\ ~cancelled
    /\ stored[d] # None /\ stored[d].age <= Day
    /\ CacheResult(d, stored[d].answer)
    /\ MarkSeen(d, stored[d].answer)
    /\ Finish
    /\ UNCHANGED <<queue, callers, stored, tldServer, bootstrapFetched>>

(* The context ends while the lookup waits for the rate limiter. *)
GiveUp ==
    /\ worker.step = "resolve" /\ ~Live(mem[worker.domain]) /\ cancelled
    /\ Finish
    /\ UNCHANGED <<queue, callers, seen, stored, caches>>

-----------------------------------------------------------------------------
(* Port 43: IANA is asked for the server of the TLD, unless that is known.    *)
(* The answer of a server may come with an error, of a referral for example,  *)
(* and parses to registrar or expiry ("full"), a status only ("thin"),        *)
(* nothing of use, no such domain, or does not parse.                         *)
Iana == {"known", "failed", "server", "noserver"}
Body == {"none", "garbage", "nodomain", "nothing", "thin", "full"}
Reply == [failed : BOOLEAN, body : Body]

KnownServer(d) == Live(tldServer[Tld[d]])

ParseReply(reply) ==
    CASE reply.body = "full" -> "data"
      [] reply.body = "thin" /\ ~reply.failed -> "data"
      [] reply.body = "nothing" /\ ~reply.failed -> "empty"
      [] reply.body = "nodomain" /\ ~reply.failed -> "notfound"
      [] OTHER -> "transient"

LookupWhois(server, reply) ==
    CASE server = "failed" -> "transient"
      [] server = "noserver" -> "noserver"
      [] OTHER -> ParseReply(reply)

(* RDAP: no endpoint for the TLD, or an answer.  Without the bootstrap file   *)
(* nothing can be said.                                                       *)
Rdap == {"unasked", "inapplicable", "data", "empty", "notfound", "transient"}

ShouldTryRDAP(whois) == whois \notin {"data", "notfound"}

TryRDAPKeepsWhois(whois, rdap) == \* faulty variant: a failed RDAP changes nothing
    CASE rdap \in {"data", "empty", "notfound"} -> rdap [] OTHER -> whois
TryRDAP(whois, rdap) ==
    CASE rdap \in {"unasked", "inapplicable"} -> whois
      [] OTHER -> rdap

(* What IANA said of the server, now or when it was last asked. *)
ServerOf(d, iana) ==
    IF iana = "known" THEN (IF tldServer[Tld[d]].server THEN "server" ELSE "noserver")
    ELSE iana

(* History: whether the answer is more than a failure, judged from the raw    *)
(* replies: data from either side is; without, port 43 must have answered or  *)
(* have no server, and RDAP have answered or not apply.                       *)
Settled(server, reply, rdap) ==
    LET replied == server = "server" /\ ~reply.failed /\ reply.body \notin {"none", "garbage"}
    IN \/ server = "server" /\ reply.body = "full"
       \/ replied /\ reply.body \in {"thin", "nodomain"}
       \/ rdap \in {"data", "empty", "notfound"}
       \/ (replied \/ server = "noserver") /\ rdap = "inapplicable"

StoreTLDServer(d, iana) ==
    tldServer' = IF iana \in {"server", "noserver"}
                 THEN [tldServer EXCEPT ![Tld[d]] = [server |-> iana = "server", left |-> Day]]
                 ELSE tldServer

(* baseURL fetches the bootstrap file if it never has; RDAP, unlike port 43,  *)
(* heeds the context.                                                         *)
Lookup ==
    LET d == worker.domain IN
    /\ worker.step = "resolve" /\ ~Live(mem[d])
    /\ \E iana \in Iana, reply \in Reply, rdap \in Rdap :
        LET server == ServerOf(d, iana)
            whois == LookupWhois(server, reply)
        IN /\ iana = "known" <=> KnownServer(d)
           /\ rdap = "unasked" <=> ~ShouldTryRDAP(whois)
           /\ bootstrapFetched' \in CASE rdap = "unasked" -> {bootstrapFetched}
                                      [] rdap = "transient" -> {bootstrapFetched, TRUE}
                                      [] OTHER -> {TRUE}
           /\ cancelled => /\ rdap \in {"unasked", "inapplicable", "transient"}
                           /\ bootstrapFetched' = bootstrapFetched
           /\ StoreTLDServer(d, iana)
           /\ CacheResult(d, [result |-> TryRDAP(whois, rdap), age |-> 0,
                              settled |-> Settled(server, reply, rdap)])
    /\ worker' = [worker EXCEPT !.step = "store"]
    /\ UNCHANGED <<queue, callers, seen, stored>>

-----------------------------------------------------------------------------
(* The rest of the loop: StoreWhoisResult, if the result is to be persisted,  *)
(* may fail, and does once the context has ended.                             *)
StoreResultKeepsCache ==      \* faulty variant: does not invalidate
    LET d == worker.domain
        answer == mem[d].answer
        persist == ShouldPersist(answer.result)
    IN /\ worker.step = "store"
       /\ \/ /\ persist => ~cancelled
             /\ stored' = IF persist THEN [stored EXCEPT ![d] = [answer |-> answer, age |-> 0]]
                          ELSE stored
             /\ MarkSeen(d, answer)
          \/ persist /\ UNCHANGED <<seen, stored>>
       /\ Finish
       /\ UNCHANGED <<queue, callers, caches>>
StoreResult ==
    LET d == worker.domain
        answer == mem[d].answer
        persist == ShouldPersist(answer.result)
    IN /\ worker.step = "store"
       /\ \/ /\ ~persist
             /\ MarkSeen(d, answer) /\ UNCHANGED <<stored, mem>>
          \/ /\ persist /\ ~cancelled
             /\ stored' = [stored EXCEPT ![d] = [answer |-> answer, age |-> 0]]
             /\ MarkSeen(d, answer) /\ UNCHANGED mem
          \/ /\ persist
             /\ mem' = [mem EXCEPT ![d] = None]
             /\ UNCHANGED <<seen, stored>>
       /\ Finish
       /\ UNCHANGED <<queue, callers, tldServer, bootstrapFetched>>

-----------------------------------------------------------------------------
(* Stop sets the flag, closes the queue and waits for the goroutine. *)
Stop ==
    /\ stop = "no" /\ stop' = "flagged"
    /\ UNCHANGED <<queue, tester, cancelled, worker, seen, stored, caches>>

StopFlagOnly ==               \* faulty variant: the queue stays open
    /\ stop = "closed" /\ worker.step = "exited" /\ stop' = "done"
    /\ UNCHANGED <<queue, tester, cancelled, worker, seen, stored, caches>>
CloseQueue ==
    /\ \/ stop = "flagged" /\ stop' = "closed"
       \/ stop = "closed" /\ worker.step = "exited" /\ stop' = "done"
    /\ UNCHANGED <<queue, tester, cancelled, worker, seen, stored, caches>>

Cancel ==
    /\ ~cancelled /\ cancelled' = TRUE
    /\ UNCHANGED <<queue, tester, stop, worker, seen, stored, caches>>

(* Time.  Storing a result takes no time that counts.  An expired entry is    *)
(* the same as none, so the hourly cleanupSeen changes nothing.               *)
OlderAnswer(a) == [a EXCEPT !.age = @ + 1]
Older(e) ==
    IF ~Live(e) \/ e.left = 1 THEN None
    ELSE [answer |-> OlderAnswer(e.answer), left |-> e.left - 1]
OlderRow(row) ==
    IF row = None \/ row.age > Day THEN row
    ELSE [answer |-> OlderAnswer(row.answer), age |-> row.age + 1]

Tick ==
    /\ worker.step # "store"
    /\ seen' = [d \in Domain |-> Older(seen[d])]
    /\ mem' = [d \in Domain |-> Older(mem[d])]
    /\ stored' = [d \in Domain |-> OlderRow(stored[d])]
    /\ tldServer' = [t \in Tlds |-> IF ~Live(tldServer[t]) \/ tldServer[t].left = 1 THEN None
                                    ELSE [tldServer[t] EXCEPT !.left = @ - 1]]
    /\ UNCHANGED <<queue, callers, worker, bootstrapFetched>>

(* The daemon ends, in whatever state it is, and is started again. *)
Restart ==
    /\ queue' = <<>> /\ stop' = "no" /\ cancelled' = FALSE
    /\ tester' = [t \in Tester |-> None]
    /\ worker' = [step |-> "idle", domain |-> None]
    /\ seen' = [d \in Domain |-> None] /\ mem' = [d \in Domain |-> None]
    /\ tldServer' = [t \in Tlds |-> None] /\ bootstrapFetched' = FALSE
    /\ UNCHANGED stored

WorkerStep ==
    \/ Take \/ Exit
    \/ ResolveFromMemory \/ ResolveFromStore \/ GiveUp \/ Lookup
    \/ StoreResult

Next ==
    \/ \E t \in Tester : Send(t) \/ \E d \in Domain : Enqueue(t, d)
    \/ WorkerStep
    \/ Stop \/ CloseQueue \/ Cancel
    \/ Tick \/ Restart

Spec == Init /\ [][Next]_vars

(* Goroutines run, and lookups end: the WHOIS client and the HTTP client have *)
(* timeouts, and the rate limiter gets a token every second.                  *)
Fairness ==
    /\ \A t \in Tester : WF_vars(Send(t))
    /\ WF_vars(WorkerStep) /\ WF_vars(CloseQueue)

FairSpec == Spec /\ Fairness

-----------------------------------------------------------------------------
(* "... rather than marking the domain seen for a full day on a fluke": what  *)
(* keeps a domain from being looked up, and what is in the table for all to   *)
(* see, is never the outcome of a lookup whose last word was a failure of     *)
(* IANA, of a WHOIS server, of the bootstrap file or of RDAP.                 *)
OnlySettled ==
    \A d \in Domain :
        /\ Live(seen[d]) => seen[d].answer.settled
        /\ stored[d] # None => stored[d].answer.settled

(* "a good result is not stranded (unpersisted) behind the resolver's own     *)
(* success cache": what is worth storing and still suppresses a lookup, in    *)
(* either memory, is what the table has.                                      *)
NotStranded ==
    \A d \in Domain : \A e \in {mem[d], seen[d]} :
        /\ Live(e) /\ ShouldPersist(e.answer.result)
        /\ ~(worker.step = "store" /\ worker.domain = d)
        => stored[d] # None /\ stored[d].answer.result = e.answer.result

(* A row of the last day enters the memory cache for another day, and a hit   *)
(* there marks the domain as seen for a third: but no answer suppresses the   *)
(* lookup of a domain for longer than that, however often it is asked for.    *)
AgeBounded ==
    \A d \in Domain :
        /\ Live(mem[d]) => mem[d].answer.age + mem[d].left <= 2 * Day
        /\ Live(seen[d]) => seen[d].answer.age + seen[d].left <= 3 * Day

(* What suppresses a lookup is a settled answer of a bounded age. *)
CacheSound == TypeOK /\ OnlySettled /\ AgeBounded

(* "Non-blocking ... Safe to call concurrently with Stop()" *)
EnqueueReturns == \A t \in Tester : tester[t] # None ~> tester[t] = None

(* Stop returns: the worker ends, when what is queued has been looked up.     *)
StopReturns == stop = "flagged" ~> stop \in {"done", "no"}

(* No caller of the worker waits for ever. *)
CallsReturn == EnqueueReturns /\ StopReturns
=============================================================================
