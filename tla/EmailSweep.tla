---------------------------- MODULE EmailSweep ----------------------------
(***************************************************************************)
(* The daemon's sweep over the mail domains of the nodelist: every so      *)
(* often, each domain whose verdict is missing, is an error or has not     *)
(* been tried for a while is checked by DNS, a few at a time, and the      *)
(* outcome is stored.  A lookup that failed carries the last established   *)
(* verdict forward, if that could be read.                                 *)
(*                                                                         *)
(* A verdict is routable (ok, implicit_mx, degraded), dead (null_mx,       *)
(* no_mx, no_domain, mx_unresolvable, invalid) or error.                   *)
(***************************************************************************)
EXTENDS Integers, FiniteSets

CONSTANTS
    MailDomain,     \* mail domains published in the newest nodelists
    Host,           \* mail exchangers of a domain
    Concurrency,    \* domains in flight at once
    StaleAfter,     \* age from which an attempt is made again
    FindingTtl,     \* the resolver's CacheTTL; a failure is kept for one step
    Missing, Unread

ASSUME EmailSweepAssumption ==
    /\ Concurrency \in Nat \ {0}
    /\ StaleAfter \in Nat \ {0} /\ FindingTtl \in Nat \ {0}

VARIABLES
    row,        \* the newest row of a domain in email_domain_checks
    memo,       \* the resolver's cache
    sweeper,    \* the sweep loop: "wait", "sweep" or "ended"
    due,        \* of this sweep, the domains without a goroutine yet
    job,        \* per domain, the step of its goroutine
    previous,   \* the row it read, None, or Unread if it could not
    result,     \* the result of its lookup
    stopped, sweepCancelled

jobVars == <<job, previous, result>>
flags == <<stopped, sweepCancelled>>
sweepVars == <<row, memo, sweeper, due, jobVars, flags>>

Verdict == {"routable", "dead", "error"}
Stable(status) == status # "error"

(* History of a verdict: whether some name had an address; whether no lookup  *)
(* failed; and its age.                                                       *)
MaxRowAge == StaleAfter + FindingTtl + 1
Evidence == [reached : BOOLEAN, complete : BOOLEAN, age : 0..MaxRowAge]
Finding == [status : Verdict, evidence : Evidence]
CheckRow == [finding : Finding, checked : 0..MaxRowAge, attempted : 0..MaxRowAge, error : BOOLEAN]

Steps == {"none", "spawned", "read", "check", "store"}

ASSUME NoRowAssumption ==
    Missing \notin CheckRow \cup Finding /\ Unread \notin CheckRow \cup {Missing}

SweepTypeOK ==
    /\ row \in [MailDomain -> CheckRow \cup {Missing}]
    /\ memo \in [MailDomain -> [finding : Finding, left : 1..FindingTtl] \cup {Missing}]
    /\ sweeper \in {"wait", "sweep", "ended"}
    /\ due \in SUBSET MailDomain
    /\ job \in [MailDomain -> Steps]
    /\ previous \in [MailDomain -> CheckRow \cup {Missing, Unread}]
    /\ result \in [MailDomain -> Finding \cup {Missing}]
    /\ stopped \in BOOLEAN /\ sweepCancelled \in BOOLEAN
    /\ \A d \in MailDomain : result[d] # Missing <=> job[d] = "store"
    /\ Cardinality({d \in MailDomain : job[d] \in {"read", "check", "store"}}) <= Concurrency
    /\ sweeper # "sweep" => due = {} /\ job = [d \in MailDomain |-> "none"]

SweepInit ==
    /\ row = [d \in MailDomain |-> Missing] /\ memo = [d \in MailDomain |-> Missing]
    /\ sweeper = "wait" /\ due = {}
    /\ job = [d \in MailDomain |-> "none"]
    /\ previous = [d \in MailDomain |-> Missing] /\ result = [d \in MailDomain |-> Missing]
    /\ stopped = FALSE /\ sweepCancelled = FALSE

-----------------------------------------------------------------------------
(* The DNS ladder.  A lookup finds something, finds that there is nothing, or *)
(* fails; the lookup of the MX finds a null MX or some hosts.                 *)
DnsAnswer == {"found", "absent", "failed"}
Mx == {"failed", "absent", "null", "hosts"}

(* checkImplicitMX *)
ImplicitMX(address) ==
    CASE address = "failed" -> "error" [] address = "absent" -> "dead" [] OTHER -> "routable"

ResolveHostsGivesUp(hosts, address) == \* faulty variant: what did not answer is dead
    IF \E h \in hosts : address[h] = "found" THEN "routable" ELSE "dead"
ResolveHosts(hosts, address) ==
    CASE \E h \in hosts : address[h] = "found" -> "routable"
      [] \A h \in hosts : address[h] = "absent" -> "dead"
      [] OTHER -> "error"

Check(mx, hosts, own, address) ==
    CASE mx = "failed" -> "error"
      [] mx = "absent" -> ImplicitMX(own)
      [] mx = "null" -> "dead"
      [] OTHER -> ResolveHosts(hosts, address)

(* History: what the lookups that were made say, whatever the verdict. *)
EvidenceOf(mx, hosts, own, address) ==
    LET asked == CASE mx \in {"failed", "null"} -> {}
                   [] mx = "absent" -> {own}
                   [] OTHER -> {address[h] : h \in hosts}
    IN [reached |-> "found" \in asked,
        complete |-> mx # "failed" /\ "failed" \notin asked, age |-> 0]

-----------------------------------------------------------------------------
(* GetEmailDomainsToCheck *)
IsDue(d) ==
    \/ row[d] = Missing
    \/ row[d].finding.status = "error"
    \/ row[d].attempted > StaleAfter

Sweep ==
    /\ sweeper = "wait"
    /\ due' = {d \in MailDomain : IsDue(d)}
    /\ sweeper' = "sweep"
    /\ UNCHANGED <<row, memo, jobVars, flags>>

EndLoop ==
    /\ sweeper = "wait" /\ (stopped \/ sweepCancelled)
    /\ sweeper' = "ended"
    /\ UNCHANGED <<row, memo, due, jobVars, flags>>

(* One goroutine a domain; once the context has ended, no more of them. *)
Spawn ==
    /\ sweeper = "sweep" /\ ~sweepCancelled
    /\ \E d \in due : due' = due \ {d} /\ job' = [job EXCEPT ![d] = "spawned"]
    /\ UNCHANGED <<row, memo, sweeper, previous, result, flags>>

Abandon ==
    /\ sweeper = "sweep" /\ sweepCancelled /\ due # {}
    /\ due' = {}
    /\ UNCHANGED <<row, memo, sweeper, jobVars, flags>>

(* wg.Wait *)
SweepEnds ==
    /\ sweeper = "sweep" /\ due = {} /\ job = [d \in MailDomain |-> "none"]
    /\ sweeper' = "wait"
    /\ UNCHANGED <<row, memo, due, jobVars, flags>>

InFlight == {d \in MailDomain : job[d] \in {"read", "check", "store"}}

Acquire(d) ==
    /\ job[d] = "spawned"
    /\ \/ Cardinality(InFlight) < Concurrency /\ job' = [job EXCEPT ![d] = "read"]
       \/ sweepCancelled /\ job' = [job EXCEPT ![d] = "none"]
    /\ UNCHANGED <<row, memo, sweeper, due, previous, result, flags>>

(* GetEmailDomainCheck *)
ReadPrevious(d) ==
    /\ job[d] = "read"
    /\ \/ ~sweepCancelled /\ previous' = [previous EXCEPT ![d] = row[d]]
       \/ previous' = [previous EXCEPT ![d] = Unread]
    /\ job' = [job EXCEPT ![d] = "check"]
    /\ UNCHANGED <<row, memo, sweeper, due, result, flags>>

(* CheckDomain; once the context has ended, no lookup answers, or none is     *)
(* made and nothing remembered.                                               *)
CheckDomain(d) ==
    /\ job[d] = "check"
    /\ \/ /\ memo[d] # Missing
          /\ result' = [result EXCEPT ![d] = memo[d].finding] /\ UNCHANGED memo
       \/ /\ memo[d] = Missing
          /\ \E mx \in Mx, hosts \in (SUBSET Host) \ {{}}, own \in DnsAnswer, address \in [Host -> DnsAnswer] :
                /\ sweepCancelled => mx = "failed"
                /\ LET f == [status |-> Check(mx, hosts, own, address),
                             evidence |-> EvidenceOf(mx, hosts, own, address)]
                   IN /\ result' = [result EXCEPT ![d] = f]
                      /\ \/ memo' = [memo EXCEPT ![d] =
                               [finding |-> f, left |-> IF Stable(f.status) THEN FindingTtl ELSE 1]]
                         \/ sweepCancelled /\ UNCHANGED memo
    /\ job' = [job EXCEPT ![d] = "store"]
    /\ UNCHANGED <<row, sweeper, due, previous, flags>>

-----------------------------------------------------------------------------
Return(d) ==
    /\ job' = [job EXCEPT ![d] = "none"]
    /\ previous' = [previous EXCEPT ![d] = Missing]
    /\ result' = [result EXCEPT ![d] = Missing]
    /\ UNCHANGED <<sweeper, due, flags>>

(* The row StoreEmailDomainCheck writes. *)
CarriesForward(f, prev) ==
    ~Stable(f.status) /\ prev \notin {Missing, Unread} /\ Stable(prev.finding.status)

NewRow(f, prev) ==
    IF CarriesForward(f, prev)
    THEN [prev EXCEPT !.attempted = 0, !.error = TRUE]
    ELSE [finding |-> f, checked |-> 0, attempted |-> 0, error |-> ~Stable(f.status)]

(* Neither the lookup nor the read of the previous row worked. *)
MustSkipNever(d) == FALSE     \* faulty variant: writes what it has
MustSkip(d) == ~Stable(result[d].status) /\ previous[d] = Unread

SkipWriteNotDone(d) ==        \* faulty variant: returns without wg.Done
    /\ job[d] = "store" /\ MustSkip(d)
    /\ memo' = [memo EXCEPT ![d] = Missing]
    /\ UNCHANGED <<row, sweeper, due, jobVars, flags>>
SkipWrite(d) ==
    /\ job[d] = "store" /\ MustSkip(d)
    /\ memo' = [memo EXCEPT ![d] = Missing]
    /\ Return(d) /\ UNCHANGED row

StoreCheck(d) ==
    /\ job[d] = "store" /\ ~MustSkip(d) /\ ~sweepCancelled
    /\ row' = [row EXCEPT ![d] = NewRow(result[d], previous[d])]
    /\ Return(d) /\ UNCHANGED memo

StoreFails(d) ==
    /\ job[d] = "store" /\ ~MustSkip(d)
    /\ memo' = [memo EXCEPT ![d] = Missing]
    /\ Return(d) /\ UNCHANGED row

-----------------------------------------------------------------------------
StopSweeper == ~stopped /\ stopped' = TRUE /\ UNCHANGED <<row, memo, sweeper, due, jobVars, sweepCancelled>>
CancelSweep == ~sweepCancelled /\ sweepCancelled' = TRUE /\ UNCHANGED <<row, memo, sweeper, due, jobVars, stopped>>

Aged(n) == IF n < MaxRowAge THEN n + 1 ELSE n
OlderFinding(f) == [f EXCEPT !.evidence.age = Aged(@)]

(* Time.  What a goroutine does between its lookup and its write takes none   *)
(* that counts.                                                               *)
SweepTick ==
    /\ \A d \in MailDomain : job[d] # "store"
    /\ row' = [d \in MailDomain |-> IF row[d] = Missing THEN Missing
                                ELSE [row[d] EXCEPT !.finding = OlderFinding(@),
                                        !.checked = Aged(@), !.attempted = Aged(@)]]
    /\ memo' = [d \in MailDomain |-> IF memo[d] = Missing \/ memo[d].left = 1 THEN Missing
                                 ELSE [finding |-> OlderFinding(memo[d].finding),
                                       left |-> memo[d].left - 1]]
    /\ previous' = [d \in MailDomain |-> IF previous[d] \in {Missing, Unread} THEN previous[d] ELSE row'[d]]
    /\ UNCHANGED <<sweeper, due, job, result, flags>>

(* The daemon ends, in whatever state it is, and is started again. *)
RestartSweeper ==
    /\ memo' = [d \in MailDomain |-> Missing]
    /\ sweeper' = "wait" /\ due' = {}
    /\ job' = [d \in MailDomain |-> "none"]
    /\ previous' = [d \in MailDomain |-> Missing] /\ result' = [d \in MailDomain |-> Missing]
    /\ stopped' = FALSE /\ sweepCancelled' = FALSE
    /\ UNCHANGED row

JobStep(d) ==
    \/ Acquire(d) \/ ReadPrevious(d) \/ CheckDomain(d)
    \/ SkipWrite(d) \/ StoreCheck(d) \/ StoreFails(d)

SweeperStep == EndLoop \/ Spawn \/ Abandon \/ SweepEnds

SweepNext ==
    \/ Sweep \/ SweeperStep
    \/ \E d \in MailDomain : JobStep(d)
    \/ StopSweeper \/ CancelSweep \/ SweepTick \/ RestartSweeper

SweepSpec == SweepInit /\ [][SweepNext]_sweepVars

(* Goroutines run, and lookups and queries end, by their timeouts if not      *)
(* otherwise.  A goroutine that waits for a slot of the semaphore gets one in *)
(* the end, because each of the others runs once in a sweep.                  *)
SweepFairness ==
    /\ WF_sweepVars(SweeperStep)
    /\ \A d \in MailDomain : WF_sweepVars(JobStep(d))

FairSweepSpec == SweepSpec /\ SweepFairness

-----------------------------------------------------------------------------
(* "a transient failure must never overwrite a good stored verdict": whatever *)
(* fails, the lookup, the read of the previous row or both, an established    *)
(* verdict is only ever replaced by another.                                  *)
VerdictKept ==
    [][\A d \in MailDomain : row[d] # Missing /\ Stable(row[d].finding.status)
            => Stable(row'[d].finding.status)]_sweepVars

(* A domain is called dead only when every lookup made for it answered, and   *)
(* routable only when some name had an address.                               *)
VerdictJustified ==
    \A d \in MailDomain : row[d] # Missing =>
        CASE row[d].finding.status = "dead" -> row[d].finding.evidence.complete
          [] row[d].finding.status = "routable" -> row[d].finding.evidence.reached
          [] OTHER -> TRUE

(* "CheckTime is when the current verdict was established", also of a verdict *)
(* carried forward any number of times, but for the time it may have been in  *)
(* the resolver's cache.                                                      *)
CheckTimeHonest ==
    \A d \in MailDomain : row[d] # Missing /\ row[d].finding.evidence.age < MaxRowAge
        => row[d].finding.evidence.age - row[d].checked < FindingTtl

(* "so the next sweep really re-resolves rather than replaying a success that *)
(* was never persisted"                                                       *)
NotReplayed ==
    \A d \in MailDomain :
        memo[d] # Missing /\ job[d] # "store" => row[d] # Missing /\
            (Stable(memo[d].finding.status) => row[d].finding.status = memo[d].finding.status)

(* What a row says was looked up, and when, also after a write that failed.   *)
(* [resolveHosts, classify, storeDomain, Forget]                              *)
RowsSound == SweepTypeOK /\ VerdictJustified /\ CheckTimeHonest /\ NotReplayed

(* A sweep ends, and with it the wait for the next, whatever fails in it. *)
SweepReturns == sweeper = "sweep" ~> sweeper # "sweep"
============================================================================
