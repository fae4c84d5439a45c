---------------------------- MODULE AkaSchedule ----------------------------
(***************************************************************************)
(* The daemon's schedule and the groups of entries that are one machine.   *)
(* A system listed in several networks has one entry in each.  A cycle     *)
(* tests one entry of such a group and defers those of other networks; a   *)
(* successful test gives the announced ones derived results.  Tests of one *)
(* cycle overlap in time; a result carries the time its test began.        *)
(*                                                                         *)
(* Time is counted in units, every step may be followed by the clock's.    *)
(* Never tested is time 0, as the zero Time is before every other.         *)
(***************************************************************************)
EXTENDS Integers, FiniteSets

CONSTANTS
    Entry,        \* entries of the schedule
    DomainOf,     \* the network of each entry
    Hostname,     \* hostnames
    ListedHosts,  \* the hostnames of each entry in the first nodelists
    Announces,    \* the entries whose addresses each entry's mailer presents
    Base,         \* interval after a success
    Retry,        \* interval after a failure
    Jitter,       \* largest change of an interval by addJitter
    StaleTestThreshold,
    MaxNodes,     \* entries in one selection: BatchSize * Workers
    TestLimit,    \* the entries the operator names, {} for the regular schedule
    None,
    MaxTime, MaxRefreshes   \* bounds of the model

ASSUME AkaAssumption ==
    /\ {Base, Retry, StaleTestThreshold, Jitter, MaxTime, MaxRefreshes} \subseteq Nat
    /\ Jitter < Base /\ Jitter < Retry
    /\ None \notin Entry
    /\ Announces \in [Entry -> SUBSET Entry]
    /\ ListedHosts \in [Entry -> SUBSET Hostname]

VARIABLES
    now,          \* the clock
    sched,        \* per entry: time and outcome of the last result, next test
    hosts,        \* the hostnames of each entry in the current nodelists
    links,        \* the equivalence index, a set of pairs
    pc,           \* "idle" or "cycle"
    began,        \* when the cycle began
    phase,        \* where each entry of the cycle is
    start,        \* when each test of the cycle began
    claimed,      \* cycleCoverage
    standIn,      \* the entry tested instead of a deferred one
    stoodIn,      \* the stand-ins of earlier cycles since the last result
    refreshes     \* nodelist refreshes so far

cycleVars == <<pc, began, phase, start, claimed>>
vars == <<now, sched, hosts, links, cycleVars, standIn, stoodIn, refreshes>>

(***************************************************************************)
(* The equivalence index                                                   *)
(***************************************************************************)
OtherNetwork(a, b) == DomainOf[a] # DomainOf[b]

HostnamesOverlap(h, a, b) == h[a] \cap h[b] # {}

(* SeedFromNodes: identical, non-empty hostname sets in two networks. *)
SeedFromNodes(h) ==
    {p \in SUBSET Entry : \E a, b \in Entry :
        p = {a, b} /\ OtherNetwork(a, b) /\ h[a] # {} /\ h[a] = h[b]}

(* Entries that a recent test may have announced.  Which of them did is in *)
(* the test history of the last days.                                      *)
AnnouncedLinks(h) ==
    {p \in SUBSET Entry : \E a \in Entry : \E b \in Announces[a] :
        p = {a, b} /\ OtherNetwork(a, b) /\ HostnamesOverlap(h, a, b)}

(* faulty variant: only the direct links *)
GroupDirect(e) == {x \in Entry : x = e \/ {e, x} \in links}

(* Group: everything reachable over links. *)
Group(e) ==
    {x \in Entry : \A S \in SUBSET Entry :
        e \in S /\ (\A p \in links : p \cap S # {} => p \subseteq S) => x \in S}

(***************************************************************************)
(* The schedule                                                            *)
(***************************************************************************)

(* calculateNextTestTime: a time already past is moved to the next interval *)
(* boundary, and by up to one unit more.                                   *)
NextTestTimes(last, ok, t) ==
    LET base == IF ok THEN Base ELSE Retry
    IN  IF last = 0
        THEN {t}
        ELSE UNION {IF last + i >= t
                    THEN {last + i}
                    ELSE {last + ((t - last) \div i + 1) * i + j : j \in 0..1}
                    : i \in (base - Jitter)..(base + Jitter)}

Due(e) ==
    \/ sched[e].next <= now
    \/ sched[e].last # 0 /\ now - sched[e].last > StaleTestThreshold

(* The types; next times lie in the future of the results they follow. *)
TypeOK ==
    /\ now \in 1..MaxTime
    /\ sched \in [Entry -> [last : 0..MaxTime, ok : BOOLEAN, next : Nat]]
    /\ \A e \in Entry : sched[e].last < sched[e].next
    /\ hosts \in [Entry -> SUBSET Hostname]
    /\ \A p \in links : p \subseteq Entry /\ Cardinality(p) = 2
    /\ pc \in {"idle", "cycle"} /\ began \in 0..MaxTime
    /\ phase \in [Entry -> {"out", "queued", "testing", "deriving", "done"}]
    /\ start \in [Entry -> 0..MaxTime]
    /\ claimed \in SUBSET Entry
    /\ standIn \in [Entry -> Entry \cup {None}]
    /\ stoodIn \in [Entry -> SUBSET Entry]
    /\ refreshes \in 0..MaxRefreshes

(* InitializeSchedules and seedAkaEquivalence, after any history. *)
Init ==
    /\ now = 2
    /\ \E last \in [Entry -> 0..1], ok \in [Entry -> BOOLEAN] :
       \E next \in [Entry -> 0..(2 + Base + Retry + 2 * Jitter)] :
          /\ \A e \in Entry : /\ next[e] \in NextTestTimes(last[e], ok[e], now)
                              /\ last[e] = 0 => ~ok[e]
          /\ sched = [e \in Entry |-> [last |-> last[e], ok |-> ok[e], next |-> next[e]]]
    /\ hosts = ListedHosts
    /\ \E recent \in SUBSET AnnouncedLinks(ListedHosts) :
          links = SeedFromNodes(ListedHosts) \cup recent
    /\ pc = "idle" /\ began = 0
    /\ phase = [e \in Entry |-> "out"]
    /\ start = [e \in Entry |-> 0]
    /\ claimed = {}
    /\ standIn = [e \in Entry |-> None]
    /\ stoodIn = [e \in Entry |-> {}]
    /\ refreshes = 0

(***************************************************************************)
(* The cycle                                                               *)
(***************************************************************************)

(* faulty variant: the freshest member is kept *)
StalestNot(due) == {x \in due : \A y \in due : sched[x].last >= sched[y].last}

(* The members with the oldest result. *)
Stalest(due) == {x \in due : \A y \in due : sched[x].last <= sched[y].last}

(* collapseAKAGroups: of each group's due members a stalest one is tested; *)
(* members of its own network are tested too, the others are deferred.     *)
Collapse(selected) ==
    LET dueOf(e) == Group(e) \cap selected
    IN  \E rep \in [{dueOf(e) : e \in selected} -> selected] :
          /\ \A e \in selected : rep[dueOf(e)] \in Stalest(dueOf(e))
          /\ LET deferred == {e \in selected : OtherNetwork(e, rep[dueOf(e)])}
             IN  /\ phase' = [e \in Entry |-> IF e \in selected \ deferred THEN "queued" ELSE "out"]
                 /\ standIn' = [e \in Entry |-> IF e \in deferred THEN rep[dueOf(e)] ELSE None]

(* GetNodesForTesting: the due entries within their call windows, cut at   *)
(* MaxNodes (the order is a score's; here any), or, with a test limit, the *)
(* named ones, due or not.                                                 *)
StartCycle ==
    /\ pc = "idle"
    /\ \E callable \in SUBSET Entry :
       LET ready == {e \in callable : Due(e)}
       IN  \E selected \in IF TestLimit # {} THEN {TestLimit \cap callable} ELSE
                           IF Cardinality(ready) <= MaxNodes THEN {ready}
                           ELSE {S \in SUBSET ready : Cardinality(S) = MaxNodes} :
              selected # {} /\ Collapse(selected)
    /\ pc' = "cycle"
    /\ began' = now
    /\ claimed' = {}
    /\ start' = [e \in Entry |-> 0]
    /\ UNCHANGED <<now, sched, hosts, links, stoodIn, refreshes>>

(* A worker takes the entry's test. *)
Begin(e) ==
    /\ phase[e] = "queued"
    /\ phase' = [phase EXCEPT ![e] = "testing"]
    /\ start' = [start EXCEPT ![e] = now]
    /\ UNCHANGED <<now, sched, hosts, links, pc, began, claimed, standIn, stoodIn, refreshes>>

(* An entry that got a result needs no stand-in any more. *)
Covered(e) ==
    /\ standIn' = [standIn EXCEPT ![e] = None]
    /\ stoodIn' = [stoodIn EXCEPT ![e] = {}]

(* What UpdateTestResult and MarkDerivedResult do with the entry. *)
Record(e, last, ok) ==
    \E next \in NextTestTimes(last, ok, now) :
       sched' = [sched EXCEPT ![e] = [last |-> last, ok |-> ok, next |-> next]]

(* The test ends: UpdateTestResult.  Only a success is derived from. *)
Report(e) ==
    /\ phase[e] = "testing"
    /\ \E ok \in BOOLEAN :
          /\ Record(e, start[e], ok)
          /\ phase' = [phase EXCEPT ![e] = IF ok THEN "deriving" ELSE "done"]
    /\ Covered(e)
    /\ UNCHANGED <<now, hosts, links, pc, began, start, claimed, refreshes>>

(* The announced entries that the test of e covers. *)
Candidates(e) ==
    {c \in Announces[e] : OtherNetwork(e, c) /\ HostnamesOverlap(hosts, e, c)}

(* deriveAKAResults claims the next candidate: MarkDerivedResult and Link. *)
Derive(e, c) ==
    /\ phase[e] = "deriving"
    /\ c \in Candidates(e) \ claimed
    /\ claimed' = claimed \cup {c}
    /\ Record(c, start[e], TRUE)
    /\ links' = links \cup {{e, c}}
    /\ Covered(c)
    /\ UNCHANGED <<now, hosts, pc, began, phase, start, refreshes>>

(* ... until this test or another one of the cycle has claimed them all. *)
EndDerive(e) ==
    /\ phase[e] = "deriving"
    /\ Candidates(e) \subseteq claimed
    /\ phase' = [phase EXCEPT ![e] = "done"]
    /\ UNCHANGED <<now, sched, hosts, links, pc, began, start, claimed, standIn, stoodIn, refreshes>>

(* The cycle ends; the next one begins with a later tick of the clock. *)
EndCycle ==
    /\ pc = "cycle"
    /\ \A e \in Entry : phase[e] \in {"out", "done"}
    /\ now < MaxTime /\ now' = now + 1
    /\ pc' = "idle"
    /\ phase' = [e \in Entry |-> "out"]
    /\ stoodIn' = [e \in Entry |-> stoodIn[e] \cup ({standIn[e]} \ {None})]
    /\ standIn' = [e \in Entry |-> None]
    /\ UNCHANGED <<sched, hosts, links, began, start, claimed, refreshes>>

(* A new nodelist between two cycles changes an entry's hostnames: it is due *)
(* at once, and the index is seeded again.  Links are only ever added.     *)
Refresh(e) ==
    /\ pc = "idle"
    /\ refreshes < MaxRefreshes /\ refreshes' = refreshes + 1
    /\ \E h \in (SUBSET Hostname) \ {hosts[e]} : hosts' = [hosts EXCEPT ![e] = h]
    /\ sched' = [sched EXCEPT ![e] = [last |-> @.last, ok |-> @.ok, next |-> now]]
    /\ \E recent \in SUBSET AnnouncedLinks(hosts') :
          links' = links \cup SeedFromNodes(hosts') \cup recent
    /\ UNCHANGED <<now, cycleVars, standIn, stoodIn>>

Tick ==
    /\ now < MaxTime /\ now' = now + 1
    /\ UNCHANGED <<sched, hosts, links, cycleVars, standIn, stoodIn, refreshes>>

TestStep == \E e \in Entry : Begin(e) \/ Report(e) \/ EndDerive(e) \/ \E c \in Entry : Derive(e, c)

Next == StartCycle \/ TestStep \/ EndCycle \/ (\E e \in Entry : Refresh(e)) \/ Tick

Spec == Init /\ [][Next]_vars

(***************************************************************************)
(* Properties                                                              *)
(***************************************************************************)

(* Between two results of its own an entry is never deferred twice for the *)
(* same stand-in: whatever fails, is announced or is listed anew, a group  *)
(* takes turns, and the deferred entry has its test after at most as many  *)
(* cycles as the group has other members (collapseAKAGroups: "covered by   *)
(* derivation or picked up next cycle").                                   *)
TakesTurns == \A e \in Entry : standIn[e] # None => standIn[e] \notin stoodIn[e]

(* The entries a cycle sets out to test contain no two linked entries of   *)
(* different networks, directly or over others; and a deferred entry's      *)
(* stand-in is among them, of another network and at least as stale.       *)
OneNetworkPerGroup ==
    [][ pc = "idle" /\ pc' = "cycle" =>
          /\ \A a, b \in Entry :
                phase'[a] = "queued" /\ phase'[b] = "queued" /\ b \in Group(a)
                  => ~OtherNetwork(a, b)
          /\ \A e \in Entry : LET r == standIn'[e] IN
                r # None => /\ phase'[r] = "queued" /\ phase'[e] = "out"
                            /\ OtherNetwork(e, r) /\ sched[r].last <= sched[e].last ]_vars
=============================================================================
