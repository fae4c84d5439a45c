------------------------- MODULE AkaSchedule_proofs -------------------------
(***************************************************************************)
(* Deferral is fair, for every set of entries, networks and announcements. *)
(* The argument: a stand-in is at least as stale as the entry it stands for *)
(* when the cycle begins, and its result, which carries a time within the  *)
(* cycle, makes it strictly fresher.  Whoever stood in once is fresher from *)
(* then on, so it cannot be a stalest member while the entry has no result *)
(* of its own.                                                             *)
(***************************************************************************)
EXTENDS AkaSchedule, TLAPS

Types ==
    /\ now \in Nat /\ began \in Nat
    /\ pc \in {"idle", "cycle"}
    /\ sched \in [Entry -> [last : Nat, ok : BOOLEAN, next : Int]]
    /\ phase \in [Entry -> {"out", "queued", "testing", "deriving", "done"}]
    /\ start \in [Entry -> Nat]
    /\ standIn \in [Entry -> Entry \cup {None}]
    /\ stoodIn \in [Entry -> SUBSET Entry]
    /\ links \in SUBSET (SUBSET Entry)

(* Between two cycles every result is older than the clock; in a cycle the *)
(* results of the cycle, and the tests it has begun, are not older than it. *)
Clock ==
    /\ began <= now
    /\ pc = "idle" => \A e \in Entry :
          sched[e].last < now /\ phase[e] = "out" /\ standIn[e] = None
    /\ pc = "cycle" => \A e \in Entry :
          /\ phase[e] \in {"testing", "deriving", "done"} => began <= start[e] /\ start[e] <= now
          /\ phase[e] \in {"deriving", "done"} => began <= sched[e].last
          /\ sched[e].last <= now

(* A deferred entry has no result of the cycle, and its stand-in is in it. *)
Deferred ==
    \A e \in Entry :
       /\ standIn[e] # None =>
             /\ pc = "cycle" /\ phase[standIn[e]] # "out"
             /\ sched[e].last < began
       /\ \A x \in stoodIn[e] : sched[e].last < sched[x].last

(* What an entry gets in a cycle is not older than the cycle, so an entry that *)
(* had a stand-in before is older than the cycle too.                       *)
Waiting ==
    pc = "cycle" => \A e \in Entry : stoodIn[e] # {} => sched[e].last < began

Inv == Types /\ Clock /\ Deferred /\ Waiting /\ TakesTurns

LEMMA NextTimesInt ==
    ASSUME NEW last \in Nat, NEW ok \in BOOLEAN, NEW t \in Nat, NEW n \in NextTestTimes(last, ok, t)
    PROVE  n \in Int
<1> DEFINE base == IF ok THEN Base ELSE Retry
<1>0. base \in Nat /\ Jitter \in Nat /\ Jitter < base
  BY AkaAssumption
<1> HIDE DEF base
<1>1. CASE last = 0
  BY <1>1 DEF NextTestTimes
<1>2. CASE last # 0
  <2>1. PICK i \in (base - Jitter)..(base + Jitter) :
           n \in IF last + i >= t THEN {last + i}
                 ELSE {last + ((t - last) \div i + 1) * i + j : j \in 0..1}
    BY <1>2 DEF NextTestTimes, base
  <2>2. i \in Nat /\ i > 0
    BY <1>0
  <2>3. (t - last) \div i \in Int
    BY <2>2
  <2>4. ((t - last) \div i + 1) * i \in Int
    BY <2>2, <2>3
  <2> QED BY <2>1, <2>2, <2>4
<1> QED BY <1>1, <1>2

LEMMA InitInv == Init => Inv
<1> SUFFICES ASSUME Init PROVE Inv
  OBVIOUS
<1>1. PICK last \in [Entry -> 0..1], ok \in [Entry -> BOOLEAN] :
        \E next \in [Entry -> 0..(2 + Base + Retry + 2 * Jitter)] :
           sched = [e \in Entry |-> [last |-> last[e], ok |-> ok[e], next |-> next[e]]]
  BY DEF Init
<1>2. PICK next \in [Entry -> 0..(2 + Base + Retry + 2 * Jitter)] :
           sched = [e \in Entry |-> [last |-> last[e], ok |-> ok[e], next |-> next[e]]]
  BY <1>1
<1>3. \A e \in Entry : next[e] \in Int
  BY AkaAssumption
<1>4. Types
  BY <1>2, <1>3 DEF Init, Types, SeedFromNodes, AnnouncedLinks
<1>5. Clock
  BY <1>2, <1>4 DEF Init, Clock
<1> QED BY <1>4, <1>5 DEF Init, Inv, Deferred, Waiting, TakesTurns

(* A result of the cycle for entry c that carries the begin of entry e's    *)
(* test: UpdateTestResult when c = e, MarkDerivedResult otherwise.         *)
LEMMA ResultKeepsInv ==
    ASSUME Inv, pc = "cycle", NEW e \in Entry, NEW c \in Entry, NEW ok \in BOOLEAN,
           phase[e] \in {"testing", "deriving"},
           Record(c, start[e], ok), Covered(c),
           UNCHANGED <<now, pc, began, start>>,
           links' \in SUBSET (SUBSET Entry),
           phase' \in [Entry -> {"out", "queued", "testing", "deriving", "done"}],
           \A x \in Entry : \/ phase'[x] = phase[x]
                            \/ x = c /\ phase[x] # "out" /\ phase[x] = "testing"
                               /\ phase'[x] \in {"deriving", "done"}
    PROVE  Inv'
<1>1. PICK next \in NextTestTimes(start[e], ok, now) :
        sched' = [sched EXCEPT ![c] = [last |-> start[e], ok |-> ok, next |-> next]]
  BY DEF Record
<1>2. start[e] \in Nat /\ began <= start[e] /\ start[e] <= now
  BY DEF Inv, Types, Clock
<1>3. next \in Int
  BY <1>1, <1>2, NextTimesInt DEF Inv, Types
<1>4. sched' \in [Entry -> [last : Nat, ok : BOOLEAN, next : Int]]
      /\ sched'[c].last = start[e] /\ \A x \in Entry : x # c => sched'[x] = sched[x]
  BY <1>1, <1>2, <1>3 DEF Inv, Types
<1>5. /\ standIn' \in [Entry -> Entry \cup {None}] /\ standIn'[c] = None
      /\ \A x \in Entry : x # c => standIn'[x] = standIn[x]
  BY DEF Covered, Inv, Types
<1>6. /\ stoodIn' \in [Entry -> SUBSET Entry] /\ stoodIn'[c] = {}
      /\ \A x \in Entry : x # c => stoodIn'[x] = stoodIn[x]
  BY DEF Covered, Inv, Types
<1>7. Types'
  BY <1>4, <1>5, <1>6 DEF Inv, Types
<1>8. Clock'
  BY <1>2, <1>4 DEF Inv, Types, Clock
<1>9. Waiting'
  BY <1>4, <1>6 DEF Inv, Waiting
<1>10. Deferred'
  <2> SUFFICES ASSUME NEW x \in Entry
               PROVE  /\ standIn'[x] # None =>
                            /\ pc' = "cycle" /\ phase'[standIn'[x]] # "out"
                            /\ sched'[x].last < began'
                      /\ \A y \in stoodIn'[x] : sched'[x].last < sched'[y].last
    BY DEF Deferred
  <2>1. CASE x = c
    BY <2>1, <1>5, <1>6
  <2>2. CASE x # c
    <3>1. standIn'[x] = standIn[x] /\ stoodIn'[x] = stoodIn[x] /\ sched'[x] = sched[x]
      BY <2>2, <1>4, <1>5, <1>6
    <3>2. standIn[x] # None => standIn[x] \in Entry
      BY DEF Inv, Types
    <3>3. \A y \in stoodIn[x] : y \in Entry /\ sched[x].last < began
      BY DEF Inv, Types, Waiting
    <3>4. \A y \in stoodIn[x] : sched'[x].last < sched'[y].last
      BY <3>1, <3>3, <1>2, <1>4, <1>7 DEF Inv, Types, Deferred
    <3> QED BY <3>1, <3>2, <3>4 DEF Inv, Deferred
  <2> QED BY <2>1, <2>2
<1>11. TakesTurns'
  BY <1>5, <1>6 DEF Inv, TakesTurns
<1> QED BY <1>7, <1>8, <1>9, <1>10, <1>11 DEF Inv

(* Groups do not overlap. *)
LEMMA SameGroup ==
    ASSUME links \in SUBSET (SUBSET Entry), NEW e \in Entry, NEW r \in Group(e)
    PROVE  Group(r) = Group(e)
<1>1. r \in Entry /\ Group(r) \subseteq Group(e)
  BY DEF Group
<1>2. e \in Group(r)
  <2> SUFFICES ASSUME NEW S \in SUBSET Entry, r \in S,
                      \A p \in links : p \cap S # {} => p \subseteq S, e \notin S
               PROVE  FALSE
    BY DEF Group
  <2>1. \A p \in links : p \cap (Entry \ S) # {} => p \cap S = {}
    OBVIOUS
  <2>2. \A p \in links : p \cap (Entry \ S) # {} => p \subseteq Entry \ S
    BY <2>1
  <2>3. r \in Entry \ S
    BY <1>1, <2>2 DEF Group
  <2> QED BY <2>3
<1>3. Group(e) \subseteq Group(r)
  BY <1>2 DEF Group
<1> QED BY <1>1, <1>3

(* What a collapse leaves of the selected entries: a stand-in's group is the *)
(* entry's group, so that it is itself selected and not deferred, and those  *)
(* of one group that are left are of the stand-in's network.                 *)
LEMMA Collapsed ==
    ASSUME links \in SUBSET (SUBSET Entry), NEW selected \in SUBSET Entry, Collapse(selected)
    PROVE  /\ standIn' \in [Entry -> Entry \cup {None}] /\ phase' \in [Entry -> {"queued", "out"}]
           /\ \A e \in Entry : standIn'[e] # None =>
                 /\ phase'[standIn'[e]] = "queued" /\ phase'[e] = "out"
                 /\ OtherNetwork(e, standIn'[e]) /\ sched[standIn'[e]].last <= sched[e].last
           /\ \A a, b \in Entry :
                 phase'[a] = "queued" /\ phase'[b] = "queued" /\ b \in Group(a)
                    => ~OtherNetwork(a, b)
<1> DEFINE dueOf(e) == Group(e) \cap selected
<1>1. PICK rep \in [{dueOf(e) : e \in selected} -> selected] :
        /\ \A e \in selected : rep[dueOf(e)] \in Stalest(dueOf(e))
        /\ LET deferred == {e \in selected : OtherNetwork(e, rep[dueOf(e)])}
           IN  /\ phase' = [e \in Entry |-> IF e \in selected \ deferred THEN "queued" ELSE "out"]
               /\ standIn' = [e \in Entry |-> IF e \in deferred THEN rep[dueOf(e)] ELSE None]
  BY DEF Collapse
<1> DEFINE deferred == {e \in selected : OtherNetwork(e, rep[dueOf(e)])}
<1>2. /\ phase' = [e \in Entry |-> IF e \in selected \ deferred THEN "queued" ELSE "out"]
      /\ standIn' = [e \in Entry |-> IF e \in deferred THEN rep[dueOf(e)] ELSE None]
  BY <1>1
<1>3. \A e \in selected : rep[dueOf(e)] \in selected
  BY <1>1
<1>4. \A e \in selected : e \in dueOf(e)
  BY DEF Group
<1>5. \A e \in selected : sched[rep[dueOf(e)]].last <= sched[e].last
  <2> SUFFICES ASSUME NEW e \in selected PROVE sched[rep[dueOf(e)]].last <= sched[e].last
    OBVIOUS
  <2>1. e \in dueOf(e) /\ rep[dueOf(e)] \in Stalest(dueOf(e))
    BY <1>1, <1>4
  <2> HIDE DEF dueOf
  <2> QED BY <2>1 DEF Stalest
<1>6. \A e, x \in selected : x \in Group(e) => dueOf(x) = dueOf(e)
  BY SameGroup
<1>7. \A e \in selected : rep[dueOf(e)] \in Group(e)
  BY <1>1 DEF Stalest
<1>8. \A e \in selected : dueOf(rep[dueOf(e)]) = dueOf(e)
  BY <1>3, <1>6, <1>7
<1>9. \A e \in deferred : rep[dueOf(e)] \in selected \ deferred
  <2> SUFFICES ASSUME NEW e \in deferred PROVE rep[dueOf(e)] \in selected \ deferred
    OBVIOUS
  <2> DEFINE r == rep[dueOf(e)]
  <2>1. r \in selected
    BY <1>3
  <2>2. rep[dueOf(r)] = r
    BY <1>8
  <2> QED BY <2>1, <2>2 DEF OtherNetwork
<1>10. \A a, b \in Entry :
          phase'[a] = "queued" /\ phase'[b] = "queued" /\ b \in Group(a) => ~OtherNetwork(a, b)
  <2> SUFFICES ASSUME NEW a \in selected \ deferred, NEW b \in selected \ deferred, b \in Group(a)
               PROVE  ~OtherNetwork(a, b)
    BY <1>2
  <2>1. dueOf(b) = dueOf(a)
    BY <1>6
  <2>2. ~OtherNetwork(a, rep[dueOf(a)]) /\ ~OtherNetwork(b, rep[dueOf(a)])
    BY <2>1
  <2> QED BY <2>2 DEF OtherNetwork
<1>11. \A e \in deferred : OtherNetwork(e, rep[dueOf(e)]) /\ e \in selected /\ e \in Entry
  OBVIOUS
<1> HIDE DEF deferred, dueOf
<1>12. standIn' \in [Entry -> Entry \cup {None}] /\ phase' \in [Entry -> {"queued", "out"}]
  BY <1>2, <1>3, <1>11
<1>13. \A e \in Entry : standIn'[e] # None => e \in deferred /\ standIn'[e] = rep[dueOf(e)]
  BY <1>2
<1> QED BY <1>2, <1>3, <1>5, <1>9, <1>10, <1>11, <1>12, <1>13

LEMMA SelectionCollapsed ==
    ASSUME StartCycle PROVE \E selected \in SUBSET Entry : Collapse(selected)
<1>1. PICK callable \in SUBSET Entry :
        \E selected \in IF TestLimit # {} THEN {TestLimit \cap callable} ELSE
                        IF Cardinality({e \in callable : Due(e)}) <= MaxNodes
                        THEN {{e \in callable : Due(e)}}
                        ELSE {S \in SUBSET {e \in callable : Due(e)} : Cardinality(S) = MaxNodes} :
           selected # {} /\ Collapse(selected)
  BY DEF StartCycle
<1> QED BY <1>1

LEMMA StartCycleKeepsInv == ASSUME Inv, StartCycle PROVE Inv'
<1>1. PICK selected \in SUBSET Entry : Collapse(selected)
  BY SelectionCollapsed
<1>2. /\ standIn' \in [Entry -> Entry \cup {None}] /\ phase' \in [Entry -> {"queued", "out"}]
      /\ \A e \in Entry : standIn'[e] # None =>
            phase'[standIn'[e]] = "queued" /\ sched[standIn'[e]].last <= sched[e].last
  BY <1>1, Collapsed DEF Inv, Types
<1>3. /\ pc' = "cycle" /\ began' = now /\ start' = [e \in Entry |-> 0]
      /\ UNCHANGED <<now, sched, links, stoodIn>> /\ pc = "idle"
  BY DEF StartCycle
<1>4. Types'
  BY <1>2, <1>3 DEF Inv, Types
<1>5. Clock'
  BY <1>2, <1>3 DEF Inv, Types, Clock
<1>6. Deferred'
  BY <1>2, <1>3 DEF Inv, Types, Deferred, Clock
<1>7. Waiting'
  BY <1>3 DEF Inv, Waiting, Clock
<1>8. TakesTurns'
  <2> SUFFICES ASSUME NEW e \in Entry, standIn'[e] # None, standIn'[e] \in stoodIn[e] PROVE FALSE
    BY <1>3 DEF TakesTurns
  <2>1. sched[e].last < sched[standIn'[e]].last
    BY DEF Inv, Deferred
  <2> QED BY <1>2, <2>1 DEF Inv, Types
<1> QED BY <1>4, <1>5, <1>6, <1>7, <1>8 DEF Inv

LEMMA TestStepKeepsInv == ASSUME Inv, TestStep PROVE Inv'
<1>1. PICK e \in Entry : Begin(e) \/ Report(e) \/ EndDerive(e) \/ \E c \in Entry : Derive(e, c)
  BY DEF TestStep
<1>2. pc = "cycle"
  BY <1>1 DEF Begin, Report, EndDerive, Derive, Inv, Types, Clock
<1>3. CASE Begin(e)
  <2>1. Types'
    BY <1>3 DEF Begin, Inv, Types
  <2>2. Clock'
    BY <1>3, <1>2 DEF Begin, Inv, Types, Clock
  <2>3. Deferred'
    BY <1>3, <1>2 DEF Begin, Inv, Types, Deferred
  <2> QED BY <1>3, <2>1, <2>2, <2>3 DEF Begin, Inv, Waiting, TakesTurns
<1>4. CASE Report(e)
  <2>1. PICK ok \in BOOLEAN : /\ Record(e, start[e], ok)
                             /\ phase' = [phase EXCEPT ![e] = IF ok THEN "deriving" ELSE "done"]
    BY <1>4 DEF Report
  <2>2. phase' \in [Entry -> {"out", "queued", "testing", "deriving", "done"}]
    BY <2>1 DEF Inv, Types
  <2>3. phase[e] = "testing" /\ \A x \in Entry : phase'[x] = phase[x] \/ (x = e /\ phase'[x] \in {"deriving", "done"})
    BY <1>4, <2>1 DEF Report, Inv, Types
  <2>4. Covered(e) /\ UNCHANGED <<now, links, pc, began, start>>
    BY <1>4 DEF Report
  <2>5. links' \in SUBSET (SUBSET Entry)
    BY <2>4 DEF Inv, Types
  <2> QED BY <1>2, <2>1, <2>2, <2>3, <2>4, <2>5, ResultKeepsInv
<1>5. CASE EndDerive(e)
  <2>1. Types'
    BY <1>5 DEF EndDerive, Inv, Types
  <2>2. Clock'
    BY <1>5, <1>2 DEF EndDerive, Inv, Types, Clock
  <2>3. Deferred'
    BY <1>5, <1>2 DEF EndDerive, Inv, Types, Deferred
  <2> QED BY <1>5, <2>1, <2>2, <2>3 DEF EndDerive, Inv, Waiting, TakesTurns
<1>6. CASE \E c \in Entry : Derive(e, c)
  <2>1. PICK c \in Entry : Derive(e, c)
    BY <1>6
  <2>2. /\ phase[e] = "deriving" /\ Record(c, start[e], TRUE) /\ Covered(c)
        /\ UNCHANGED <<now, pc, began, start, phase>> /\ links' = links \cup {{e, c}}
    BY <2>1 DEF Derive
  <2>3. links' \in SUBSET (SUBSET Entry)
        /\ phase' \in [Entry -> {"out", "queued", "testing", "deriving", "done"}]
    BY <2>2 DEF Inv, Types
  <2>4. TRUE \in BOOLEAN
    BY Zenon
  <2> QED BY <1>2, <2>2, <2>3, <2>4, ResultKeepsInv
<1> QED BY <1>1, <1>3, <1>4, <1>5, <1>6

LEMMA EndCycleKeepsInv == ASSUME Inv, EndCycle PROVE Inv'
<1>1. /\ pc = "cycle" /\ pc' = "idle" /\ now' = now + 1
      /\ phase' = [e \in Entry |-> "out"] /\ standIn' = [e \in Entry |-> None]
      /\ stoodIn' = [e \in Entry |-> stoodIn[e] \cup ({standIn[e]} \ {None})]
      /\ UNCHANGED <<sched, links, began, start>>
      /\ \A e \in Entry : phase[e] \in {"out", "done"}
  BY DEF EndCycle
<1>2. Types'
  BY <1>1 DEF Inv, Types
<1>3. Clock'
  BY <1>1 DEF Inv, Types, Clock
<1>4. Deferred'
  <2> SUFFICES ASSUME NEW e \in Entry, NEW x \in stoodIn'[e]
               PROVE  sched[e].last < sched[x].last
    BY <1>1 DEF Deferred
  <2>1. CASE x \in stoodIn[e]
    BY <2>1 DEF Inv, Deferred
  <2>2. CASE x = standIn[e] /\ standIn[e] # None
    <3>1. x \in Entry /\ phase[x] # "out" /\ sched[e].last < began
      BY <2>2 DEF Inv, Types, Deferred
    <3>2. began <= sched[x].last
      BY <3>1, <1>1 DEF Inv, Clock
    <3> QED BY <3>1, <3>2 DEF Inv, Types
  <2> QED BY <2>1, <2>2, <1>1
<1> QED BY <1>1, <1>2, <1>3, <1>4 DEF Inv, Waiting, TakesTurns

LEMMA RefreshKeepsInv == ASSUME Inv, NEW e \in Entry, Refresh(e) PROVE Inv'
<1>1. /\ sched' = [sched EXCEPT ![e] = [last |-> @.last, ok |-> @.ok, next |-> now]]
      /\ UNCHANGED <<now, cycleVars, standIn, stoodIn>>
  BY DEF Refresh
<1>2. links' \in SUBSET (SUBSET Entry)
  BY DEF Refresh, Inv, Types, SeedFromNodes, AnnouncedLinks
<1>3. sched' \in [Entry -> [last : Nat, ok : BOOLEAN, next : Int]]
      /\ \A x \in Entry : sched'[x].last = sched[x].last
  BY <1>1 DEF Inv, Types
<1>4. Types'
  BY <1>1, <1>2, <1>3 DEF Inv, Types, cycleVars
<1>5. Clock'
  BY <1>1, <1>3 DEF Inv, Clock, cycleVars
<1>6. Deferred'
  BY <1>1, <1>3 DEF Inv, Types, Deferred, cycleVars
<1>7. Waiting'
  BY <1>1, <1>3 DEF Inv, Waiting, cycleVars
<1> QED BY <1>1, <1>4, <1>5, <1>6, <1>7 DEF Inv, TakesTurns

LEMMA TickKeepsInv == ASSUME Inv, Tick PROVE Inv'
<1>1. now' = now + 1 /\ UNCHANGED <<sched, links, cycleVars, standIn, stoodIn>>
  BY DEF Tick
<1> QED BY <1>1 DEF Inv, Types, Clock, Deferred, Waiting, TakesTurns, cycleVars

LEMMA InvAlways == Spec => []Inv
<1>1. Init => Inv
  BY InitInv
<1>2. Inv /\ [Next]_vars => Inv'
  <2> SUFFICES ASSUME Inv, [Next]_vars PROVE Inv'
    OBVIOUS
  <2>1. CASE StartCycle
    BY <2>1, StartCycleKeepsInv
  <2>2. CASE TestStep
    BY <2>2, TestStepKeepsInv
  <2>3. CASE EndCycle
    BY <2>3, EndCycleKeepsInv
  <2>4. CASE \E e \in Entry : Refresh(e)
    BY <2>4, RefreshKeepsInv
  <2>5. CASE Tick
    BY <2>5, TickKeepsInv
  <2>6. CASE UNCHANGED vars
    BY <2>6 DEF vars, cycleVars, Inv, Types, Clock, Deferred, Waiting, TakesTurns
  <2> QED BY <2>1, <2>2, <2>3, <2>4, <2>5, <2>6 DEF Next
<1> QED BY <1>1, <1>2, PTL DEF Spec

(* An entry is never deferred twice for the same stand-in before it has a  *)
(* result of its own.                                                      *)
THEOREM TakesTurnsCorrect == Spec => []TakesTurns
<1>1. Inv => TakesTurns
  BY DEF Inv
<1> QED BY <1>1, InvAlways, PTL

(* A cycle sets out to test no two linked entries of different networks, and *)
(* each entry it defers has its stand-in among the tested, of another        *)
(* network and at least as stale.                                            *)
THEOREM OneNetworkPerGroupCorrect == Spec => OneNetworkPerGroup
<1>1. Inv /\ [Next]_vars =>
        [ pc = "idle" /\ pc' = "cycle" =>
          /\ \A a, b \in Entry :
                phase'[a] = "queued" /\ phase'[b] = "queued" /\ b \in Group(a)
                  => ~OtherNetwork(a, b)
          /\ \A e \in Entry : LET r == standIn'[e] IN
                r # None => /\ phase'[r] = "queued" /\ phase'[e] = "out"
                            /\ OtherNetwork(e, r) /\ sched[r].last <= sched[e].last ]_vars
  <2> SUFFICES ASSUME Inv, Next, pc = "idle", pc' = "cycle"
               PROVE  /\ \A a, b \in Entry :
                            phase'[a] = "queued" /\ phase'[b] = "queued" /\ b \in Group(a)
                              => ~OtherNetwork(a, b)
                      /\ \A e \in Entry : standIn'[e] # None =>
                            /\ phase'[standIn'[e]] = "queued" /\ phase'[e] = "out"
                            /\ OtherNetwork(e, standIn'[e])
                            /\ sched[standIn'[e]].last <= sched[e].last
    BY Zenon
  <2>1. StartCycle
    BY DEF Next, TestStep, Begin, Report, EndDerive, Derive, EndCycle, Refresh, Tick, cycleVars
  <2>2. PICK selected \in SUBSET Entry : Collapse(selected)
    BY <2>1, SelectionCollapsed
  <2> QED BY <2>2, Collapsed DEF Inv, Types
<1> QED BY <1>1, InvAlways, PTL DEF Spec, OneNetworkPerGroup
=============================================================================
