----------------------- MODULE DomainLookups_proofs -----------------------
(***************************************************************************)
(* Theorems about the two services of the daemon that look domains up, for *)
(* any domains and limits.  The first part is the e-mail sweep: all that   *)
(* relates the parts of its state concerns one domain, so the invariant is *)
(* a predicate on the five values the state has for it.  The second is the *)
(* WHOIS worker.                                                           *)
(***************************************************************************)
EXTENDS EmailSweep, WhoisWorker, FiniteSetTheorems, TLAPS

-----------------------------------------------------------------------------
(* The e-mail sweep. *)

Memo == [finding : Finding, left : 1..FindingTtl]

Justified(f) ==
    /\ f.status = "dead" => f.evidence.complete
    /\ f.status = "routable" => f.evidence.reached

Honest(r) == r.finding.evidence.age < MaxRowAge => r.finding.evidence.age - r.checked < FindingTtl

(* The row r, the memory m, and of the goroutine its step j, the previous row *)
(* p and the result q: what was read is still the newest row, and what is     *)
(* remembered is the result at hand or else what the row says.                *)
Good(r, m, j, p, q) ==
    /\ r \in CheckRow \cup {Missing} /\ m \in Memo \cup {Missing}
    /\ j \in Steps /\ p \in CheckRow \cup {Missing, Unread} /\ q \in Finding \cup {Missing}
    /\ q # Missing <=> j = "store"
    /\ j \in {"check", "store"} /\ p # Unread => p = r
    /\ r # Missing => Justified(r.finding) /\ Honest(r)
    /\ m # Missing => Justified(m.finding) /\ m.finding.evidence.age + m.left <= FindingTtl
    /\ j = "store" => Justified(q) /\ q.evidence.age < FindingTtl
    /\ j = "store" /\ m # Missing => m.finding = q
    /\ j # "store" /\ m # Missing =>
          r # Missing /\ (Stable(m.finding.status) => r.finding.status = m.finding.status)

GoodOf(d) == Good(row[d], memo[d], job[d], previous[d], result[d])

(* The state is functions on the domains; only a sweep has goroutines. *)
Shape ==
    /\ row = [d \in MailDomain |-> row[d]] /\ memo = [d \in MailDomain |-> memo[d]]
    /\ job = [d \in MailDomain |-> job[d]]
    /\ previous = [d \in MailDomain |-> previous[d]] /\ result = [d \in MailDomain |-> result[d]]

Control ==
    /\ sweeper \in {"wait", "sweep", "ended"} /\ due \in SUBSET MailDomain
    /\ stopped \in BOOLEAN /\ sweepCancelled \in BOOLEAN
    /\ sweeper # "sweep" => due = {} /\ job = [d \in MailDomain |-> "none"]
    /\ \A d \in due : job[d] = "none"

SlotsKept == IsFiniteSet(InFlight) /\ Cardinality(InFlight) <= Concurrency

SweepInv == Shape /\ Control /\ SlotsKept /\ \A d \in MailDomain : GoodOf(d)

LEMMA InvImplies == ASSUME SweepInv PROVE RowsSound
<1>1. SweepTypeOK
  BY DEF SweepInv, Shape, Control, SlotsKept, GoodOf, Good, SweepTypeOK, InFlight, Memo
<1>2. VerdictJustified
  BY DEF SweepInv, GoodOf, Good, VerdictJustified, Justified
<1>3. CheckTimeHonest
  BY DEF SweepInv, GoodOf, Good, CheckTimeHonest, Honest
<1>4. NotReplayed
  BY DEF SweepInv, GoodOf, Good, NotReplayed
<1> QED
  BY <1>1, <1>2, <1>3, <1>4 DEF RowsSound

LEMMA InitInv == ASSUME EmailSweepAssumption, NoRowAssumption, SweepInit PROVE SweepInv
<1>1. Shape /\ Control
  BY DEF SweepInit, Shape, Control
<1>2. InFlight = {}
  BY DEF SweepInit, InFlight
<1>3. SlotsKept
  BY <1>2, FS_EmptySet DEF SlotsKept, EmailSweepAssumption
<1>4. \A d \in MailDomain : GoodOf(d)
  BY DEF SweepInit, GoodOf, Good, Steps
<1> QED
  BY <1>1, <1>3, <1>4 DEF SweepInv

-----------------------------------------------------------------------------
(* What the ladder finds is what its lookups say. *)
LEMMA CheckJustified ==
    ASSUME EmailSweepAssumption, NEW mx \in Mx, NEW hosts \in (SUBSET Host) \ {{}},
           NEW own \in DnsAnswer, NEW address \in [Host -> DnsAnswer],
           NEW f, f = [status |-> Check(mx, hosts, own, address),
                       evidence |-> EvidenceOf(mx, hosts, own, address)]
    PROVE  f \in Finding /\ Justified(f) /\ f.evidence.age = 0
<1>1. Check(mx, hosts, own, address) \in Verdict
  BY DEF Check, ImplicitMX, ResolveHosts, Verdict, Mx, DnsAnswer
<1>2. EvidenceOf(mx, hosts, own, address) \in Evidence
      /\ EvidenceOf(mx, hosts, own, address).age = 0
  BY DEF EvidenceOf, Evidence, MaxRowAge, EmailSweepAssumption
<1>3. f \in Finding /\ f.evidence.age = 0
  BY <1>1, <1>2 DEF Finding
<1> SUFFICES Justified(f)
  BY <1>3
<1>4. CASE mx \in {"failed", "null"}
  <2>1. f.status = (IF mx = "failed" THEN "error" ELSE "dead")
    BY <1>4 DEF Check
  <2>2. f.evidence.complete = (mx # "failed")
    BY <1>4 DEF EvidenceOf
  <2> QED
    BY <2>1, <2>2 DEF Justified
<1>5. CASE mx = "absent"
  <2>1. f.status = ImplicitMX(own)
    BY <1>5 DEF Check
  <2>2. f.evidence.reached = (own = "found") /\ f.evidence.complete = (own # "failed")
    BY <1>5 DEF EvidenceOf
  <2> QED
    BY <2>1, <2>2 DEF ImplicitMX, Justified, DnsAnswer
<1>6. CASE mx = "hosts"
  <2>1. f.status = ResolveHosts(hosts, address)
    BY <1>6 DEF Check
  <2>2. f.evidence.reached = ("found" \in {address[h] : h \in hosts})
        /\ f.evidence.complete = ("failed" \notin {address[h] : h \in hosts})
    BY <1>6 DEF EvidenceOf
  <2> QED
    BY <2>1, <2>2 DEF ResolveHosts, Justified
<1> QED
  BY <1>4, <1>5, <1>6 DEF Mx

(* The row a stored result becomes, if the write is not to be skipped. *)
LEMMA NewRowGood ==
    ASSUME EmailSweepAssumption, NoRowAssumption,
           NEW r, NEW m, NEW p, NEW q, Good(r, m, "store", p, q),
           ~(~Stable(q.status) /\ p = Unread)
    PROVE  /\ Good(NewRow(q, p), m, "none", Missing, Missing)
           /\ r # Missing /\ Stable(r.finding.status) => Stable(NewRow(q, p).finding.status)
<1>1. q \in Finding /\ q # Missing /\ (p # Unread => p = r)
  BY DEF Good, NoRowAssumption
<1>2. CASE CarriesForward(q, p)
  <2>1. p = r /\ r \in CheckRow /\ r # Missing /\ ~Stable(q.status)
    BY <1>1, <1>2 DEF CarriesForward, Good
  <2>2. NewRow(q, p) = [r EXCEPT !.attempted = 0, !.error = TRUE]
    BY <1>2, <2>1 DEF NewRow
  <2>3. NewRow(q, p).finding = r.finding /\ NewRow(q, p).checked = r.checked
    BY <2>1, <2>2 DEF CheckRow
  <2>4. NewRow(q, p) \in CheckRow
    <3>1. 0 \in 0..MaxRowAge
      BY DEF MaxRowAge, EmailSweepAssumption
    <3> QED
      BY <2>1, <2>2, <3>1 DEF CheckRow
  <2> QED
    BY <2>1, <2>3, <2>4 DEF Good, Honest, NoRowAssumption, Steps
<1>3. CASE ~CarriesForward(q, p)
  <2>1. NewRow(q, p) = [finding |-> q, checked |-> 0, attempted |-> 0, error |-> ~Stable(q.status)]
    BY <1>3 DEF NewRow
  <2>2. NewRow(q, p) \in CheckRow /\ NewRow(q, p).finding = q /\ NewRow(q, p).checked = 0
    BY <1>1, <2>1 DEF CheckRow, MaxRowAge, EmailSweepAssumption, Stable
  <2>3. q.evidence.age \in Nat /\ q.evidence.age < FindingTtl /\ Justified(q)
    BY <1>1 DEF Good, Finding, Evidence
  <2>4. Good(NewRow(q, p), m, "none", Missing, Missing)
    BY <1>1, <2>2, <2>3 DEF Good, Honest, NoRowAssumption, Steps
  <2>5. r # Missing /\ Stable(r.finding.status) => Stable(q.status)
    BY <1>1, <1>3 DEF CarriesForward, Good, NoRowAssumption
  <2> QED
    BY <2>2, <2>4, <2>5
<1> QED
  BY <1>2, <1>3

-----------------------------------------------------------------------------
(* Time keeps a good state of a domain whose goroutine has no result.         *)
AgedRow(r) ==
    IF r = Missing THEN Missing
    ELSE [r EXCEPT !.finding = OlderFinding(@), !.checked = Aged(@), !.attempted = Aged(@)]
AgedMemo(m) ==
    IF m = Missing \/ m.left = 1 THEN Missing
    ELSE [finding |-> OlderFinding(m.finding), left |-> m.left - 1]
AgedPrevious(p, r) == IF p \in {Missing, Unread} THEN p ELSE AgedRow(r)

LEMMA OlderType ==
    ASSUME EmailSweepAssumption, NEW n \in 0..MaxRowAge
    PROVE  Aged(n) \in 0..MaxRowAge /\ Aged(n) = IF n < MaxRowAge THEN n + 1 ELSE n
BY DEF Aged, MaxRowAge, EmailSweepAssumption

LEMMA OlderFindingType ==
    ASSUME EmailSweepAssumption, NEW f \in Finding
    PROVE  /\ OlderFinding(f) \in Finding /\ OlderFinding(f).status = f.status
           /\ OlderFinding(f).evidence.age = Aged(f.evidence.age)
           /\ Justified(f) => Justified(OlderFinding(f))
<1>1. f.evidence \in Evidence /\ f.evidence.age \in 0..MaxRowAge
  BY DEF Finding, Evidence
<1> DEFINE e == [f.evidence EXCEPT !.age = Aged(@)]
<1>2. e \in Evidence /\ e.age = Aged(f.evidence.age)
      /\ e.complete = f.evidence.complete /\ e.reached = f.evidence.reached
  BY <1>1, OlderType DEF Evidence
<1>3. OlderFinding(f) = [f EXCEPT !.evidence = e]
  BY DEF OlderFinding
<1> HIDE DEF e
<1>4. /\ OlderFinding(f) \in Finding
      /\ OlderFinding(f).status = f.status /\ OlderFinding(f).evidence = e
  BY <1>2, <1>3 DEF Finding
<1> QED
  BY <1>2, <1>4 DEF Justified

LEMMA AgedRowType ==
    ASSUME EmailSweepAssumption, NoRowAssumption, NEW r \in CheckRow
    PROVE  /\ AgedRow(r) \in CheckRow /\ AgedRow(r) # Missing
           /\ AgedRow(r).finding = OlderFinding(r.finding)
           /\ AgedRow(r).checked = Aged(r.checked)
<1>1. r # Missing /\ r.finding \in Finding /\ r.checked \in 0..MaxRowAge /\ r.attempted \in 0..MaxRowAge
  BY DEF NoRowAssumption, CheckRow
<1>2. OlderFinding(r.finding) \in Finding
      /\ Aged(r.checked) \in 0..MaxRowAge /\ Aged(r.attempted) \in 0..MaxRowAge
  BY <1>1, OlderFindingType, OlderType
<1>3. AgedRow(r) = [r EXCEPT !.finding = OlderFinding(r.finding), !.checked = Aged(r.checked),
                             !.attempted = Aged(r.attempted)]
  BY <1>1 DEF AgedRow
<1> QED
  BY <1>2, <1>3 DEF CheckRow, NoRowAssumption

LEMMA TickGood ==
    ASSUME EmailSweepAssumption, NoRowAssumption,
           NEW r, NEW m, NEW j, NEW p, NEW q, Good(r, m, j, p, q), j # "store"
    PROVE  /\ Good(AgedRow(r), AgedMemo(m), j, AgedPrevious(p, r), q)
           /\ r # Missing /\ Stable(r.finding.status) => Stable(AgedRow(r).finding.status)
<1>1. CASE r = Missing
  <2>1. AgedRow(r) = Missing /\ m = Missing /\ AgedMemo(m) = Missing
    BY <1>1 DEF AgedRow, AgedMemo, Good
  <2>2. AgedPrevious(p, r) = IF p \in {Missing, Unread} THEN p ELSE Missing
    BY <2>1 DEF AgedPrevious
  <2> QED
    BY <1>1, <2>1, <2>2 DEF Good
<1>2. CASE r # Missing
  <2>1. r \in CheckRow
    BY <1>2 DEF Good
  <2>2. /\ AgedRow(r) \in CheckRow /\ AgedRow(r) # Missing
        /\ AgedRow(r).finding = OlderFinding(r.finding)
        /\ AgedRow(r).checked = Aged(r.checked)
    BY <2>1, AgedRowType
  <2>3. /\ r.finding \in Finding /\ r.checked \in 0..MaxRowAge
        /\ r.finding.evidence.age \in 0..MaxRowAge
    BY <2>1 DEF CheckRow, Finding, Evidence
  <2>4. Justified(AgedRow(r).finding) /\ AgedRow(r).finding.status = r.finding.status
    BY <1>2, <2>2, <2>3, OlderFindingType DEF Good
  <2>5. Honest(AgedRow(r))
    <3>1. AgedRow(r).finding.evidence.age = Aged(r.finding.evidence.age)
      BY <2>2, <2>3, OlderFindingType
    <3>2. Honest(r)
      BY <1>2 DEF Good
    <3> QED
      BY <2>2, <2>3, <3>1, <3>2, OlderType DEF Honest, MaxRowAge, EmailSweepAssumption
  <2>6. AgedPrevious(p, r) \in CheckRow \cup {Missing, Unread}
        /\ (j = "check" /\ AgedPrevious(p, r) # Unread => AgedPrevious(p, r) = AgedRow(r))
    BY <1>2, <2>2 DEF Good, AgedPrevious, NoRowAssumption
  <2>7. CASE AgedMemo(m) = Missing
    BY <1>2, <2>2, <2>4, <2>5, <2>6, <2>7 DEF Good
  <2>8. CASE AgedMemo(m) # Missing
    <3>1. m # Missing /\ m \in Memo /\ m.left # 1 /\ m.left \in 1..FindingTtl
          /\ m.finding \in Finding /\ m.finding.evidence.age \in 0..MaxRowAge
      BY <2>8 DEF AgedMemo, Good, Memo, Finding, Evidence
    <3>2. AgedMemo(m) = [finding |-> OlderFinding(m.finding), left |-> m.left - 1]
      BY <3>1 DEF AgedMemo
    <3>3. AgedMemo(m) \in Memo
      <4>1. m.left - 1 \in 1..FindingTtl
        BY <3>1 DEF EmailSweepAssumption
      <4> QED
        BY <3>1, <3>2, <4>1, OlderFindingType DEF Memo
    <3>4. Justified(AgedMemo(m).finding) /\ AgedMemo(m).finding.status = m.finding.status
      BY <3>1, <3>2, OlderFindingType DEF Good
    <3>5. AgedMemo(m).finding.evidence.age + AgedMemo(m).left <= FindingTtl
      <4>1. AgedMemo(m).finding.evidence.age = Aged(m.finding.evidence.age)
        BY <3>1, <3>2, OlderFindingType
      <4>2. m.finding.evidence.age + m.left <= FindingTtl
        BY <3>1 DEF Good
      <4>3. AgedMemo(m).left = m.left - 1
        BY <3>2
      <4> QED
        BY <3>1, <4>1, <4>2, <4>3, OlderType DEF MaxRowAge, EmailSweepAssumption
    <3> QED
      BY <1>2, <2>2, <2>4, <2>5, <2>6, <3>1, <3>3, <3>4, <3>5 DEF Good
  <2> QED
    BY <2>2, <2>4, <2>7, <2>8
<1> QED
  BY <1>1, <1>2

-----------------------------------------------------------------------------
(* The steps. *)
VerdictsStand ==
    \A d \in MailDomain : row[d] # Missing /\ Stable(row[d].finding.status)
        => Stable(row'[d].finding.status)

LEMMA SlotsShrink ==
    ASSUME EmailSweepAssumption, SlotsKept, InFlight' \subseteq InFlight
    PROVE  SlotsKept'
<1>1. IsFiniteSet(InFlight') /\ Cardinality(InFlight') <= Cardinality(InFlight)
  BY FS_Subset DEF SlotsKept
<1>2. Cardinality(InFlight) \in Nat /\ Cardinality(InFlight') \in Nat
  BY <1>1, FS_CardinalityType DEF SlotsKept
<1> QED
  BY <1>1, <1>2 DEF SlotsKept, EmailSweepAssumption

LEMMA AcquireKeepsSlots ==
    ASSUME EmailSweepAssumption, SlotsKept, Cardinality(InFlight) < Concurrency,
           NEW d, InFlight' = InFlight \cup {d}
    PROVE  SlotsKept'
<1>1. Cardinality(InFlight) \in Nat
  BY FS_CardinalityType DEF SlotsKept
<1>2. IsFiniteSet(InFlight') /\ Cardinality(InFlight') <= Cardinality(InFlight) + 1
  BY FS_AddElement, <1>1 DEF SlotsKept
<1>3. Cardinality(InFlight') \in Nat
  BY <1>2, FS_CardinalityType
<1> QED
  BY <1>1, <1>2, <1>3 DEF SlotsKept, EmailSweepAssumption

(* A goroutine's step changes the state of its own domain only. *)
LEMMA JobStepInv ==
    ASSUME EmailSweepAssumption, NoRowAssumption, SweepInv, NEW d \in MailDomain, JobStep(d)
    PROVE  SweepInv' /\ VerdictsStand
<1> USE DEF Steps
<1>1. GoodOf(d) /\ job[d] # "none" => sweeper = "sweep"
  BY DEF SweepInv, Control
<1>2. \A c \in MailDomain : GoodOf(c)
  BY DEF SweepInv
<1>3. Shape /\ Control /\ SlotsKept
  BY DEF SweepInv
<1>4. CASE Acquire(d)
  <2>1. PICK s \in {"read", "none"} : job' = [job EXCEPT ![d] = s]
    BY <1>4 DEF Acquire
  <2>2. /\ job[d] = "spawned" /\ (s = "read" => Cardinality(InFlight) < Concurrency)
        /\ UNCHANGED <<row, memo, sweeper, due, previous, result, flags>>
    BY <1>4, <2>1, <1>3 DEF Acquire, Shape
  <2>3. \A c \in MailDomain : job'[c] = IF c = d THEN s ELSE job[c]
    BY <2>1, <1>3 DEF Shape
  <2>4. SlotsKept'
    <3>1. CASE s = "none"
      BY <3>1, <1>3, <2>3, SlotsShrink DEF InFlight
    <3>2. CASE s = "read"
      <4>1. InFlight' = InFlight \cup {d}
        BY <2>3, <3>2 DEF InFlight
      <4> QED
        BY <1>3, <2>2, <3>2, <4>1, AcquireKeepsSlots
    <3> QED
      BY <3>1, <3>2
  <2>5. \A c \in MailDomain : GoodOf(c)'
    BY <1>2, <2>2, <2>3 DEF GoodOf, Good
  <2>6. Shape' /\ Control'
    BY <1>1, <1>2, <1>3, <2>1, <2>2 DEF Shape, Control, flags
  <2> QED
    BY <2>2, <2>4, <2>5, <2>6 DEF SweepInv, VerdictsStand
<1>5. CASE ReadPrevious(d)
  <2>1. PICK p \in {row[d], Unread} : previous' = [previous EXCEPT ![d] = p]
    BY <1>5 DEF ReadPrevious
  <2>2. /\ job[d] = "read" /\ job' = [job EXCEPT ![d] = "check"]
        /\ UNCHANGED <<row, memo, sweeper, due, result, flags>>
    BY <1>5 DEF ReadPrevious
  <2>3. \A c \in MailDomain : job'[c] = (IF c = d THEN "check" ELSE job[c])
                          /\ previous'[c] = (IF c = d THEN p ELSE previous[c])
    BY <2>1, <2>2, <1>3 DEF Shape
  <2>4. SlotsKept'
    BY <1>3, <2>2, <2>3, SlotsShrink DEF InFlight
  <2>5. \A c \in MailDomain : GoodOf(c)'
    BY <1>2, <2>2, <2>3 DEF GoodOf, Good
  <2>6. Shape' /\ Control'
    BY <1>1, <1>2, <1>3, <2>1, <2>2 DEF Shape, Control, flags
  <2> QED
    BY <2>2, <2>4, <2>5, <2>6 DEF SweepInv, VerdictsStand
<1>6. CASE CheckDomain(d)
  <2>1. /\ job[d] = "check" /\ job' = [job EXCEPT ![d] = "store"]
        /\ UNCHANGED <<row, sweeper, due, previous, flags>>
    BY <1>6 DEF CheckDomain
  <2>2. PICK f, m :
          /\ result' = [result EXCEPT ![d] = f] /\ memo' = [memo EXCEPT ![d] = m]
          /\ f \in Finding /\ Justified(f) /\ f.evidence.age < FindingTtl
          /\ m \in Memo \cup {Missing}
          /\ m # Missing => m.finding = f /\ f.evidence.age + m.left <= FindingTtl
    <3>1. CASE memo[d] # Missing /\ result' = [result EXCEPT ![d] = memo[d].finding] /\ UNCHANGED memo
      <4>1. memo[d] \in Memo /\ Justified(memo[d].finding)
            /\ memo[d].finding.evidence.age + memo[d].left <= FindingTtl
        BY <1>2, <3>1 DEF GoodOf, Good
      <4>2. memo[d].finding \in Finding /\ memo[d].left \in 1..FindingTtl
            /\ memo[d].finding.evidence.age \in 0..MaxRowAge
        BY <4>1 DEF Memo, Finding, Evidence
      <4>3. memo[d].finding.evidence.age < FindingTtl
        BY <4>1, <4>2 DEF EmailSweepAssumption, MaxRowAge
      <4>4. memo' = [memo EXCEPT ![d] = memo[d]]
        BY <1>3, <3>1 DEF Shape
      <4> QED
        BY <3>1, <4>1, <4>2, <4>3, <4>4
    <3>2. CASE memo[d] = Missing
      <4>1. PICK mx \in Mx, hosts \in (SUBSET Host) \ {{}},
                  own \in DnsAnswer, address \in [Host -> DnsAnswer] :
              LET f == [status |-> Check(mx, hosts, own, address),
                        evidence |-> EvidenceOf(mx, hosts, own, address)]
              IN /\ result' = [result EXCEPT ![d] = f]
                 /\ \/ memo' = [memo EXCEPT ![d] =
                          [finding |-> f, left |-> IF Stable(f.status) THEN FindingTtl ELSE 1]]
                    \/ UNCHANGED memo
        BY <1>6, <3>2 DEF CheckDomain
      <4> DEFINE g == [status |-> Check(mx, hosts, own, address),
                       evidence |-> EvidenceOf(mx, hosts, own, address)]
                 n == [finding |-> g, left |-> IF Stable(g.status) THEN FindingTtl ELSE 1]
      <4>2. g \in Finding /\ Justified(g) /\ g.evidence.age = 0
        BY CheckJustified
      <4>3. result' = [result EXCEPT ![d] = g]
            /\ (memo' = [memo EXCEPT ![d] = n] \/ UNCHANGED memo)
        BY <4>1
      <4> HIDE DEF g
      <4>4. n \in Memo /\ n.finding = g /\ n.left <= FindingTtl /\ n.left \in Nat
        BY <4>2 DEF Memo, EmailSweepAssumption
      <4> HIDE DEF n
      <4>5. UNCHANGED memo => memo' = [memo EXCEPT ![d] = Missing]
        BY <1>3, <3>2 DEF Shape
      <4>6. CASE memo' = [memo EXCEPT ![d] = n]
        <5>1. g.evidence.age < FindingTtl /\ g.evidence.age + n.left <= FindingTtl
          BY <4>2, <4>4 DEF EmailSweepAssumption
        <5> QED
          BY <4>2, <4>3, <4>4, <4>6, <5>1
      <4>7. CASE UNCHANGED memo
        <5>1. g.evidence.age < FindingTtl
          BY <4>2 DEF EmailSweepAssumption
        <5> QED
          BY <4>2, <4>3, <4>5, <4>7, <5>1
      <4> QED
        BY <4>3, <4>6, <4>7
    <3> QED
      BY <1>6, <3>1, <3>2 DEF CheckDomain
  <2>3. \A c \in MailDomain : /\ job'[c] = (IF c = d THEN "store" ELSE job[c])
                          /\ result'[c] = (IF c = d THEN f ELSE result[c])
                          /\ memo'[c] = (IF c = d THEN m ELSE memo[c])
    BY <2>1, <2>2, <1>3 DEF Shape
  <2>4. SlotsKept'
    BY <1>3, <2>1, <2>3, SlotsShrink DEF InFlight
  <2>5. GoodOf(d)'
    <3>1. m # Missing => Justified(m.finding) /\ m.finding.evidence.age + m.left <= FindingTtl
      BY <2>2
    <3> QED
      BY <1>2, <2>1, <2>2, <2>3, <3>1 DEF GoodOf, Good, NoRowAssumption
  <2>6. \A c \in MailDomain \ {d} : GoodOf(c)'
    BY <1>2, <2>1, <2>3 DEF GoodOf
  <2>7. Shape' /\ Control'
    BY <1>1, <1>2, <1>3, <2>1, <2>2 DEF Shape, Control, flags
  <2> QED
    BY <2>1, <2>4, <2>5, <2>6, <2>7 DEF SweepInv, VerdictsStand
<1>7. CASE SkipWrite(d) \/ StoreCheck(d) \/ StoreFails(d)
  <2>1. /\ job[d] = "store" /\ job' = [job EXCEPT ![d] = "none"]
        /\ previous' = [previous EXCEPT ![d] = Missing] /\ result' = [result EXCEPT ![d] = Missing]
        /\ UNCHANGED <<sweeper, due, flags>>
    BY <1>7 DEF SkipWrite, StoreCheck, StoreFails, Return
  <2>2. Good(row[d], memo[d], "store", previous[d], result[d])
    BY <1>2, <2>1 DEF GoodOf
  <2>3. PICK r, m :
          /\ row' = [row EXCEPT ![d] = r] /\ memo' = [memo EXCEPT ![d] = m]
          /\ Good(r, m, "none", Missing, Missing)
          /\ row[d] # Missing /\ Stable(row[d].finding.status) => Stable(r.finding.status)
    <3>1. CASE StoreCheck(d)
      <4>1. ~(~Stable(result[d].status) /\ previous[d] = Unread)
        BY <3>1 DEF StoreCheck, MustSkip
      <4>2. Good(NewRow(result[d], previous[d]), memo[d], "none", Missing, Missing)
            /\ (row[d] # Missing /\ Stable(row[d].finding.status)
                  => Stable(NewRow(result[d], previous[d]).finding.status))
        BY <2>2, <4>1, NewRowGood
      <4>3. row' = [row EXCEPT ![d] = NewRow(result[d], previous[d])]
            /\ memo' = [memo EXCEPT ![d] = memo[d]]
        BY <1>3, <3>1 DEF StoreCheck, Shape
      <4> QED
        BY <4>2, <4>3
    <3>2. CASE SkipWrite(d) \/ StoreFails(d)
      <4>1. memo' = [memo EXCEPT ![d] = Missing] /\ row' = [row EXCEPT ![d] = row[d]]
        BY <1>3, <3>2 DEF SkipWrite, StoreFails, Shape
      <4>2. Good(row[d], Missing, "none", Missing, Missing)
        BY <2>2 DEF Good
      <4> QED
        BY <4>1, <4>2
    <3> QED
      BY <1>7, <3>1, <3>2
  <2>4. \A c \in MailDomain : /\ job'[c] = (IF c = d THEN "none" ELSE job[c])
                          /\ previous'[c] = (IF c = d THEN Missing ELSE previous[c])
                          /\ result'[c] = (IF c = d THEN Missing ELSE result[c])
                          /\ memo'[c] = (IF c = d THEN m ELSE memo[c])
                          /\ row'[c] = (IF c = d THEN r ELSE row[c])
    BY <2>1, <2>3, <1>3 DEF Shape
  <2>5. SlotsKept'
    BY <1>3, <2>1, <2>4, SlotsShrink DEF InFlight
  <2>6. \A c \in MailDomain : GoodOf(c)'
    BY <1>2, <2>3, <2>4 DEF GoodOf
  <2>7. Shape' /\ Control'
    BY <1>1, <1>2, <1>3, <2>1, <2>3 DEF Shape, Control, flags
  <2> QED
    BY <2>3, <2>4, <2>5, <2>6, <2>7 DEF SweepInv, VerdictsStand
<1> QED
  BY <1>4, <1>5, <1>6, <1>7 DEF JobStep

LEMMA OtherStepsInv ==
    ASSUME EmailSweepAssumption, NoRowAssumption, SweepInv,
           Sweep \/ SweeperStep \/ StopSweeper \/ CancelSweep \/ UNCHANGED sweepVars
    PROVE  SweepInv' /\ VerdictsStand
<1> USE DEF Steps, flags, jobVars
<1>1. (\A c \in MailDomain : GoodOf(c)) /\ Shape /\ Control /\ SlotsKept
  BY DEF SweepInv
<1>2. CASE Spawn
  <2>1. PICK d \in due : due' = due \ {d} /\ job' = [job EXCEPT ![d] = "spawned"]
    BY <1>2 DEF Spawn
  <2>2. UNCHANGED <<row, memo, sweeper, previous, result, flags>> /\ sweeper = "sweep"
    BY <1>2 DEF Spawn
  <2>3. d \in MailDomain /\ \A c \in MailDomain : job'[c] = IF c = d THEN "spawned" ELSE job[c]
    BY <1>1, <2>1 DEF Shape, Control
  <2>4. /\ job[d] = "none" /\ due' \subseteq MailDomain
        /\ \A c \in due' : c \in due /\ c # d
    BY <1>1, <2>1 DEF Control
  <2>5. SlotsKept'
    BY <1>1, <2>3, <2>4, SlotsShrink DEF InFlight
  <2>6. \A c \in MailDomain : GoodOf(c)'
    BY <1>1, <2>2, <2>3, <2>4 DEF GoodOf, Good
  <2>7. Shape' /\ Control'
    BY <1>1, <2>1, <2>2, <2>3, <2>4 DEF Shape, Control
  <2> QED
    BY <2>2, <2>5, <2>6, <2>7 DEF SweepInv, VerdictsStand
<1>3. ASSUME UNCHANGED <<row, memo, job, previous, result>>
      PROVE  VerdictsStand /\ Shape' /\ SlotsKept' /\ \A c \in MailDomain : GoodOf(c)'
  BY <1>1, <1>3 DEF VerdictsStand, Shape, SlotsKept, GoodOf, InFlight
<1>4. CASE Sweep
  <2>1. Control'
    BY <1>1, <1>4 DEF Sweep, Control
  <2> QED
    BY <1>3, <1>4, <2>1 DEF Sweep, SweepInv
<1>5. CASE EndLoop \/ Abandon \/ SweepEnds \/ StopSweeper \/ CancelSweep
  <2>1. UNCHANGED <<row, memo, job, previous, result>>
    BY <1>5 DEF EndLoop, Abandon, SweepEnds, StopSweeper, CancelSweep
  <2>2. Control'
    BY <1>1, <1>5 DEF EndLoop, Abandon, SweepEnds, StopSweeper, CancelSweep, Control
  <2> QED
    BY <1>3, <2>1, <2>2 DEF SweepInv
<1>6. CASE UNCHANGED sweepVars
  <2>1. Control'
    BY <1>1, <1>6 DEF sweepVars, Control
  <2> QED
    BY <1>3, <1>6, <2>1 DEF sweepVars, SweepInv
<1> QED
  BY <1>2, <1>4, <1>5, <1>6 DEF SweeperStep

LEMMA TickInv ==
    ASSUME EmailSweepAssumption, NoRowAssumption, SweepInv, SweepTick
    PROVE  SweepInv' /\ VerdictsStand
<1>1. (\A c \in MailDomain : GoodOf(c)) /\ Shape /\ Control /\ SlotsKept
  BY DEF SweepInv
<1>2. /\ row' = [d \in MailDomain |-> AgedRow(row[d])]
      /\ memo' = [d \in MailDomain |-> AgedMemo(memo[d])]
      /\ previous' = [d \in MailDomain |->
            IF previous[d] \in {Missing, Unread} THEN previous[d] ELSE row'[d]]
      /\ UNCHANGED <<sweeper, due, job, result, flags>>
      /\ \A d \in MailDomain : job[d] # "store"
  BY Zenon DEF SweepTick, AgedRow, AgedMemo
<1>3. ASSUME NEW d \in MailDomain
      PROVE  GoodOf(d)' /\ (row[d] # Missing /\ Stable(row[d].finding.status)
                               => Stable(row'[d].finding.status))
  <2>1. /\ row'[d] = AgedRow(row[d]) /\ memo'[d] = AgedMemo(memo[d])
        /\ previous'[d] = AgedPrevious(previous[d], row[d])
        /\ job'[d] = job[d] /\ result'[d] = result[d]
    BY <1>2 DEF AgedPrevious
  <2>2. Good(row[d], memo[d], job[d], previous[d], result[d]) /\ job[d] # "store"
    BY <1>1, <1>2 DEF GoodOf
  <2>3. /\ Good(row'[d], memo'[d], job'[d], previous'[d], result'[d])
        /\ row[d] # Missing /\ Stable(row[d].finding.status) => Stable(row'[d].finding.status)
    BY <2>1, <2>2, TickGood
  <2> QED
    BY <2>3 DEF GoodOf
<1>4. Shape' /\ Control'
  BY <1>1, <1>2 DEF Shape, Control, flags
<1>5. SlotsKept'
  BY <1>1, <1>2 DEF SlotsKept, InFlight
<1> QED
  BY <1>3, <1>4, <1>5 DEF SweepInv, VerdictsStand

LEMMA RestartInv ==
    ASSUME EmailSweepAssumption, NoRowAssumption, SweepInv, RestartSweeper
    PROVE  SweepInv' /\ VerdictsStand
<1>1. (\A c \in MailDomain : GoodOf(c)) /\ Shape
  BY DEF SweepInv
<1>2. \A d \in MailDomain : GoodOf(d)'
  BY <1>1 DEF RestartSweeper, GoodOf, Good, Steps
<1>3. Shape' /\ Control'
  BY <1>1 DEF RestartSweeper, Shape, Control
<1>4. InFlight' = {}
  BY DEF RestartSweeper, InFlight
<1>5. SlotsKept'
  BY <1>4, FS_EmptySet DEF SlotsKept, EmailSweepAssumption
<1>6. VerdictsStand
  BY DEF RestartSweeper, VerdictsStand
<1> QED
  BY <1>2, <1>3, <1>5, <1>6 DEF SweepInv

LEMMA SweepStepInv == SweepInv /\ [SweepNext]_sweepVars => SweepInv' /\ VerdictsStand
BY EmailSweepAssumption, NoRowAssumption, JobStepInv, OtherStepsInv, TickInv, RestartInv DEF SweepNext

LEMMA SweepInvAlways == SweepSpec => []SweepInv
<1>1. SweepInit => SweepInv
  BY EmailSweepAssumption, NoRowAssumption, InitInv
<1> QED
  BY <1>1, SweepStepInv, PTL DEF SweepSpec

-----------------------------------------------------------------------------
(* What a row says was looked up, and when: a verdict is never more than its  *)
(* lookups say, a check time never hides an older lookup, and what the        *)
(* resolver remembers between two sweeps is what the table has.               *)
THEOREM RowsSoundCorrect == SweepSpec => []RowsSound
<1>1. SweepInv => RowsSound
  BY InvImplies
<1> QED
  BY <1>1, SweepInvAlways, PTL

(* An established verdict is only ever replaced by another, whatever fails.   *)
THEOREM VerdictKeptCorrect == SweepSpec => VerdictKept
<1>1. SweepInv /\ [SweepNext]_sweepVars =>
        [\A d \in MailDomain : row[d] # Missing /\ Stable(row[d].finding.status)
            => Stable(row'[d].finding.status)]_sweepVars
  BY SweepStepInv DEF VerdictsStand
<1> QED
  BY <1>1, SweepInvAlways, PTL DEF SweepSpec, VerdictKept

-----------------------------------------------------------------------------
(* The WHOIS worker. *)

(* A row of the table that says the same. *)
Says(r, answer) == r # None /\ r.answer.result = answer.result

(* The worker is about to store what it has looked up. *)
Storing(d) == worker.step = "store" /\ worker.domain = d

(* What is remembered of a domain that is seen. *)
SeenSound ==
    \A d \in Domain : seen[d] # None =>
        /\ seen[d].answer.settled
        /\ seen[d].answer.age + seen[d].left <= 3 * Day
        /\ ShouldPersist(seen[d].answer.result) => Says(stored[d], seen[d].answer)

(* The resolver may remember a failure, and what is not stored yet. *)
MemSound ==
    \A d \in Domain : mem[d] # None =>
        /\ mem[d].answer.result # "transient" => mem[d].answer.settled
        /\ mem[d].answer.age + mem[d].left <= 2 * Day
        /\ Storing(d) => mem[d].answer.age = 0
        /\ ~Storing(d) /\ ShouldPersist(mem[d].answer.result) =>
                Says(stored[d], mem[d].answer)

(* An answer in the table is as old as its row. *)
StoredSound ==
    \A d \in Domain : stored[d] # None =>
        stored[d].answer.settled /\ stored[d].answer.age = stored[d].age

(* What is to be stored is read from the memory cache. *)
StoreHolds == worker.step = "store" => mem[worker.domain] # None

Sound == SeenSound /\ MemSound /\ StoredSound /\ StoreHolds

WhoisInv == TypeOK /\ Sound

LEMMA WhoisInit == ASSUME Parameters, Init PROVE WhoisInv
<1>1. TypeOK
  <2>1. queue \in Seq(Domain) /\ Len(queue) <= QueueCap
    BY DEF Init, Fresh, Parameters
  <2> QED BY <2>1 DEF TypeOK, Init, Fresh
<1>2. Sound
  BY DEF Sound, SeenSound, MemSound, StoredSound, StoreHolds, Init, Fresh
<1> QED BY <1>1, <1>2 DEF WhoisInv

(* Nothing that is remembered changes, nor the worker while it stores. *)
LEMMA SoundUnchanged ==
  ASSUME Sound, UNCHANGED <<seen, mem, stored>>,
         worker' = worker \/ (worker.step # "store" /\ worker'.step # "store")
  PROVE  Sound'
BY DEF Sound, SeenSound, MemSound, StoredSound, StoreHolds, Storing, Says

(* One lemma for each step: the invariant is kept. *)
LEMMA EnqueueKeeps ==
  ASSUME Parameters, WhoisInv,
         NEW t \in Tester, NEW d \in Domain, Enqueue(t, d)
  PROVE  WhoisInv'
<1>1. TypeOK' BY DEF WhoisInv, TypeOK, Enqueue, caches
<1>2. Sound' BY SoundUnchanged DEF WhoisInv, Enqueue, caches
<1> QED BY <1>1, <1>2 DEF WhoisInv

LEMMA SendKeeps ==
  ASSUME Parameters, WhoisInv, NEW t \in Tester, Send(t)
  PROVE  WhoisInv'
<1>1. queue' \in Seq(Domain) /\ Len(queue') <= QueueCap
  <2>1. queue \in Seq(Domain) /\ Len(queue) <= QueueCap /\ QueueCap \in Nat
    BY DEF WhoisInv, TypeOK, Parameters
  <2>2. CASE UNCHANGED queue  BY <2>1, <2>2
  <2>3. CASE Len(queue) < QueueCap /\ queue' = Append(queue, tester[t])
    <3>1. tester[t] \in Domain BY DEF WhoisInv, TypeOK, Send
    <3>2. queue' \in Seq(Domain) /\ Len(queue') = Len(queue) + 1 BY <2>1, <2>3, <3>1
    <3>3. Len(queue) \in Nat BY <2>1
    <3> QED BY <2>1, <2>3, <3>2, <3>3
  <2> QED BY <2>2, <2>3 DEF Send
<1>2. TypeOK' BY <1>1 DEF WhoisInv, TypeOK, Send, caches
<1>3. Sound' BY SoundUnchanged DEF WhoisInv, Send, caches
<1> QED BY <1>2, <1>3 DEF WhoisInv

LEMMA TakeKeeps == ASSUME Parameters, WhoisInv, Take PROVE WhoisInv'
<1>1. Head(queue) \in Domain /\ queue' \in Seq(Domain) /\ Len(queue') <= QueueCap
  BY DEF WhoisInv, TypeOK, Take, Parameters
<1>2. worker' = [step |-> "resolve", domain |-> Head(queue)] /\ Head(queue) # None
  BY <1>1 DEF Take, Parameters
<1>3. TypeOK'
  BY <1>1, <1>2 DEF WhoisInv, TypeOK, Take, caches, callers
<1>4. Sound' BY <1>2, SoundUnchanged DEF WhoisInv, Take, caches
<1> QED BY <1>3, <1>4 DEF WhoisInv

LEMMA EndKeeps ==
  ASSUME Parameters, WhoisInv, Exit \/ GiveUp
  PROVE  WhoisInv'
<1>1. TypeOK'
  BY DEF WhoisInv, TypeOK, Exit, GiveUp, Finish, caches, callers
<1>2. Sound'
  BY SoundUnchanged DEF WhoisInv, Exit, GiveUp, Finish, caches
<1> QED BY <1>1, <1>2 DEF WhoisInv

LEMMA CallerKeeps ==
  ASSUME Parameters, WhoisInv, Stop \/ CloseQueue \/ Cancel
  PROVE  WhoisInv'
<1>1. TypeOK'
  BY DEF WhoisInv, TypeOK, Stop, CloseQueue, Cancel, caches
<1>2. Sound'
  BY SoundUnchanged DEF WhoisInv, Stop, CloseQueue, Cancel, caches
<1> QED BY <1>1, <1>2 DEF WhoisInv


-----------------------------------------------------------------------------
(* Marking a domain as seen with an answer that is settled, of a bounded age, *)
(* and in the table if it belongs there.                                      *)
LEMMA MarkSeenKeeps ==
  ASSUME Parameters, WhoisInv,
         NEW d \in Domain, NEW answer \in Answer, MarkSeen(d, answer),
         answer.result # "transient" => answer.settled,
         answer.age <= 2 * Day,
         ShouldPersist(answer.result) => Says(stored'[d], answer),
         \A x \in Domain \ {d} : stored'[x] = stored[x],
         stored'[d] = stored[d] \/ ShouldPersist(answer.result)
  PROVE  SeenSound' /\ seen' \in [Domain -> Entry \cup {None}]
<1>1. Day \in Nat /\ seen \in [Domain -> Entry \cup {None}]
  BY DEF Parameters, WhoisInv, TypeOK
<1>2. [answer |-> answer, left |-> Day] \in Entry
  BY <1>1 DEF Entry
<1>3. seen' \in [Domain -> Entry \cup {None}]
  BY <1>1, <1>2 DEF MarkSeen
<1>4. SeenSound'
  <2> SUFFICES ASSUME NEW x \in Domain, seen'[x] # None
               PROVE  /\ seen'[x].answer.settled
                      /\ seen'[x].answer.age + seen'[x].left <= 3 * Day
                      /\ ShouldPersist(seen'[x].answer.result) => Says(stored'[x], seen'[x].answer)
    BY DEF SeenSound
  <2>1. CASE seen'[x] = seen[x] /\ stored'[x] = stored[x]
    BY <2>1 DEF WhoisInv, Sound, SeenSound, Says
  <2>2. CASE x # d
    <3>1. seen'[x] = seen[x] BY <1>1, <2>2 DEF MarkSeen
    <3> QED BY <2>1, <2>2, <3>1
  <2>3. CASE x = d /\ ShouldMarkSeen(answer.result)
    <3>1. seen'[x] = [answer |-> answer, left |-> Day]
      BY <1>1, <2>3 DEF MarkSeen
    <3>2. answer.age \in Int /\ answer.settled
      BY <2>3 DEF Answer, MaxAge, ShouldMarkSeen
    <3>3. seen'[x].answer.age + seen'[x].left <= 3 * Day BY <1>1, <3>1, <3>2
    <3> QED BY <2>3, <3>1, <3>2, <3>3 DEF Says
  <2>4. CASE x = d /\ ~ShouldMarkSeen(answer.result)
    <3>1. seen'[x] = seen[x] BY <2>4 DEF MarkSeen
    <3>2. ~ShouldPersist(answer.result)
      BY <2>4 DEF ShouldMarkSeen, ShouldPersist
    <3> QED BY <2>1, <2>4, <3>1, <3>2
  <2> QED BY <2>2, <2>3, <2>4
<1> QED BY <1>3, <1>4

LEMMA ResolveFromMemoryKeeps ==
  ASSUME Parameters, WhoisInv, ResolveFromMemory
  PROVE  WhoisInv'
<1> DEFINE d == worker.domain
<1>1. d \in Domain /\ mem[d] # None /\ mem[d] \in Entry /\ mem[d].answer \in Answer
  BY DEF Parameters, WhoisInv, TypeOK, ResolveFromMemory, Live, Entry
<1>2. MarkSeen(d, mem[d].answer) /\ UNCHANGED <<stored, mem>>
      /\ worker.step = "resolve" /\ worker' = [step |-> "idle", domain |-> None]
  BY DEF ResolveFromMemory, caches, Finish
<1>3. SeenSound' /\ seen' \in [Domain -> Entry \cup {None}]
  <2>1. ~Storing(d) BY <1>2 DEF Storing
  <2>2. /\ mem[d].answer.result # "transient" => mem[d].answer.settled
        /\ mem[d].answer.age + mem[d].left <= 2 * Day
        /\ ShouldPersist(mem[d].answer.result) => Says(stored[d], mem[d].answer)
    BY <1>1, <2>1 DEF WhoisInv, Sound, MemSound
  <2>3. mem[d].answer.age <= 2 * Day
    BY <1>1, <2>2 DEF Entry, Answer, MaxAge, Parameters
  <2> QED BY <1>1, <1>2, <2>2, <2>3, MarkSeenKeeps DEF Says
<1>4. TypeOK'
  BY <1>2, <1>3
  DEF WhoisInv, TypeOK, ResolveFromMemory, Finish, caches, callers
<1>5. (MemSound /\ StoredSound /\ StoreHolds)'
  BY <1>2 DEF WhoisInv, Sound, MemSound, StoredSound, StoreHolds, Storing, Says
<1> QED BY <1>3, <1>4, <1>5 DEF WhoisInv, Sound

(* A row is no older than a day, so its answer lives for another in memory    *)
(* and marks the domain as seen for a third.                                  *)
LEMMA ResolveFromStoreKeeps ==
  ASSUME Parameters, WhoisInv, ResolveFromStore
  PROVE  WhoisInv'
<1> DEFINE d == worker.domain
           answer == stored[d].answer
           entry == [answer |-> answer, left |-> CacheTtl(answer.result)]
<1>1. /\ worker.step = "resolve" /\ worker' = [step |-> "idle", domain |-> None]
      /\ stored[d] # None /\ stored[d].age <= Day
      /\ mem' = [mem EXCEPT ![d] = entry] /\ MarkSeen(d, answer)
      /\ stored' = stored
  BY DEF ResolveFromStore, CacheResult, Finish
<1>2. d \in Domain /\ answer \in Answer
  <2>1. d \in Domain BY <1>1 DEF WhoisInv, TypeOK
  <2> QED BY <1>1, <2>1 DEF WhoisInv, TypeOK, Row
<1>3. /\ answer.settled /\ answer.age <= Day
      /\ Says(stored'[d], answer)
  BY <1>1, <1>2 DEF WhoisInv, Sound, StoredSound, Says
<1>4. entry \in Entry /\ CacheTtl(answer.result) \in 0..Day
  BY <1>2 DEF Entry, CacheTtl, Parameters
<1>5. SeenSound' /\ seen' \in [Domain -> Entry \cup {None}]
  <2>1. answer.age <= 2 * Day
    BY <1>2, <1>3 DEF Answer, MaxAge, Parameters
  <2> HIDE DEF answer, d
  <2> QED BY <1>1, <1>2, <1>3, <2>1, MarkSeenKeeps
<1>6. mem \in [Domain -> Entry \cup {None}] BY DEF WhoisInv, TypeOK
<1>7. MemSound'
  <2> SUFFICES ASSUME NEW x \in Domain, mem'[x] # None
               PROVE  /\ mem'[x].answer.result # "transient" => mem'[x].answer.settled
                      /\ mem'[x].answer.age + mem'[x].left <= 2 * Day
                      /\ Says(stored'[x], mem'[x].answer) \/ ~ShouldPersist(mem'[x].answer.result)
    BY <1>1 DEF MemSound, Storing
  <2>1. CASE x = d
    <3>1. mem'[x] = entry BY <1>1, <1>2, <1>6, <2>1
    <3>2. answer.age + CacheTtl(answer.result) <= 2 * Day
      BY <1>2, <1>3, <1>4 DEF Answer, MaxAge, Parameters
    <3> QED BY <1>3, <2>1, <3>1, <3>2 DEF Says
  <2>2. CASE x # d
    <3>1. mem'[x] = mem[x] BY <1>1, <1>6, <2>2
    <3> QED BY <1>1, <3>1, <2>2 DEF WhoisInv, Sound, MemSound, Storing, Says
  <2> QED BY <2>1, <2>2
<1>8. TypeOK'
  <2>1. mem' \in [Domain -> Entry \cup {None}] BY <1>1, <1>4, <1>6
  <2> QED BY <1>1, <1>5, <2>1 DEF WhoisInv, TypeOK, ResolveFromStore, callers
<1>9. (StoredSound /\ StoreHolds)'
  BY <1>1 DEF WhoisInv, Sound, StoredSound, StoreHolds
<1> QED BY <1>5, <1>7, <1>8, <1>9 DEF WhoisInv, Sound

-----------------------------------------------------------------------------
(* What a lookup ends with is a failure that is not remembered, or settled.   *)
LEMMA LookupSettled ==
  ASSUME NEW server \in Iana \ {"known"}, NEW reply \in Reply, NEW rdap \in Rdap,
         rdap = "unasked" <=> ~ShouldTryRDAP(LookupWhois(server, reply))
  PROVE  LET outcome == TryRDAP(LookupWhois(server, reply), rdap)
         IN /\ outcome \in Result
            /\ outcome # "transient" => Settled(server, reply, rdap)
<1> USE DEF Iana, Reply, Rdap, Body, Result
<1>1. CASE server = "failed"
  BY <1>1 DEF ShouldTryRDAP, LookupWhois, TryRDAP, Settled
<1>2. CASE server = "noserver"
  BY <1>2 DEF ShouldTryRDAP, LookupWhois, TryRDAP, Settled
<1>3. CASE server = "server"
  <2>1. LookupWhois(server, reply) = ParseReply(reply)
    BY <1>3 DEF LookupWhois
  <2>2. ParseReply(reply) \in {"data", "notfound", "empty", "transient"}
    BY DEF ParseReply
  <2>3. CASE rdap \in {"data", "empty", "notfound", "transient"}
    BY <2>3 DEF TryRDAP, Settled
  <2>4. CASE rdap = "unasked"
    <3>1. ParseReply(reply) \in {"data", "notfound"}
      BY <2>1, <2>4 DEF ShouldTryRDAP
    <3>2. reply.body = "full" \/ (~reply.failed /\ reply.body \in {"thin", "nodomain"})
      BY <3>1 DEF ParseReply
    <3> QED BY <1>3, <2>1, <2>2, <2>4, <3>2 DEF TryRDAP, Settled
  <2>5. CASE rdap = "inapplicable"
    <3>1. ParseReply(reply) \in {"empty", "transient"}
      BY <2>1, <2>2, <2>5 DEF ShouldTryRDAP
    <3>2. ParseReply(reply) = "empty" => ~reply.failed /\ reply.body = "nothing"
      BY DEF ParseReply
    <3> QED BY <1>3, <2>1, <2>5, <3>1, <3>2 DEF TryRDAP, Settled
  <2> QED BY <2>3, <2>4, <2>5
<1> QED BY <1>1, <1>2, <1>3

LEMMA LookupKeeps ==
  ASSUME Parameters, WhoisInv, Lookup
  PROVE  WhoisInv'
<1> DEFINE d == worker.domain
<1>1. PICK iana \in Iana, reply \in Reply, rdap \in Rdap :
        LET server == ServerOf(d, iana)
            whois == LookupWhois(server, reply)
        IN /\ iana = "known" <=> KnownServer(d)
           /\ rdap = "unasked" <=> ~ShouldTryRDAP(whois)
           /\ bootstrapFetched' \in CASE rdap = "unasked" -> {bootstrapFetched}
                                      [] rdap = "transient" -> {bootstrapFetched, TRUE}
                                      [] OTHER -> {TRUE}
           /\ StoreTLDServer(d, iana)
           /\ CacheResult(d, [result |-> TryRDAP(whois, rdap), age |-> 0,
                                    settled |-> Settled(server, reply, rdap)])
  BY Zenon DEF Lookup
<1> DEFINE server == ServerOf(d, iana)
           outcome == TryRDAP(LookupWhois(server, reply), rdap)
           answer == [result |-> outcome, age |-> 0, settled |-> Settled(server, reply, rdap)]
           entry == [answer |-> answer, left |-> CacheTtl(outcome)]
<1>2. /\ worker.step = "resolve" /\ worker' = [worker EXCEPT !.step = "store"]
      /\ UNCHANGED <<seen, stored, queue, tester, stop, cancelled>>
  BY DEF Lookup, callers
<1>3. d \in Domain /\ worker' = [step |-> "store", domain |-> d] /\ d # None
  BY <1>2 DEF WhoisInv, TypeOK
<1>4. mem' = [mem EXCEPT ![d] = entry]
  BY <1>1 DEF CacheResult
<1>5. server \in Iana \ {"known"}
  BY DEF ServerOf, Iana
<1>6. outcome \in Result /\ (outcome # "transient" => Settled(server, reply, rdap))
  BY <1>1, <1>5, LookupSettled
<1>7. entry \in Entry /\ CacheTtl(outcome) \in 0..Day /\ entry # None
  <2>1. Settled(server, reply, rdap) \in BOOLEAN BY DEF Settled
  <2>2. 0 \in 0..MaxAge BY DEF MaxAge, Parameters
  <2>3. answer \in Answer BY <1>6, <2>1, <2>2 DEF Answer
  <2>4. CacheTtl(outcome) \in 0..Day BY DEF CacheTtl, Parameters
  <2>5. entry \in Entry BY <2>3, <2>4 DEF Entry
  <2> QED BY <2>4, <2>5 DEF Parameters
<1>8. mem \in [Domain -> Entry \cup {None}] BY DEF WhoisInv, TypeOK
<1>9. mem'[d] = entry /\ \A x \in Domain \ {d} : mem'[x] = mem[x]
  BY <1>3, <1>4, <1>8
<1>10. MemSound'
  <2> SUFFICES ASSUME NEW x \in Domain, mem'[x] # None
               PROVE  /\ mem'[x].answer.result # "transient" => mem'[x].answer.settled
                      /\ mem'[x].answer.age + mem'[x].left <= 2 * Day
                      /\ x = d => mem'[x].answer.age = 0
                      /\ x # d /\ ShouldPersist(mem'[x].answer.result)
                            => Says(stored'[x], mem'[x].answer)
    BY <1>3 DEF MemSound, Storing
  <2>1. CASE x = d
    <3>1. 0 + CacheTtl(outcome) <= 2 * Day BY <1>7 DEF Parameters
    <3> QED BY <1>6, <1>9, <2>1, <3>1
  <2>2. CASE x # d
    BY <1>2, <1>9, <2>2 DEF WhoisInv, Sound, MemSound, Storing
  <2> QED BY <2>1, <2>2
<1>11. TypeOK'
  <2>1. mem' \in [Domain -> Entry \cup {None}] BY <1>4, <1>7, <1>8
  <2>2. bootstrapFetched' \in BOOLEAN BY <1>1 DEF WhoisInv, TypeOK
  <2>3. tldServer' \in [Tlds -> [server : BOOLEAN, left : 0..Day] \cup {None}]
    <3>1. [server |-> iana = "server", left |-> Day] \in [server : BOOLEAN, left : 0..Day]
      BY DEF Parameters
    <3>2. tldServer \in [Tlds -> [server : BOOLEAN, left : 0..Day] \cup {None}]
      BY DEF WhoisInv, TypeOK
    <3> QED BY <1>1, <3>1, <3>2 DEF StoreTLDServer
  <2>4. stop # "done" BY <1>2 DEF WhoisInv, TypeOK
  <2> QED BY <1>2, <1>3, <2>1, <2>2, <2>3, <2>4 DEF WhoisInv, TypeOK
<1>12. (SeenSound /\ StoredSound)' BY <1>2 DEF WhoisInv, Sound, SeenSound, StoredSound
<1>13. StoreHolds' BY <1>3, <1>7, <1>9 DEF StoreHolds
<1> QED BY <1>10, <1>11, <1>12, <1>13 DEF WhoisInv, Sound

(* The three ways out: not worth storing; stored; the insert failed.          *)
LEMMA StoreResultKeeps ==
  ASSUME Parameters, WhoisInv, StoreResult
  PROVE  WhoisInv'
<1> DEFINE d == worker.domain
           answer == mem[d].answer
           stores == [stored EXCEPT ![d] = [answer |-> answer, age |-> 0]]
<1>1. /\ worker.step = "store" /\ worker' = [step |-> "idle", domain |-> None]
      /\ UNCHANGED <<queue, tester, stop, cancelled, tldServer, bootstrapFetched>>
  BY DEF StoreResult, Finish, callers
<1>2. /\ mem \in [Domain -> Entry \cup {None}]
      /\ seen \in [Domain -> Entry \cup {None}]
      /\ stored \in [Domain -> Row \cup {None}]
  BY DEF WhoisInv, TypeOK
<1>3. d \in Domain /\ mem[d] # None /\ answer \in Answer
  <2>1. d \in Domain BY <1>1 DEF WhoisInv, TypeOK
  <2>2. mem[d] # None BY <1>1 DEF WhoisInv, Sound, StoreHolds
  <2> QED BY <1>2, <2>1, <2>2 DEF Entry
<1>4. answer.age = 0 /\ (answer.result # "transient" => answer.settled)
  BY <1>1, <1>3 DEF WhoisInv, Sound, MemSound, Storing
<1>5. answer.age <= 2 * Day BY <1>4 DEF Parameters
<1>6. ShouldPersist(answer.result) => answer.settled
  BY <1>4 DEF ShouldPersist
<1>7. \A x \in Domain \ {d} : mem[x] # None /\ ShouldPersist(mem[x].answer.result)
            => Says(stored[x], mem[x].answer)
  BY <1>1 DEF WhoisInv, Sound, MemSound, Storing
<1>8. CASE /\ ~ShouldPersist(answer.result)
           /\ MarkSeen(d, answer) /\ UNCHANGED <<stored, mem>>
  <2>1. SeenSound' /\ seen' \in [Domain -> Entry \cup {None}]
    <3> HIDE DEF d, answer
    <3> QED BY <1>3, <1>4, <1>5, <1>8, MarkSeenKeeps
  <2>2. MemSound' BY <1>1, <1>7, <1>8 DEF WhoisInv, Sound, MemSound, Storing
  <2>3. (StoredSound /\ StoreHolds)' BY <1>1, <1>8 DEF WhoisInv, Sound, StoredSound, StoreHolds
  <2>4. TypeOK' BY <1>1, <1>8, <2>1 DEF WhoisInv, TypeOK
  <2> QED BY <2>1, <2>2, <2>3, <2>4 DEF WhoisInv, Sound
<1>9. CASE /\ ShouldPersist(answer.result) /\ stored' = stores
           /\ MarkSeen(d, answer) /\ UNCHANGED mem
  <2>1. /\ stored'[d] = [answer |-> answer, age |-> 0]
        /\ \A x \in Domain \ {d} : stored'[x] = stored[x]
    BY <1>2, <1>3, <1>9
  <2>2. [answer |-> answer, age |-> 0] \in Row
    BY <1>3 DEF Parameters, Row
  <2>3. stored' \in [Domain -> Row \cup {None}]
    BY <1>2, <1>9, <2>2
  <2>4. [answer |-> answer, age |-> 0] # None BY <2>2 DEF Parameters
  <2>5. Says(stored'[d], answer) BY <2>1, <2>4 DEF Says
  <2>6. SeenSound' /\ seen' \in [Domain -> Entry \cup {None}]
    <3> HIDE DEF d, answer
    <3> QED BY <1>3, <1>4, <1>5, <1>9, <2>1, <2>5, MarkSeenKeeps
  <2>7. MemSound'
    BY <1>1, <1>7, <1>9, <2>1, <2>5 DEF WhoisInv, Sound, MemSound, Storing
  <2>8. StoredSound'
    BY <1>4, <1>6, <1>9, <2>1 DEF WhoisInv, Sound, StoredSound
  <2>9. StoreHolds' BY <1>1 DEF StoreHolds
  <2>10. TypeOK' BY <1>1, <1>9, <2>3, <2>6 DEF WhoisInv, TypeOK
  <2> QED BY <2>6, <2>7, <2>8, <2>9, <2>10 DEF WhoisInv, Sound
<1>10. CASE mem' = [mem EXCEPT ![d] = None] /\ UNCHANGED <<seen, stored>>
  <2>1. mem'[d] = None /\ \A x \in Domain \ {d} : mem'[x] = mem[x]
    BY <1>2, <1>3, <1>10
  <2>2. mem' \in [Domain -> Entry \cup {None}] BY <1>2, <1>10
  <2>3. MemSound' BY <1>1, <1>7, <1>10, <2>1 DEF WhoisInv, Sound, MemSound, Storing
  <2>4. (SeenSound /\ StoredSound /\ StoreHolds)'
    BY <1>1, <1>10 DEF WhoisInv, Sound, SeenSound, StoredSound, StoreHolds
  <2>5. TypeOK' BY <1>1, <1>10, <2>2 DEF WhoisInv, TypeOK
  <2> QED BY <2>3, <2>4, <2>5 DEF WhoisInv, Sound
<1> QED BY <1>8, <1>9, <1>10 DEF StoreResult

-----------------------------------------------------------------------------
(* Time passes when nothing is about to be stored. *)
LEMMA TickKeeps ==
  ASSUME Parameters, WhoisInv, Tick
  PROVE  WhoisInv'
<1>1. /\ worker.step # "store"
      /\ UNCHANGED <<queue, tester, stop, cancelled, worker, bootstrapFetched>>
      /\ seen' = [d \in Domain |-> Older(seen[d])]
      /\ mem' = [d \in Domain |-> Older(mem[d])]
      /\ stored' = [d \in Domain |-> OlderRow(stored[d])]
  BY DEF Tick, callers
<1>2. /\ mem \in [Domain -> Entry \cup {None}]
      /\ seen \in [Domain -> Entry \cup {None}]
      /\ stored \in [Domain -> Row \cup {None}]
      /\ Day \in Nat /\ Day > 0
  BY DEF WhoisInv, TypeOK, Parameters
<1>3. ASSUME NEW e \in Entry \cup {None}, Older(e) # None
      PROVE  /\ e # None /\ e \in Entry
             /\ Older(e).answer = [e.answer EXCEPT !.age = @ + 1]
             /\ Older(e).left = e.left - 1 /\ e.left >= 2
             /\ Older(e) = [answer |-> [e.answer EXCEPT !.age = @ + 1], left |-> e.left - 1]
  BY <1>3 DEF Older, OlderAnswer, Live, Entry
<1>4. ASSUME NEW e \in Entry \cup {None}, Older(e) # None
      PROVE  /\ Older(e).answer.result = e.answer.result
             /\ Older(e).answer.settled = e.answer.settled
             /\ Older(e).answer.age = e.answer.age + 1
             /\ Older(e).answer.age + Older(e).left = e.answer.age + e.left
             /\ e.answer.age + e.left <= 3 * Day => Older(e) \in Entry
  <2>1. /\ e \in Entry /\ e.left >= 2 /\ e.left \in 0..Day
        /\ e.answer \in Answer /\ e.answer.age \in 0..(3 * Day)
        /\ Older(e) = [answer |-> [e.answer EXCEPT !.age = @ + 1], left |-> e.left - 1]
    BY <1>3, <1>4 DEF Entry, Answer, MaxAge
  <2> DEFINE older == [e.answer EXCEPT !.age = @ + 1]
  <2>2. /\ older.result = e.answer.result /\ older.settled = e.answer.settled
        /\ older.age = e.answer.age + 1
    BY <2>1 DEF Answer
  <2>3. ASSUME e.answer.age + e.left <= 3 * Day PROVE Older(e) \in Entry
    <3>1. e.answer.age + 1 \in 0..(3 * Day) /\ e.left - 1 \in 0..Day
      BY <1>2, <2>1, <2>3
    <3>2. older \in Answer BY <2>1, <3>1 DEF Answer, MaxAge
    <3> QED BY <2>1, <3>1, <3>2 DEF Entry
  <2>4. e.answer.age + 1 + (e.left - 1) = e.answer.age + e.left BY <1>2, <2>1
  <2>5. Older(e).answer = older /\ Older(e).left = e.left - 1 BY <2>1
  <2> HIDE DEF older
  <2> QED BY <2>2, <2>3, <2>4, <2>5
<1>5. ASSUME NEW r \in Row \cup {None},
             r # None => r.answer.age = r.age
      PROVE  /\ OlderRow(r) \in Row \cup {None}
             /\ r = None <=> OlderRow(r) = None
             /\ r # None => /\ OlderRow(r).answer.result = r.answer.result
                            /\ OlderRow(r).answer.settled = r.answer.settled
                            /\ OlderRow(r).answer.age = OlderRow(r).age
  <2>1. CASE r = None \/ r.age > Day  BY <1>5, <2>1 DEF OlderRow
  <2>2. CASE r # None /\ ~(r.age > Day)
    <3> DEFINE older == [r.answer EXCEPT !.age = @ + 1]
    <3>1. OlderRow(r) = [answer |-> older, age |-> r.age + 1]
      BY <2>2 DEF OlderRow, OlderAnswer
    <3>2. r.answer \in Answer /\ r.age \in 0..Day /\ r.answer.age = r.age
      BY <1>2, <1>5, <2>2 DEF Row
    <3>3. r.age + 1 \in 0..(Day + 1) /\ r.age + 1 \in 0..(3 * Day) BY <1>2, <3>2
    <3>4. /\ older \in Answer /\ older.result = r.answer.result
          /\ older.settled = r.answer.settled /\ older.age = r.age + 1
      BY <3>2, <3>3 DEF Answer, MaxAge
    <3>5. OlderRow(r) \in Row
      BY <3>1, <3>3, <3>4 DEF Row
    <3>6. OlderRow(r) # None BY <3>5 DEF Parameters
    <3> HIDE DEF older
    <3> QED BY <2>2, <3>1, <3>4, <3>5, <3>6
  <2> QED BY <2>1, <2>2
<1>6. \A d \in Domain : stored[d] # None => stored[d].answer.age = stored[d].age
  BY DEF WhoisInv, Sound, StoredSound
<1>7. \A d \in Domain :
        /\ stored'[d] \in Row \cup {None}
        /\ stored[d] = None <=> stored'[d] = None
        /\ stored[d] # None => stored'[d].answer.result = stored[d].answer.result
  BY <1>1, <1>2, <1>5, <1>6
<1>8. /\ SeenSound'
      /\ seen' \in [Domain -> Entry \cup {None}]
  <2>1. ASSUME NEW d \in Domain, seen'[d] # None
        PROVE  /\ seen'[d] \in Entry
               /\ seen'[d].answer.settled
               /\ seen'[d].answer.age + seen'[d].left <= 3 * Day
               /\ ShouldPersist(seen'[d].answer.result) => Says(stored'[d], seen'[d].answer)
    <3>1. seen'[d] = Older(seen[d]) /\ seen[d] \in Entry \cup {None} BY <1>1, <1>2
    <3>2. seen[d] # None BY <1>3, <2>1, <3>1
    <3>3. /\ seen[d].answer.settled
          /\ seen[d].answer.age + seen[d].left <= 3 * Day
          /\ ShouldPersist(seen[d].answer.result) => Says(stored[d], seen[d].answer)
      BY <3>2 DEF WhoisInv, Sound, SeenSound
    <3> QED BY <1>4, <1>7, <2>1, <3>1, <3>3 DEF Says
  <2> QED BY <1>1, <2>1 DEF SeenSound
<1>9. /\ MemSound'
      /\ mem' \in [Domain -> Entry \cup {None}]
  <2>1. ASSUME NEW d \in Domain, mem'[d] # None
        PROVE  /\ mem'[d] \in Entry
               /\ mem'[d].answer.result # "transient" => mem'[d].answer.settled
               /\ mem'[d].answer.age + mem'[d].left <= 2 * Day
               /\ ShouldPersist(mem'[d].answer.result) => Says(stored'[d], mem'[d].answer)
    <3>1. mem'[d] = Older(mem[d]) /\ mem[d] \in Entry \cup {None} BY <1>1, <1>2
    <3>2. mem[d] # None /\ mem[d] \in Entry BY <1>3, <2>1, <3>1
    <3>3. /\ mem[d].answer.result # "transient" => mem[d].answer.settled
          /\ mem[d].answer.age + mem[d].left <= 2 * Day
          /\ ShouldPersist(mem[d].answer.result) => Says(stored[d], mem[d].answer)
      BY <1>1, <3>2 DEF WhoisInv, Sound, MemSound, Storing
    <3>4. mem[d].answer.age + mem[d].left <= 3 * Day
      <4>1. mem[d].answer.age \in Int /\ mem[d].left \in Int
        BY <3>2 DEF Entry, Answer, MaxAge
      <4> QED BY <1>2, <3>3, <4>1
    <3> QED BY <1>4, <1>7, <2>1, <3>1, <3>3, <3>4 DEF Says
  <2> QED BY <1>1, <2>1 DEF MemSound, Storing
<1>10. StoredSound'
  BY <1>1, <1>2, <1>5, <1>6 DEF WhoisInv, Sound, StoredSound
<1>11. StoreHolds' BY <1>1 DEF StoreHolds
<1>12. TypeOK'
  <2>1. stored' \in [Domain -> Row \cup {None}] BY <1>1, <1>7
  <2>2. tldServer' \in [Tlds -> [server : BOOLEAN, left : 0..Day] \cup {None}]
    <3>1. tldServer \in [Tlds -> [server : BOOLEAN, left : 0..Day] \cup {None}]
      BY DEF WhoisInv, TypeOK
    <3>2. ASSUME NEW t \in Tlds, Live(tldServer[t]), tldServer[t].left # 1
          PROVE  [tldServer[t] EXCEPT !.left = @ - 1] \in [server : BOOLEAN, left : 0..Day]
      BY <1>2, <3>1, <3>2 DEF Live
    <3> QED BY <3>2 DEF Tick
  <2> QED BY <1>1, <1>8, <1>9, <2>1, <2>2 DEF WhoisInv, TypeOK
<1> QED BY <1>8, <1>9, <1>10, <1>11, <1>12 DEF WhoisInv, Sound

(* A new process has only the table. *)
LEMMA RestartKeeps ==
  ASSUME Parameters, WhoisInv, Restart
  PROVE  WhoisInv'
<1>1. TypeOK'
  <2>1. queue' \in Seq(Domain) /\ Len(queue') <= QueueCap
    BY DEF Restart, Parameters
  <2> QED BY <2>1 DEF WhoisInv, TypeOK, Restart
<1>2. Sound'
  BY DEF WhoisInv, Sound, SeenSound, MemSound, StoredSound, StoreHolds, Restart
<1> QED BY <1>1, <1>2 DEF WhoisInv

(* The invariant is inductive. *)
LEMMA WhoisNext ==
  ASSUME Parameters, WhoisInv, [Next]_vars
  PROVE  WhoisInv'
<1>1. CASE \E t \in Tester : Send(t) \/ \E d \in Domain : Enqueue(t, d)
  BY <1>1, SendKeeps, EnqueueKeeps
<1>2. CASE WorkerStep
  BY <1>2, TakeKeeps, EndKeeps, ResolveFromMemoryKeeps, ResolveFromStoreKeeps, LookupKeeps,
     StoreResultKeeps
  DEF WorkerStep
<1>3. CASE Stop \/ CloseQueue \/ Cancel
  BY <1>3, CallerKeeps
<1>4. CASE Tick  BY <1>4, TickKeeps
<1>5. CASE Restart  BY <1>5, RestartKeeps
<1>6. CASE UNCHANGED vars
  <2>1. UNCHANGED <<queue, tester, stop, cancelled, worker, seen, mem, stored, tldServer,
                    bootstrapFetched>>
    BY <1>6 DEF vars, callers, caches
  <2>2. Sound' BY <2>1, SoundUnchanged DEF WhoisInv
  <2> QED BY <2>1, <2>2 DEF WhoisInv, TypeOK
<1> QED BY <1>1, <1>2, <1>3, <1>4, <1>5, <1>6 DEF Next

(* It says what the two properties say. *)
LEMMA WhoisInvImplies ==
  ASSUME Parameters, WhoisInv
  PROVE  CacheSound /\ NotStranded
<1>1. OnlySettled
  BY DEF WhoisInv, Sound, SeenSound, StoredSound, OnlySettled, Live
<1>2. AgeBounded
  BY DEF WhoisInv, Sound, SeenSound, MemSound, AgeBounded, Live
<1>3. NotStranded
  <2> SUFFICES ASSUME NEW d \in Domain, NEW e \in {mem[d], seen[d]},
                      Live(e), ShouldPersist(e.answer.result), ~Storing(d)
               PROVE  Says(stored[d], e.answer)
    BY DEF NotStranded, Storing, Says
  <2> QED BY DEF WhoisInv, Sound, SeenSound, MemSound, Live
<1> QED BY <1>1, <1>2, <1>3 DEF WhoisInv, CacheSound

LEMMA WhoisInvAlways == Spec => []WhoisInv
<1> Parameters BY WhoisWorkerAssumption
<1>1. Init => WhoisInv BY WhoisInit
<1>2. WhoisInv /\ [Next]_vars => WhoisInv' BY WhoisNext
<1> QED BY <1>1, <1>2, PTL DEF Spec

(* What suppresses the lookup of a domain, and what is in the table for all   *)
(* to see, is never the result of a failure, and no answer suppresses        *)
(* lookups for longer than three days.                                        *)
(* [classifyWhoisResult, doResolve, tryRDAP]                                  *)
THEOREM CacheSoundCorrect == Spec => []CacheSound
<1> Parameters BY WhoisWorkerAssumption
<1>1. WhoisInv => CacheSound BY WhoisInvImplies
<1> QED BY <1>1, WhoisInvAlways, PTL

(* What is worth storing and suppresses a lookup is in the table: a result    *)
(* whose insert failed is in neither memory.  [processQueue, invalidate]      *)
THEOREM NotStrandedCorrect == Spec => []NotStranded
<1> Parameters BY WhoisWorkerAssumption
<1>1. WhoisInv => NotStranded BY WhoisInvImplies
<1> QED BY <1>1, WhoisInvAlways, PTL
=============================================================================
