------------------------ MODULE NodelistWatch_proofs ------------------------
(***************************************************************************)
(* What the refresh guarantees for all networks, nodes, dates and issues,  *)
(* and for every order of batches, queries and failures.                   *)
(***************************************************************************)
EXTENDS NodelistWatch, TLAPS

(* The types that the steps use.  Rows the parser has in hand are not yet in *)
(* the table, and rows missed are.                                         *)
RowTypes ==
    /\ table \in SUBSET Row
    /\ import \in SUBSET Row /\ import \cap table = {}
    /\ missed \in SUBSET Row
    /\ fresh \in SUBSET Row
    /\ pc \in {"load", "init", "stamp", "idle", "query", "apply"}

(* A fingerprint that was read names dates that the table holds. *)
Known(fp, rows) == \A p \in fp : \E r \in rows : p = <<DomainOf[r.node], r.date>>

Announced == NodesWithInternet(table \ missed)

Ahead == Fingerprint(table) # lastFingerprint

PhaseInv ==
    /\ pc = "load" => DOMAIN schedules = {}
    /\ pc = "init" => fresh = Announced
    /\ pc = "stamp" => Mirrors(Announced)
    /\ pc \in {"query", "apply"} => Ahead
    /\ pc = "apply" => Fingerprint(table) # current \/ fresh = Announced

Inv ==
    /\ RowTypes
    /\ Known(lastFingerprint, table) /\ Known(current, table)
    /\ PhaseInv
    /\ OutdatedNoticed

LEMMA DatesAreNumbers == \A r \in Row : r.date \in Nat
  BY WatchAssumption DEF Row, Date

(* A fingerprint of the table names dates that the table holds. *)
LEMMA FingerprintKnown ==
    ASSUME NEW rows
    PROVE  Known(Fingerprint(rows), rows)
  BY DEF Known, Fingerprint, Newest

Behind(batch) ==
    \E r \in batch, q \in table : DomainOf[q.node] = DomainOf[r.node] /\ r.date <= q.date

(* Rows of an issue that has rows already, or of an older one, leave the   *)
(* fingerprint as it was.                                                  *)
LEMMA BehindUnseen ==
    ASSUME table \in SUBSET Row, NEW d \in Domain, NEW t \in Date, NEW batch \in SUBSET RowsOf(d, t),
           Behind(batch)
    PROVE  Fingerprint(table \cup batch) = Fingerprint(table)
<1>1. PICK q \in table : DomainOf[q.node] = d /\ t <= q.date
  BY DEF Behind, RowsOf
<1>2. batch \subseteq Row /\ t \in Nat /\ \A r \in batch : DomainOf[r.node] = d /\ r.date = t
  BY WatchAssumption DEF RowsOf, Date
<1>3. \A r \in table \cup batch : r.date \in Nat
  BY <1>2, DatesAreNumbers
<1>4. ASSUME NEW r \in Newest(table \cup batch)
      PROVE  <<DomainOf[r.node], r.date>> \in Fingerprint(table)
  <2>1. r \in table \cup batch
        /\ \A p \in table \cup batch : DomainOf[p.node] = DomainOf[r.node] => p.date <= r.date
    BY DEF Newest
  <2>2. CASE r \in table
    <3>1. r \in Newest(table)
      BY <2>1, <2>2 DEF Newest
    <3> QED BY <3>1 DEF Fingerprint
  <2>3. CASE r \in batch
    <3>1. DomainOf[r.node] = d /\ r.date = t /\ q.date = t
      BY <1>1, <1>2, <1>3, <2>1, <2>3
    <3>2. q \in Newest(table)
      BY <1>1, <2>1, <3>1 DEF Newest
    <3> QED BY <1>1, <3>1, <3>2 DEF Fingerprint
  <2> QED BY <2>1, <2>2, <2>3
<1>5. ASSUME NEW r \in Newest(table)
      PROVE  r \in Newest(table \cup batch)
  <2>1. r \in table /\ \A p \in table : DomainOf[p.node] = DomainOf[r.node] => p.date <= r.date
    BY DEF Newest
  <2>2. ASSUME NEW p \in batch, DomainOf[p.node] = DomainOf[r.node] PROVE p.date <= r.date
    <3>1. p.date = t /\ q.date <= r.date
      BY <1>1, <1>2, <2>1, <2>2
    <3> QED BY <1>1, <1>2, <1>3, <2>1, <3>1
  <2> QED BY <2>1, <2>2 DEF Newest
<1> QED BY <1>4, <1>5 DEF Fingerprint

(* The first rows of an issue newer than all of its network change it to one *)
(* that was never read.                                                    *)
LEMMA NewIssueSeen ==
    ASSUME table \in SUBSET Row, NEW d \in Domain, NEW t \in Date, NEW batch \in SUBSET RowsOf(d, t),
           batch # {}, ~Behind(batch), NEW fp, Known(fp, table)
    PROVE  Fingerprint(table \cup batch) # fp
<1>1. PICK r \in batch : r \in RowsOf(d, t)
  OBVIOUS
<1>2. \A p \in table \cup batch : p.date \in Nat
  BY DatesAreNumbers DEF RowsOf
<1>3. \A p \in table : DomainOf[p.node] = d => p.date < t
  BY <1>1, <1>2 DEF Behind, RowsOf
<1>4. r \in Newest(table \cup batch)
  <2> SUFFICES ASSUME NEW p \in table \cup batch, DomainOf[p.node] = d PROVE p.date <= t
    BY <1>1 DEF Newest, RowsOf
  <2> QED BY <1>1, <1>2, <1>3 DEF RowsOf
<1>5. <<d, t>> \in Fingerprint(table \cup batch)
  BY <1>1, <1>4 DEF Fingerprint, RowsOf
<1>6. <<d, t>> \notin fp
  <2> SUFFICES ASSUME <<d, t>> \in fp PROVE FALSE
    OBVIOUS
  <2>1. PICK p \in table : <<d, t>> = <<DomainOf[p.node], p.date>>
    BY DEF Known
  <2>2. p.date < t /\ p.date = t
    BY <1>3, <2>1
  <2> QED BY <1>2, <2>2
<1> QED BY <1>5, <1>6

LEMMA InitInv == Init => Inv
  BY DEF Init, Inv, RowTypes, Known, NoFingerprint, PhaseInv, OutdatedNoticed

LEMMA InsertKeepsInv ==
    ASSUME Inv, NEW d \in Domain, NEW t \in DatesOf[d], InsertBatch(d, t)
    PROVE  Inv'
<1>1. PICK batch \in (SUBSET (import \cap RowsOf(d, t))) \ {{}} :
          /\ table' = table \cup batch
          /\ import' = import \ batch
          /\ missed' = IF Unannounced(batch) THEN missed \cup batch ELSE missed
  BY DEF InsertBatch
<1>2. UNCHANGED daemonVars /\ t \in Date
  BY DEF InsertBatch, Date
<1>3. RowTypes'
  BY <1>1, <1>2 DEF Inv, RowTypes, daemonVars
<1>4. Known(lastFingerprint, table)' /\ Known(current, table)'
  BY <1>1, <1>2 DEF Inv, Known, daemonVars
<1>5. Unannounced(batch) => (table \ missed)' = table \ missed
  BY <1>1 DEF Inv, RowTypes
<1>6. Unannounced(batch) => Announced' = Announced
  BY <1>5 DEF Announced, NodesWithInternet, Newest
<1>7. CASE pc \in {"load", "init", "stamp"}
  <2>1. pc # "load" => Unannounced(batch)
    BY <1>7 DEF Unannounced
  <2>2. PhaseInv'
    BY <1>2, <1>6, <1>7, <2>1 DEF Inv, PhaseInv, Mirrors, daemonVars
  <2> QED BY <1>2, <1>3, <1>4, <1>7, <2>2 DEF Inv, OutdatedNoticed, daemonVars
<1>8. CASE pc \in {"idle", "query", "apply"} /\ Behind(batch)
  <2>1. Unannounced(batch)
    BY <1>8 DEF Behind, Unannounced
  <2>2. Fingerprint(table') = Fingerprint(table)
    BY <1>1, <1>2, <1>8, BehindUnseen DEF Inv, RowTypes
  <2>3. PhaseInv' /\ OutdatedNoticed'
    BY <1>2, <1>6, <1>8, <2>1, <2>2
       DEF Inv, PhaseInv, Ahead, OutdatedNoticed, Announced, Mirrors, daemonVars
  <2> QED BY <1>3, <1>4, <2>3 DEF Inv
<1>9. CASE pc \in {"idle", "query", "apply"} /\ ~Behind(batch)
  <2>1. Fingerprint(table') # lastFingerprint /\ Fingerprint(table') # current
    BY <1>1, <1>2, <1>9, NewIssueSeen DEF Inv, RowTypes
  <2>2. PhaseInv' /\ OutdatedNoticed'
    BY <1>2, <1>9, <2>1 DEF PhaseInv, Ahead, OutdatedNoticed, daemonVars
  <2> QED BY <1>3, <1>4, <2>2 DEF Inv
<1> QED BY <1>7, <1>8, <1>9 DEF Inv, RowTypes

LEMMA ImportKeepsInv ==
    ASSUME Inv, ImportStep
    PROVE  Inv'
<1>1. PICK d \in Domain : \E t \in DatesOf[d] :
          StartImport(d, t) \/ InsertBatch(d, t) \/ InsertFails(d, t)
  BY DEF ImportStep
<1>2. PICK t \in DatesOf[d] : StartImport(d, t) \/ InsertBatch(d, t) \/ InsertFails(d, t)
  BY <1>1
<1>3. CASE InsertBatch(d, t)
  BY <1>3, InsertKeepsInv
<1>4. CASE StartImport(d, t) \/ InsertFails(d, t)
  <2>1. UNCHANGED <<table, missed, daemonVars>>
    BY <1>4 DEF StartImport, InsertFails
  <2>2. import' \in SUBSET Row /\ import' \cap table = {}
    <3>1. CASE InsertFails(d, t)
      BY <3>1 DEF InsertFails, Inv, RowTypes
    <3>2. CASE StartImport(d, t)
      <4>1. PICK listed \in (SUBSET {n \in Node : DomainOf[n] = d}) \ {{}} :
               \E issue \in Issues(listed, t) : import' = import \cup issue
        BY <3>2 DEF StartImport
      <4>2. PICK issue \in Issues(listed, t) : import' = import \cup issue
        BY <4>1
      <4>3. issue \subseteq RowsOf(d, t)
        BY <4>1, <1>2 DEF Issues, RowsOf, Row, Date
      <4>4. table \cap RowsOf(d, t) = {}
        BY <3>2 DEF StartImport
      <4> QED BY <4>2, <4>3, <4>4 DEF RowsOf, Inv, RowTypes
    <3> QED BY <1>4, <3>1, <3>2
  <2> QED BY <2>1, <2>2 DEF Inv, RowTypes, Known, PhaseInv, Ahead, Announced, OutdatedNoticed,
                            Mirrors, daemonVars
<1> QED BY <1>2, <1>3, <1>4

LEMMA StartKeepsInv ==
    ASSUME Inv, StartStep
    PROVE  Inv'
<1>0. UNCHANGED <<table, import, current>>
  BY DEF StartStep, LoadNodes, LoadFails, InitializeSchedules, Stamp
<1>1. Known(current, table)'
  BY <1>0 DEF Inv, Known
<1>2. CASE LoadNodes
  <2>1. NodesWithInternet(table) \in SUBSET Row /\ Announced' = NodesWithInternet(table)
    BY <1>0, <1>2 DEF LoadNodes, Announced, Inv, RowTypes, NodesWithInternet, Newest
  <2> QED BY <1>0, <1>1, <1>2, <2>1 DEF LoadNodes, Inv, RowTypes, Known, PhaseInv, OutdatedNoticed
<1>3. CASE LoadFails
  <2>1. Announced' = {}
    BY <1>0, <1>3 DEF LoadFails, Announced, NodesWithInternet, Newest
  <2>2. Mirrors(Announced)'
    BY <1>3, <2>1 DEF LoadFails, Inv, PhaseInv, Mirrors, NodesOf
  <2> QED BY <1>0, <1>1, <1>3, <2>2 DEF LoadFails, Inv, RowTypes, Known, PhaseInv, OutdatedNoticed
<1>4. CASE InitializeSchedules
  <2>0. PICK due : schedules' = [n \in NodesOf(fresh) |->
             [cfg |-> RowOf(fresh, n).cfg, due |-> due[n], tested |-> RowOf(fresh, n).cfg]]
    BY <1>4 DEF InitializeSchedules
  <2>1. Mirrors(Announced)'
    <3>1. fresh = Announced /\ Announced' = Announced
      BY <1>0, <1>4 DEF InitializeSchedules, Announced, Inv, PhaseInv
    <3>2. DOMAIN schedules' = NodesOf(fresh)
          /\ \A n \in NodesOf(fresh) : schedules'[n].cfg = RowOf(fresh, n).cfg
      BY <2>0
    <3> QED BY <3>1, <3>2 DEF Mirrors, SameConfig
  <2> QED BY <1>0, <1>1, <1>4, <2>1
          DEF InitializeSchedules, Inv, RowTypes, Known, PhaseInv, OutdatedNoticed
<1>5. CASE Stamp
  <2>1. Known(lastFingerprint, table)'
    BY <1>0, <1>5, FingerprintKnown DEF Stamp, Known, NoFingerprint
  <2>2. Mirrors(Announced)'
    BY <1>0, <1>5 DEF Stamp, Inv, PhaseInv, Mirrors, Announced
  <2> QED BY <1>0, <1>1, <1>5, <2>1, <2>2
          DEF Stamp, Inv, RowTypes, PhaseInv, OutdatedNoticed, Announced
<1> QED BY <1>2, <1>3, <1>4, <1>5 DEF StartStep

LEMMA RefreshKeepsInv ==
    ASSUME Inv, RefreshStep
    PROVE  Inv'
<1>0. UNCHANGED <<table, import>>
  BY DEF RefreshStep, Check, Query, QueryFails, Apply
<1>1. NoFingerprint = {}
  BY DEF NoFingerprint
<1>2. CASE Check
  <2>1. Known(current, table)'
    BY <1>0, <1>2, FingerprintKnown DEF Check
  <2> QED BY <1>0, <1>2, <2>1 DEF Check, Inv, RowTypes, Known, PhaseInv, OutdatedNoticed, Ahead
<1>3. CASE Query
  <2>1. NodesWithInternet(table) \in SUBSET Row /\ Announced' = NodesWithInternet(table)
    BY <1>0, <1>3 DEF Query, Announced, Inv, RowTypes, NodesWithInternet, Newest
  <2> QED BY <1>0, <1>3, <2>1 DEF Query, Inv, RowTypes, Known, PhaseInv, OutdatedNoticed, Ahead
<1>4. CASE QueryFails
  BY <1>0, <1>1, <1>4 DEF QueryFails, Inv, RowTypes, Known, PhaseInv, OutdatedNoticed, Ahead
<1>5. CASE Apply
  <2>1. \A n \in NodesOf(fresh) : Refreshed(n).cfg = RowOf(fresh, n).cfg
    BY DEF Refreshed
  <2>2. Fingerprint(table) = current => fresh = Announced
    BY <1>5 DEF Apply, Inv, PhaseInv
  <2>3. DOMAIN schedules' = NodesOf(fresh)
        /\ \A n \in NodesOf(fresh) : schedules'[n].cfg = RowOf(fresh, n).cfg
    BY <1>5, <2>1 DEF Apply
  <2>4. Fingerprint(table) = current => Mirrors(Announced)'
    BY <1>0, <1>5, <2>2, <2>3 DEF Apply, Announced, Mirrors, SameConfig
  <2>5. OutdatedNoticed'
    BY <1>0, <1>5, <2>4 DEF Apply, OutdatedNoticed, Announced
  <2> QED BY <1>0, <1>1, <1>5, <2>5 DEF Apply, Inv, RowTypes, Known, PhaseInv
<1> QED BY <1>2, <1>3, <1>4, <1>5 DEF RefreshStep

LEMMA ScheduleKeepsInv ==
    ASSUME Inv, NEW n \in Node, BecomeDue(n) \/ Test(n)
    PROVE  Inv'
<1>0. UNCHANGED <<table, import, missed, lastFingerprint, current, fresh, pc>> /\ pc = "idle"
  BY DEF BecomeDue, Test
<1>1. DOMAIN schedules' = DOMAIN schedules
      /\ \A m \in DOMAIN schedules :
            \/ schedules'[m].cfg = schedules[m].cfg
            \/ schedules'[m].cfg = SystemName /\ schedules[m].cfg \in HostlessConfig
  BY DEF BecomeDue, Test
<1>2. Mirrors(Announced) => Mirrors(Announced)'
  BY <1>0, <1>1, WatchAssumption DEF Mirrors, Announced, SameConfig, ListedConfigs
<1> QED BY <1>0, <1>2 DEF Inv, RowTypes, Known, PhaseInv, OutdatedNoticed, Announced

(* A schedule that differs from the newest nodelists in more than the rows *)
(* missed is noticed by the next check, for every number of networks, nodes *)
(* and issues, and every way to cut these into batches.                    *)
THEOREM OutdatedNoticedCorrect == Spec => []OutdatedNoticed
<1>1. Init => Inv
  BY InitInv
<1>2. Inv /\ [Next]_vars => Inv'
  <2> SUFFICES ASSUME Inv, [Next]_vars PROVE Inv'
    OBVIOUS
  <2>1. CASE ImportStep
    BY <2>1, ImportKeepsInv
  <2>2. CASE StartStep
    BY <2>2, StartKeepsInv
  <2>3. CASE RefreshStep
    BY <2>3, RefreshKeepsInv
  <2>4. CASE ScheduleStep
    BY <2>4, ScheduleKeepsInv DEF ScheduleStep
  <2>5. CASE UNCHANGED vars
    BY <2>5 DEF vars, daemonVars, Inv, RowTypes, Known, PhaseInv, OutdatedNoticed, Announced,
                Ahead, Mirrors
  <2> QED BY <2>1, <2>2, <2>3, <2>4, <2>5 DEF Next
<1>3. Inv => OutdatedNoticed
  BY DEF Inv
<1> QED BY <1>1, <1>2, <1>3, PTL DEF Spec

-----------------------------------------------------------------------------
(* The types.  What a query returns has internet service, so that an entry's *)
(* configuration is one of the listed ones, or the tester's name for it.    *)
TypeInv == TypeOK /\ \A r \in fresh : r.cfg \in ListedConfigs

ScheduleTyped == DOMAIN schedules \subseteq Node /\ schedules \in [DOMAIN schedules -> Entry]

LEMMA ScheduleHasType == TypeOK => ScheduleTyped
  BY DEF TypeOK, ScheduleTyped

LEMMA QueriedRows ==
    ASSUME NEW rows \in SUBSET Row
    PROVE  /\ Newest(rows) \in SUBSET Row
           /\ NodesWithInternet(rows) \in SUBSET Row
           /\ \A r \in NodesWithInternet(rows) : r.cfg \in ListedConfigs
           /\ Fingerprint(rows) \in SUBSET (Domain \X Date)
<1>1. Newest(rows) \in SUBSET Row
  BY DEF Newest
<1>2. \A r \in Row : DomainOf[r.node] \in Domain /\ r.date \in Date /\ r.cfg \in ListedConfigs \cup {NoInet}
  BY WatchAssumption DEF Row
<1> QED BY <1>1, <1>2 DEF NodesWithInternet, Fingerprint

LEMMA RowOfTyped ==
    ASSUME TypeInv, NEW n \in NodesOf(fresh)
    PROVE  n \in Node /\ RowOf(fresh, n).cfg \in ListedConfigs
<1>1. PICK r \in fresh : r.node = n
  BY DEF NodesOf
<1>2. RowOf(fresh, n) \in fresh
  BY <1>1 DEF RowOf
<1> QED BY <1>1, <1>2 DEF TypeInv, TypeOK, Row

(* The schedule after a refresh: every entry is of a node queried and typed. *)
LEMMA RefreshedTyped ==
    ASSUME TypeInv, NEW n \in NodesOf(fresh)
    PROVE  /\ Refreshed(n) \in Entry
           /\ Refreshed(n).cfg = RowOf(fresh, n).cfg
           /\ n \in DOMAIN schedules =>
                 /\ Refreshed(n).tested = schedules[n].tested
                 /\ ~Refreshed(n).due => ~schedules[n].due /\ schedules[n].cfg = RowOf(fresh, n).cfg
           /\ n \notin DOMAIN schedules => Refreshed(n).due
<1>1. RowOf(fresh, n).cfg \in ListedConfigs
  BY RowOfTyped
<1>2. CASE n \in DOMAIN schedules
  <2> DEFINE due == schedules[n].due \/ ConfigChanged(schedules[n].cfg, RowOf(fresh, n).cfg)
  <2>1. schedules[n] \in Entry
    BY <1>2, ScheduleHasType DEF TypeInv, ScheduleTyped
  <2>2. due \in BOOLEAN
    BY <2>1 DEF Entry, ConfigChanged
  <2>3. Refreshed(n) = [cfg |-> RowOf(fresh, n).cfg, tested |-> schedules[n].tested, due |-> due]
    BY <1>2, Zenon DEF Refreshed
  <2>4. ~due => ~schedules[n].due /\ schedules[n].cfg = RowOf(fresh, n).cfg
    BY Zenon DEF ConfigChanged
  <2> HIDE DEF due
  <2> QED BY <1>1, <1>2, <2>1, <2>2, <2>3, <2>4 DEF Entry
<1>3. CASE n \notin DOMAIN schedules
  <2>1. Refreshed(n) = [cfg |-> RowOf(fresh, n).cfg, tested |-> NoInet, due |-> TRUE]
    BY <1>3 DEF Refreshed
  <2> QED BY <1>1, <1>3, <2>1 DEF Entry
<1> QED BY <1>2, <1>3

LEMMA TypeInit == Init => TypeInv
<1> SUFFICES ASSUME Init PROVE TypeInv
  OBVIOUS
<1>1. schedules \in [{} -> Entry]
  BY DEF Init
<1> QED BY <1>1 DEF Init, TypeInv, TypeOK, NoFingerprint

(* What Test does to the entry of a node. *)
Tested(entry) ==
    [cfg |-> IF entry.cfg \in HostlessConfig THEN SystemName ELSE entry.cfg, due |-> FALSE,
     tested |-> IF entry.cfg = SystemName THEN entry.tested ELSE entry.cfg]

LEMMA TypeStep == TypeInv /\ [Next]_vars => TypeInv'
<1> SUFFICES ASSUME TypeInv, [Next]_vars PROVE TypeInv'
  OBVIOUS
<1> USE DEF TypeInv
<1>0. ScheduleTyped
  BY ScheduleHasType
<1>1. ASSUME NEW d \in Domain, NEW t \in DatesOf[d], StartImport(d, t) PROVE TypeInv'
  <2>1. PICK listed \in (SUBSET {n \in Node : DomainOf[n] = d}) \ {{}} :
           \E issue \in Issues(listed, t) : import' = import \cup issue
    BY <1>1 DEF StartImport
  <2>2. \A issue \in Issues(listed, t) : issue \in SUBSET Row
    BY <2>1 DEF Issues, Row, Date
  <2>3. import' \in SUBSET Row
    BY <2>1, <2>2 DEF TypeOK
  <2> QED BY <1>1, <2>3 DEF StartImport, TypeOK, daemonVars
<1>2. ASSUME NEW d \in Domain, NEW t \in DatesOf[d], InsertBatch(d, t) \/ InsertFails(d, t) PROVE TypeInv'
  BY <1>2 DEF InsertBatch, InsertFails, TypeOK, daemonVars
<1>3. CASE LoadNodes \/ LoadFails \/ Query \/ QueryFails
  BY <1>3, QueriedRows DEF LoadNodes, LoadFails, Query, QueryFails, TypeOK, NoFingerprint
<1>4. CASE Stamp \/ Check
  BY <1>4, QueriedRows DEF Stamp, Check, TypeOK, NoFingerprint
<1>5. CASE InitializeSchedules
  <2>1. PICK due \in [NodesOf(fresh) -> BOOLEAN] :
          schedules' = [n \in NodesOf(fresh) |->
             [cfg |-> RowOf(fresh, n).cfg, due |-> due[n], tested |-> RowOf(fresh, n).cfg]]
    BY <1>5 DEF InitializeSchedules
  <2>2. schedules' \in [NodesOf(fresh) -> Entry] /\ NodesOf(fresh) \in SUBSET Node
    BY <2>1, RowOfTyped DEF Entry
  <2> QED BY <1>5, <2>2 DEF InitializeSchedules, TypeOK
<1>6. CASE Apply
  <2>1. schedules' \in [NodesOf(fresh) -> Entry] /\ NodesOf(fresh) \in SUBSET Node
    BY <1>6, RefreshedTyped, RowOfTyped DEF Apply
  <2> QED BY <1>6, <2>1 DEF Apply, TypeOK, NoFingerprint
<1>7. ASSUME NEW n \in Node, BecomeDue(n) PROVE TypeInv'
  <2>1. schedules' \in [DOMAIN schedules -> Entry]
    BY <1>0, <1>7 DEF BecomeDue, ScheduleTyped, Entry
  <2> QED BY <1>0, <1>7, <2>1 DEF BecomeDue, TypeOK, ScheduleTyped
<1>8. ASSUME NEW n \in Node, Test(n) PROVE TypeInv'
  <2>1. n \in DOMAIN schedules /\ schedules[n] \in Entry
    BY <1>0, <1>8 DEF Test, ScheduleTyped
  <2>2. Tested(schedules[n]) \in Entry
    BY <2>1 DEF Tested, Entry
  <2>3. schedules' = [schedules EXCEPT ![n] = Tested(schedules[n])]
    BY <1>8 DEF Test, Tested
  <2>4. schedules' \in [DOMAIN schedules -> Entry]
    BY <1>0, <2>2, <2>3 DEF ScheduleTyped
  <2> QED BY <1>0, <1>8, <2>4 DEF Test, TypeOK, ScheduleTyped
<1>9. CASE UNCHANGED vars
  BY <1>9 DEF vars, daemonVars, TypeOK
<1> QED
  BY <1>1, <1>2, <1>3, <1>4, <1>5, <1>6, <1>7, <1>8, <1>9
     DEF Next, ImportStep, StartStep, RefreshStep, ScheduleStep

(* Every state has its types: in particular no entry of the schedule is of a *)
(* node that no query named, or has a row without internet service.         *)
THEOREM TypeCorrect == Spec => []TypeOK
  BY TypeInit, TypeStep, PTL DEF Spec, TypeInv

-----------------------------------------------------------------------------
(* A configuration that changes is tested.  The tester's hostname stands for *)
(* the configuration without one that it was given for.                     *)
RetestInv ==
    \A n \in DOMAIN schedules :
        /\ schedules[n].due \/ SameConfig(schedules[n].cfg, schedules[n].tested)
        /\ schedules[n].cfg = SystemName => schedules[n].tested \in HostlessConfig

LEMMA RetestStep == TypeInv /\ RetestInv /\ [Next]_vars => RetestInv'
<1> SUFFICES ASSUME TypeInv, RetestInv, [Next]_vars PROVE RetestInv'
  OBVIOUS
<1>0. ScheduleTyped /\ SystemName \notin ListedConfigs
  BY ScheduleHasType, WatchAssumption DEF TypeInv, ListedConfigs
<1>1. CASE InitializeSchedules
  <2>1. \A n \in DOMAIN schedules' :
           /\ n \in NodesOf(fresh)
           /\ schedules'[n].cfg = RowOf(fresh, n).cfg /\ schedules'[n].tested = RowOf(fresh, n).cfg
    BY <1>1 DEF InitializeSchedules
  <2> QED BY <1>0, <2>1, RowOfTyped DEF RetestInv, SameConfig
<1>2. CASE Apply
  <2>1. DOMAIN schedules' = NodesOf(fresh) /\ \A n \in NodesOf(fresh) : schedules'[n] = Refreshed(n)
    BY <1>2 DEF Apply
  <2> SUFFICES ASSUME NEW n \in NodesOf(fresh)
               PROVE  /\ Refreshed(n).due \/ SameConfig(Refreshed(n).cfg, Refreshed(n).tested)
                      /\ Refreshed(n).cfg # SystemName
    BY <2>1 DEF RetestInv
  <2>2. Refreshed(n).cfg # SystemName
    BY <1>0, RefreshedTyped, RowOfTyped
  <2>3. ASSUME ~Refreshed(n).due PROVE SameConfig(Refreshed(n).cfg, Refreshed(n).tested)
    <3>1. /\ n \in DOMAIN schedules /\ ~schedules[n].due
          /\ schedules[n].cfg = Refreshed(n).cfg /\ schedules[n].tested = Refreshed(n).tested
      BY <2>3, RefreshedTyped
    <3> QED BY <3>1 DEF RetestInv
  <2> QED BY <2>2, <2>3
<1>3. ASSUME NEW n \in Node, BecomeDue(n) PROVE RetestInv'
  <2>1. \A m \in DOMAIN schedules' :
           /\ m \in DOMAIN schedules
           /\ schedules'[m].cfg = schedules[m].cfg /\ schedules'[m].tested = schedules[m].tested
           /\ m # n => schedules'[m].due = schedules[m].due
    BY <1>0, <1>3 DEF BecomeDue, ScheduleTyped, Entry
  <2>2. schedules'[n].due
    BY <1>0, <1>3 DEF BecomeDue, ScheduleTyped, Entry
  <2> QED BY <2>1, <2>2 DEF RetestInv
<1>4. ASSUME NEW n \in Node, Test(n) PROVE RetestInv'
  <2>1. n \in DOMAIN schedules /\ DOMAIN schedules' = DOMAIN schedules
        /\ schedules'[n] = Tested(schedules[n])
        /\ \A m \in DOMAIN schedules : m # n => schedules'[m] = schedules[m]
    BY <1>4 DEF Test, Tested
  <2>2. /\ SameConfig(Tested(schedules[n]).cfg, Tested(schedules[n]).tested)
        /\ Tested(schedules[n]).cfg = SystemName => Tested(schedules[n]).tested \in HostlessConfig
    <3>1. schedules[n].cfg = SystemName => schedules[n].tested \in HostlessConfig
      BY <2>1 DEF RetestInv
    <3> QED BY <1>0, <3>1 DEF Tested, SameConfig, ListedConfigs
  <2> QED BY <2>1, <2>2 DEF RetestInv
<1>5. CASE UNCHANGED schedules
  BY <1>5 DEF RetestInv
<1> QED
  BY <1>1, <1>2, <1>3, <1>4, <1>5
     DEF Next, ImportStep, StartImport, InsertBatch, InsertFails, StartStep, LoadNodes, LoadFails,
         Stamp, RefreshStep, Check, Query, QueryFails, ScheduleStep, daemonVars, vars

(* No order of refreshes loses the retest of a changed configuration. *)
THEOREM ChangedIsRetestedCorrect == Spec => []ChangedIsRetested
<1>1. Init => RetestInv
  BY DEF Init, RetestInv
<1>2. RetestInv => ChangedIsRetested
  BY DEF RetestInv, ChangedIsRetested
<1> QED BY <1>1, <1>2, TypeInit, TypeStep, RetestStep, PTL DEF Spec
=============================================================================
