--------------------------- MODULE CensusQueries ---------------------------
(***************************************************************************)
(* What the storage layer counts in the nodelists: the use of a flag, the  *)
(* history of a net, the nodes that began on this day, the pioneers of a   *)
(* region, the numbers of an issue, and the nodes that can be called by    *)
(* phone or by e-mail.                                                     *)
(*                                                                         *)
(* A row is an entry of a node in an issue of its network (1 is fidonet; 0 *)
(* stands for all networks).  Dates count days of years of YearLength days.*)
(* Limits and texts are left out.                                          *)
(***************************************************************************)
EXTENDS Integers, Sequences, FiniteSets, SequencesExt, FiniteSetsExt, TLC

Fidonet == 1
YearLength == 6   \* bound: days of a year
MaxGap == 2       \* bound: 14 days without an issue end a period

Year(date) == date \div YearLength
Key(r) == <<r.domain, r.zone, r.net, r.node>>
Address(r) == <<r.zone, r.net, r.node>>
OfDomain(rows, domain) == {r \in rows : domain = 0 \/ r.domain = domain}
Keys(rows) == {Key(r) : r \in rows}
Dates(rows) == {r.date : r \in rows}
Earliest(rows) == {r \in rows : \A q \in rows : r.date <= q.date}

(* The newest issue of each network, and its nodes that are in service. *)
Newest(rows) == {r \in rows : \A q \in rows : q.domain = r.domain => q.date <= r.date}
InService(rows) == {r \in Newest(rows) : r.seq = 0 /\ r.type \notin {"Down", "Hold"}}

-----------------------------------------------------------------------------
(* The statistics of flags, which the importer adds up after each issue from  *)
(* what is stored by then.  Of several first nodes any may be named.          *)
UpdateFlagStatistics(stored, domain, date) ==
    LET mine == OfDomain(stored, domain)
        issue == {r \in mine : r.date = date}
        carriers(rows, flag) == {r \in rows : flag \in r.flags}
    IN {[flag |-> flag, domain |-> domain, date |-> date, year |-> Year(date),
         nodes |-> Cardinality(Keys(carriers(issue, flag))),
         total |-> Cardinality(Keys({r \in mine : Year(r.date) = Year(date)})),
         first |-> Earliest(carriers(mine, flag))] : flag \in UNION {r.flags : r \in issue}}

Stored(imports) == UNION {issue.rows : issue \in ToSet(imports)}

FlagStatistics(imports) ==
    UNION {UpdateFlagStatistics(Stored(SubSeq(imports, 1, i)), imports[i].domain, imports[i].date) :
               i \in {j \in DOMAIN imports : imports[j].updated}}

FlagFirstAppearance(stats, flag, domain) ==
    Earliest(UNION {s.first : s \in {t \in OfDomain(stats, domain) : t.flag = flag}})

FlagUsageByYear(stats, flag, domain) ==   \* a row for every issue; the total is any of its year's
    LET mine == OfDomain(stats, IF domain = 0 THEN Fidonet ELSE domain)
    IN [year \in {s.year : s \in mine} |->
          [totals |-> {s.total : s \in {t \in mine : t.year = year}},
           used |-> {<<s.date, s.nodes>> : s \in {t \in mine : t.year = year /\ t.flag = flag}}]]

-----------------------------------------------------------------------------
(* The periods of a net.  The window function runs before DISTINCT: an issue   *)
(* with several nodes gives two lines, one after the issue before and one      *)
(* after itself; in the running sum either may come first.                     *)
NetworkHistories(rows, zone, net, domain) ==
    LET mine == {r \in OfDomain(rows, domain) : r.zone = zone /\ r.net = net}
        before(d) == {e \in Dates(mine) : e < d}
        starts == {d \in Dates(mine) : before(d) = {} \/ d - Max(before(d)) > MaxGap}
        several == {d \in Dates(mine) : Cardinality({r \in mine : r.date = d}) > 1}
        lines == (Dates(mine) \X {"first"}) \cup (several \X {"again"})
        period(l, early) == Cardinality({d \in starts : d < l[1] \/ (d = l[1] /\ (l[2] = "first" \/ d \notin early))})
        span(S) == [start |-> Min({l[1] : l \in S}), end |-> Max({l[1] : l \in S}), issues |-> Cardinality(S)]
    IN {{span({l \in lines : period(l, early) = g}) : g \in {period(l, early) : l \in lines}} :
            early \in SUBSET (starts \cap several)}

-----------------------------------------------------------------------------
(* The nodes of a sysop that appeared first on a day of an earlier year. *)
OnThisDay(rows, day, today, activeOnly, domain) ==
    LET mine == OfDomain(rows, domain)
        life(r) == {q \in mine : Key(q) = Key(r) /\ q.sysop = r.sysop}
        found == {[node |-> Key(r), sysop |-> r.sysop, since |-> Min(Dates(life(r))), seen |-> Max(Dates(life(r))),
                   active |-> life(r) \cap Newest(mine) # {}] : r \in mine}
    IN {f \in found : /\ f.since % YearLength = day /\ Year(f.since) < Year(today)
                      /\ activeOnly => f.active}

(* The first node of each sysop in a region, the earliest first. *)
Pioneers(rows, zone, region, domain, limit) ==
    LET mine == {r \in OfDomain(rows, domain) : r.zone = zone /\ r.region = region}
        place(r) == <<r.date, r.net, r.node>>
        Sooner(a, b) == \E i \in 1..3 : a[i] < b[i] /\ \A j \in 1..(i - 1) : a[j] = b[j]
        first == {[sysop |-> r.sysop, at |-> place(r)] :
                     r \in {q \in mine : \A p \in mine : p.sysop = q.sysop => ~Sooner(place(p), place(q))}}
        list == SetToSortSeq(first, LAMBDA f, g : Sooner(f.at, g.at) \/ (f.at = g.at /\ f.sysop < g.sysop))
    IN SubSeq(list, 1, Min({limit, Len(list)}))

-----------------------------------------------------------------------------
(* The numbers of an issue: conflicting entries count.  A region without an    *)
(* entry of its own has the name of any of its nodes; a net is listed once for *)
(* each entry of a host.                                                       *)
StatsOf(rows, date, domain) ==
    LET issue == {r \in OfDomain(rows, domain) : r.date = date}
        Count(S) == Cardinality(S)
        coordinator(S) == {r \in S : r.type = "Region"}
        regions == {<<r.zone, r.region>> : r \in {q \in issue : q.region > 0}}
        inRegion(g) == {r \in issue : <<r.zone, r.region>> = g}
        leaves == {r \in issue : r.type \in {"Node", "Hub", "Pvt", "Hold", "Down"}}
        nets == {<<r.domain, r.zone, r.net>> : r \in leaves}
        OfNet(S, n) == {r \in S : <<r.domain, r.zone, r.net>> = n}
        hosts(n) == OfNet({r \in issue : r.type = "Host"}, n)
    IN [total |-> Count(issue),
        types |-> [t \in {r.type : r \in issue} |-> Count({r \in issue : r.type = t})],
        active |-> Count({r \in issue : r.type \notin {"Down", "Hold"}}),
        cm |-> Count({r \in issue : r.cm}),
        zones |-> [z \in {r.zone : r \in issue} |-> Count({r \in issue : r.zone = z})],
        regions |-> [g \in regions |->
                       [count |-> Count(inRegion(g)),
                        names |-> {r.name : r \in IF coordinator(inRegion(g)) = {} THEN inRegion(g)
                                                   ELSE coordinator(inRegion(g))}]],
        nets |-> [n \in nets |-> [count |-> Count(OfNet(leaves, n)), lines |-> Max({1, Count(hosts(n))})]]]

NodeCountHistory(rows, domain) ==
    LET mine == OfDomain(rows, domain)
    IN [d \in Dates(mine) |-> Cardinality({r \in mine : r.date = d})]

-----------------------------------------------------------------------------
(* The nodes with a phone, and the marks of dead numbers: of the marks of an   *)
(* address, which name no network, the latest counts, of a second the last.    *)
DeadAddresses(marks) ==
    LET latest(i) == \A j \in DOMAIN marks : marks[j].address = marks[i].address =>
                         marks[j].at < marks[i].at \/ (marks[j].at = marks[i].at /\ j <= i)
    IN {marks[i].address : i \in {j \in DOMAIN marks : latest(j) /\ marks[j].dead}}

Callable(rows) == {r \in InService(rows) : r.phone # "unpublished" /\ r.node # 0}

PSTNCMNodes(rows) == {r \in Callable(OfDomain(rows, Fidonet)) : r.cm}

PSTNNodes(rows, zone, domain, marks) ==
    {[row |-> r, dead |-> domain \in {0, Fidonet} /\ Address(r) \in DeadAddresses(marks)] :
        r \in {q \in Callable(OfDomain(rows, domain)) : zone = 0 \/ q.zone = zone}}

FileRequestNodes(rows, domain) ==
    {r \in InService(OfDomain(rows, domain)) : r.node # 0 /\ r.flags \cap {"XA", "XC"} # {}}

-----------------------------------------------------------------------------
(* E-mail: a row has the flags as they are stored, each with its value: an     *)
(* address [user, host], none, or one that is malformed.                       *)
NoMail == [user |-> "", host |-> ""]
Malformed == [user |-> "?", host |-> ""]
IsAddress(v) == v.host # ""

Values(email, flag) == {e.value : e \in {g \in email : g.flag = flag}}
Addresses(values) == {v \in values : IsAddress(v)}

(* Where the addresses of a flag come from: the first source that has any. *)
Resolve(email, flag, field) ==
    LET own == Addresses(Values(email, flag))
        default == Addresses(Values(email, "IEM"))
        any == Addresses({e.value : e \in email})
    IN CASE own # {}               -> [addresses |-> own, source |-> "explicit"]
         [] own = {} /\ default # {} -> [addresses |-> default, source |-> "IEM default"]
         [] own = {} /\ default = {} /\ any # {} -> [addresses |-> any, source |-> "other email flag"]
         [] any = {} /\ IsAddress(field) -> [addresses |-> {field}, source |-> "field"]
         [] OTHER                  -> [addresses |-> {}, source |-> "unresolved"]

Extract(email, field) ==
    {[flag |-> flag, malformed |-> Malformed \in Values(email, flag)] @@ Resolve(email, flag, field) :
        flag \in {e.flag : e \in email}}

EmailCapableNodes(rows, useField, domain) ==
    {[row |-> r, capabilities |-> Extract(r.email, IF useField THEN r.field ELSE NoMail)] :
        r \in {q \in InService(OfDomain(rows, domain)) : q.email # {}}}

MailHosts(node) == {a.host : a \in UNION {c.addresses : c \in node.capabilities}}

(* What the checks of the mail hosts said, the latest of each; with none at    *)
(* all the nodes are left without any. *)
EndpointStatus(nodes, checks) ==
    LET verdicts == {k \in checks : /\ \E n \in nodes : k.host \in MailHosts(n)
                                    /\ \A j \in checks : j.host = k.host => j.at <= k.at}
        said(h) == {k.status : k \in {v \in verdicts : v.host = h}}
    IN [n \in nodes |->
          IF verdicts = {} THEN {}
          ELSE {[host |-> h, status |-> IF said(h) = {} THEN "unchecked" ELSE CHOOSE s \in said(h) : TRUE] :
                    h \in MailHosts(n)}]

(* The nodes with an e-mail flag in the last issue of each year. *)
EmailFlagTrend(rows, domain) ==
    LET mine == OfDomain(rows, domain)
        last(r) == \A q \in mine : q.domain = r.domain /\ Year(q.date) = Year(r.date) => q.date <= r.date
        sampled == {r \in mine : last(r) /\ r.seq = 0 /\ r.type \notin {"Down", "Hold"}}
        In(y) == {r \in sampled : Year(r.date) = y}
    IN [y \in {Year(r.date) : r \in sampled} |->
          [any |-> Cardinality({r \in In(y) : r.email # {}}), total |-> Cardinality(In(y)),
           flags |-> [f \in UNION {{e.flag : e \in r.email} : r \in In(y)} |->
                         Cardinality({r \in In(y) : \E e \in r.email : e.flag = f})]]]

-----------------------------------------------------------------------------
(* The answers to the calls. *)
FlagReport(imports, flag) ==
    LET stats == FlagStatistics(imports)
    IN [first |-> [d \in 0..2 |-> FlagFirstAppearance(stats, flag, d)],
        usage |-> [d \in 1..2 |-> FlagUsageByYear(stats, flag, d)]]

DayReport(rows, day, today, domain) ==
    [all |-> OnThisDay(rows, day, today, FALSE, domain),
     active |-> OnThisDay(rows, day, today, TRUE, domain)]

StatsReport(rows, domain) ==
    [numbers |-> [d \in Dates(OfDomain(rows, domain)) |-> StatsOf(rows, d, domain)],
     history |-> NodeCountHistory(rows, domain)]

PhoneReport(rows, marks) ==
    [cm |-> PSTNCMNodes(rows), all |-> [d \in 0..2 |-> PSTNNodes(rows, 0, d, marks)],
     files |-> [d \in 0..2 |-> FileRequestNodes(rows, d)]]

EmailReport(rows, useField, checks) ==
    [capable |-> [d \in 0..2 |-> EmailCapableNodes(rows, useField, d)],
     status |-> EndpointStatus(EmailCapableNodes(rows, useField, 0), checks),
     trend |-> [d \in 0..2 |-> EmailFlagTrend(rows, d)]]

-----------------------------------------------------------------------------
(* Whatever the order of the imports, and although some of the updates failed: *)
(* once a flag is counted after its first issue was stored, its first node is  *)
(* right, and what is counted of an issue is what is in it. *)
FlagsTold(imports, flag, a) ==
    LET carriers(rows, d) == {r \in OfDomain(rows, d) : flag \in r.flags}
        stored == Stored(imports)
        counted(d) == {i \in DOMAIN imports : /\ imports[i].updated /\ imports[i].domain = d
                                             /\ carriers(imports[i].rows, d) # {}}
        known(d) == \E i \in counted(d) :
                       Earliest(carriers(stored, d)) = Earliest(carriers(Stored(SubSeq(imports, 1, i)), d))
    IN /\ \A d \in 1..2 : known(d) => a.first[d] = Earliest(carriers(stored, d))
       /\ a.first[0] = Earliest(a.first[1] \cup a.first[2])
       /\ \A d \in 1..2, i \in DOMAIN imports : imports[i].domain = d =>
             LET year == Year(imports[i].date)
                 nodes == Keys(carriers(imports[i].rows, d))
             IN i \in counted(d) <=>
                   year \in DOMAIN a.usage[d] /\ <<imports[i].date, Cardinality(nodes)>> \in a.usage[d][year].used
       /\ \A d \in 1..2 : \A year \in DOMAIN a.usage[d] : \A total \in a.usage[d][year].totals :
             total <= Cardinality(Keys({r \in OfDomain(stored, d) : Year(r.date) = year}))

(* A net is seen from its first issue to its last, and in every issue that has *)
(* it; if it has one entry in each, its periods are those without a gap.       *)
HistoryTold(rows, zone, net, domain, a) ==
    LET mine == {r \in OfDomain(rows, domain) : r.zone = zone /\ r.net = net}
        dates == Dates(mine)
        gap(d) == \A e \in dates : e < d => d - e > MaxGap
        run(p) == {d \in dates : p.start <= d /\ d <= p.end}
    IN \A history \in a :
          /\ \A d \in dates : \E p \in history : d \in run(p)
          /\ \A p \in history : {p.start, p.end} \subseteq dates /\ gap(p.start)
          /\ \A d \in {e \in dates : gap(e)} : \E p \in history : p.start = d
          /\ Cardinality(mine) = Cardinality(dates) =>
                \A p \in history : /\ p.issues = Cardinality(run(p))
                                   /\ \A d \in run(p) : d # p.start => ~gap(d)

(* Who is said to have begun on a day did, with that sysop and that address;   *)
(* none is forgotten, and the active ones are in the newest issue.             *)
DayTold(rows, day, today, domain, a) ==
    LET mine == OfDomain(rows, domain)
        newest(d) == Max({r.date : r \in {q \in rows : q.domain = d}})
        before(f, date) == {r \in mine : Key(r) = f.node /\ r.sysop = f.sysop /\ r.date < date}
    IN /\ a.active = {f \in a.all : f.active}
       /\ \A f \in a.all : /\ before(f, f.since) = {} /\ before(f, f.since + 1) # {}
                           /\ f.active <=> f.seen = newest(f.node[1])
       /\ {<<Key(r), r.sysop>> : r \in {q \in mine : /\ q.date % YearLength = day /\ Year(q.date) < Year(today)
                                                     /\ \A p \in mine : Key(p) = Key(q) /\ p.sysop = q.sysop => p.date >= q.date}}
             = {<<f.node, f.sysop>> : f \in a.all}

(* The pioneers are the first: nobody who is not shown came before one who is. *)
PioneersTold(rows, zone, region, domain, limit, a) ==
    LET mine == {r \in OfDomain(rows, domain) : r.zone = zone /\ r.region = region}
        shown == {a[i].sysop : i \in DOMAIN a}
    IN /\ Cardinality(shown) = Len(a)
       /\ Len(a) = Min({limit, Cardinality({r.sysop : r \in mine})})
       /\ \A i \in DOMAIN a : a[i].at[1] = Min(Dates({r \in mine : r.sysop = a[i].sysop}))
       /\ \A r \in mine, i \in DOMAIN a : r.sysop \notin shown => r.date >= a[i].at[1]

(* The numbers of an issue add up, and its history has them too. *)
StatsTold(rows, domain, a) ==
    LET Total(f) == FoldSet(LAMBDA x, sum : sum + f[x], 0, DOMAIN f)
    IN \A date \in DOMAIN a.numbers :
          LET s == a.numbers[date]
              down == {t \in DOMAIN s.types : t \in {"Down", "Hold"}}
          IN /\ s.total = a.history[date] /\ s.total = Total(s.zones) /\ s.total = Total(s.types)
             /\ s.total = s.active + Total([t \in down |-> s.types[t]])
             /\ Total([g \in DOMAIN s.regions |-> s.regions[g].count])
                   = Cardinality({r \in OfDomain(rows, domain) : r.date = date /\ r.region > 0})
             /\ Total([n \in DOMAIN s.nets |-> s.nets[n].count])
                   = Total([t \in DOMAIN s.types \cap {"Node", "Hub", "Pvt", "Hold", "Down"} |-> s.types[t]])

(* Who can be called is a node of the newest issue of its own network, once,   *)
(* and the same on every page; a number is dead if the last mark of it says so.*)
PhonesTold(rows, marks, a) ==
    LET callable(d) == {e.row : e \in a.all[d]}
        last(address) == {i \in DOMAIN marks : /\ marks[i].address = address
                                              /\ \A j \in (i + 1)..Len(marks) : marks[j].address # address}
    IN /\ callable(0) = callable(1) \cup callable(2) /\ a.files[0] = a.files[1] \cup a.files[2]
       /\ a.cm = {r \in callable(Fidonet) : r.cm}
       /\ Cardinality(Keys(callable(0))) = Cardinality(callable(0))
       /\ \A r \in callable(0) \cup a.files[0] : \A q \in rows : q.domain = r.domain => q.date <= r.date
       /\ \A e \in a.all[Fidonet] : e.dead <=> \E i \in last(Address(e.row)) : marks[i].dead
       /\ \A e \in a.all[2] : ~e.dead

(* Of the addresses of a node none is invented, and no flag that it does not   *)
(* have: what it publishes with a flag goes before what it publishes with      *)
(* others, and a field is looked at only if no flag has an address.  A node    *)
(* with a verdict on one of its hosts has one for each.  The last year of the  *)
(* trend of a network counts the nodes of the page. *)
EmailTold(rows, useField, checks, a) ==
    LET published(r) == Addresses({e.value : e \in r.email})
    IN /\ a.capable[0] = a.capable[1] \cup a.capable[2]
       /\ \A n \in a.capable[0] : \A c \in n.capabilities :
             LET own == {e.value : e \in {f \in n.row.email : f.flag = c.flag}}
             IN /\ own # {}
                /\ c.addresses \subseteq published(n.row) \cup IF useField THEN {n.row.field} ELSE {}
                /\ published(n.row) # {} => c.addresses # {} /\ c.addresses \subseteq published(n.row)
                /\ Addresses(own) # {} => c.addresses = Addresses(own)
                /\ c.malformed <=> Malformed \in own
       /\ \A n \in a.capable[0] : {c.flag : c \in n.capabilities} = {e.flag : e \in n.row.email}
       /\ \A n \in DOMAIN a.status :
             LET stated == a.status[n]
                 checked(h) == {k \in checks : k.host = h}
             IN /\ stated # {} => {s.host : s \in stated} = MailHosts(n) /\ Cardinality(stated) = Cardinality(MailHosts(n))
                /\ \A h \in MailHosts(n) : checked(h) # {} =>
                      \E s \in stated, k \in checked(h) : /\ s.host = h /\ s.status = k.status
                                                          /\ \A j \in checked(h) : j.at <= k.at
       /\ \A d \in 1..2 : DOMAIN a.trend[d] # {} /\ InService(OfDomain(rows, d)) # {} =>
             a.trend[d][Max(DOMAIN a.trend[d])].any = Cardinality(a.capable[d])
=============================================================================
