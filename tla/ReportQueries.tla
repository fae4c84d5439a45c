--------------------------- MODULE ReportQueries ---------------------------
(***************************************************************************)
(* The reports of the storage layer: a census of the networks, made of the *)
(* log of the tests.                                                       *)
(*                                                                         *)
(* A row of the log is what one test found: of a hostname of a node (its   *)
(* index; -1 when the node has only one), or the sum of all its hostnames  *)
(* (agg); or it is derived from the test of another node on the same host. *)
(* It has the protocols tested and those that answered over each family    *)
(* (ifcico is like binkp), the networks whose addresses the peer announced,*)
(* the families over which the expected one was among them, and what the   *)
(* probe of the VModem port heard.  Time counts ticks; a node is known with*)
(* its network.                                                            *)
(***************************************************************************)
EXTENDS Integers, Sequences, FiniteSets, SequencesExt, FiniteSetsExt

SessionWindow == 1   \* bound: testSessionWindowSeconds, in ticks
DayLength == 3       \* bound: a day, in ticks
Week == 4            \* bound: a week, in ticks
MaxFailures == 2     \* failures of a month that are not yet an instability

LexBefore(a, b) == \E i \in DOMAIN a : a[i] < b[i] /\ \A j \in 1..(i - 1) : a[j] = b[j]
Day(r) == r.time \div DayLength
Rank(b) == IF b THEN 0 ELSE 1   \* what holds comes first

-----------------------------------------------------------------------------
(* The gate: the nodes of the newest list of each network that are in service. *)
InService(listings) ==
    {l \in listings : /\ \A m \in listings : m.network = l.network => m.date <= l.date
                      /\ l.seq = 0 /\ l.type \notin {"Down", "Hold"}}
CurrentNodes(listings) == {l.node : l \in InService(listings)}
AnnouncedNodes(listings) == {l.node : l \in {m \in InService(listings) : m.ivm}}

-----------------------------------------------------------------------------
(* A report shows of every node one row of its latest test: of the session     *)
(* that ends with the latest row that the report looks for, but not from       *)
(* before its period.  Of equal rows it may show any.                          *)
Since(log, time) == {r \in log : r.time >= time}
LatestTime(rows) == Max({r.time : r \in rows})

Session(log, latest, from) ==
    {r \in log : r.time <= latest /\ r.time >= Max({latest - SessionWindow, from})}

First(S, Before(_, _)) == {r \in S : \A q \in S : ~Before(q, r)}

SumFirst(q, r) == LexBefore(<<Rank(q.agg), q.host>>, <<Rank(r.agg), r.host>>)

Shown(log, nodes, from, Anchor(_), Candidate(_), Before(_, _)) ==
    UNION {LET own == {r \in log : r.node = n}
               anchors == {r \in Since(own, from) : Anchor(r)}
           IN IF anchors = {} THEN {}
              ELSE First({r \in Session(own, LatestTime(anchors), from) : Candidate(r)}, Before) :
           n \in nodes}

-----------------------------------------------------------------------------
(* What a row shows *)
Mail == {"binkp", "telnet"}   \* FTP has no part in the reports on IPv6

Answered(r) == r.ok4 \cup r.ok6
Confirmed(r) == r.vm = "vmp"
Up(r) == Answered(r) # {} \/ r.vm \in {"other", "vmp"}
Works4(r) == r.ok4 \cap Mail # {}
Works6(r) == r.v6 /\ r.ok6 \cap Mail # {}
Tested6(r) == r.v6 /\ r.tested \cap Mail # {}
Handshake(r) == ~r.agg /\ Up(r) /\ "binkp" \in Answered(r)
Verified6(r) == ~r.agg /\ "binkp" \in r.ok6 /\ r.valid # {}

Having(log, Test(_)) == {r.node : r \in {q \in log : Test(q)}}

-----------------------------------------------------------------------------
(* The reports on IPv6 *)
IPv6Enabled(log, nodes, from) ==
    LET Looked(r) == Works6(r) /\ Up(r) IN Shown(log, nodes, from, Looked, Looked, SumFirst)

AnyRow(r) == TRUE

IPv6NonWorking(log, nodes, from) ==
    LET tested == Having(Since(log, from), Tested6) \cap nodes
        failed == tested \ Having(Since(log, from), Works6)
    IN Shown(log, failed, from, AnyRow, AnyRow, SumFirst)

IPv6AdvertisedIPv4Only(log, nodes, from) ==
    LET ByIPv4(r) == r.v6 /\ Answered(r) \cap Mail # {}
        working == Having(Since(log, from), ByIPv4) \cap nodes
        failed == (working \cap Having(Since(log, from), Tested6)) \ Having(Since(log, from), Works6)
    IN Shown(log, failed, from, AnyRow, AnyRow, SumFirst)

IPv6Only(log, nodes, from) ==
    LET Looked(r) == Works6(r) /\ ~Works4(r) IN Shown(log, nodes, from, Looked, Looked, SumFirst)

PureIPv6Only(log, nodes, from) ==
    LET Looked(r) == Works6(r) /\ ~r.v4 IN Shown(log, nodes, from, Looked, Looked, SumFirst)

(* The list of IPv6 nodes, with those that failed too often in the month. *)
IPv6NodeList(log, nodes, from, monthAgo) ==
    LET Failed(r) == ~r.agg /\ r.v6 /\ "binkp" \in r.tested /\ "binkp" \notin r.ok6
        Failures(n) == {r.time : r \in {q \in Since(log, monthAgo) : q.node = n /\ Failed(q)}}
    IN {[row |-> r, ino4 |-> ~Works4(r), unstable |-> Cardinality(Failures(r.node)) > MaxFailures] :
           r \in Shown(log, nodes, from, Verified6, Verified6, SumFirst)}

(* The news of the week: the nodes that are new in the lists, and the old ones *)
(* that lost or gained IPv6 since the week before.                             *)
ListedNew(listings, nodes, now) ==
    LET before == {m \in listings : m.date >= now - 2 * Week /\ m.date < now - Week}
    IN ({l.node : l \in {m \in listings : m.date >= now - Week}} \ {l.node : l \in before}) \cap nodes

ListedBefore(listings, nodes, now) ==
    {l.node : l \in {m \in listings : m.date < now - 2 * Week}} \cap nodes

LastWeek(log, now) == {r \in Since(log, now - 2 * Week) : r.time < now - Week}

NewNodesWorking(log, listings, nodes, now) ==
    LET Working(r) == r.v6 /\ Up(r) /\ (r.ok6 \cap Mail # {} \/ "ftp" \in Answered(r))
    IN Shown(log, ListedNew(listings, nodes, now), now - Week, Working, Working, SumFirst)

NewNodesNonWorking(log, listings, nodes, now) ==
    IPv6NonWorking(log, ListedNew(listings, nodes, now), now - Week)

OldNodesThatLost(log, listings, nodes, now) ==
    LET worked == Having(LastWeek(log, now), Works6) \ Having(Since(log, now - Week), Works6)
    IN Shown(log, ListedBefore(listings, nodes, now) \cap worked, now - Week, AnyRow, AnyRow, SumFirst)

OldNodesThatGained(log, listings, nodes, now) ==
    LET failed == Having(LastWeek(log, now), AnyRow) \ Having(LastWeek(log, now), Works6)
        works == Having(Since(log, now - Week), Works6)
    IN Shown(log, ListedBefore(listings, nodes, now) \cap failed \cap works, now - Week, AnyRow, AnyRow, SumFirst)

WeeklyNews(log, listings, nodes, now) ==
    [newWorking |-> NewNodesWorking(log, listings, nodes, now),
     newFailing |-> NewNodesNonWorking(log, listings, nodes, now),
     lost |-> OldNodesThatLost(log, listings, nodes, now),
     gained |-> OldNodesThatGained(log, listings, nodes, now)]

-----------------------------------------------------------------------------
(* The reports on protocols, and the pair on VModem *)
ProtocolEnabled(log, nodes, from, Success(_)) ==
    LET Looked(r) == Success(r) /\ Up(r) IN Shown(log, nodes, from, Looked, Success, SumFirst)

VModemEnabled(log, listings, from) ==
    ProtocolEnabled(log, AnnouncedNodes(listings), from, Confirmed)

VModemUnconfirmed(log, listings, from) ==
    LET Probed(r) == r.vm # "untested"
    IN {r \in Shown(log, AnnouncedNodes(listings), from, Probed, Probed, SumFirst) : ~Confirmed(r)}

(* The addresses that the peers announce: the wrong ones, those that differ    *)
(* between the families, and those of other networks.  The name of a network   *)
(* is a sequence; one may continue another.                                    *)
AKAMismatches(log, nodes, from) ==
    LET WrongFirst(q, r) ==
            LexBefore(<<Rank(q.valid = {}), q.host, -q.time>>, <<Rank(r.valid = {}), r.host, -r.time>>)
    IN {r \in Shown(log, nodes, from, Handshake, Handshake, WrongFirst) : r.valid = {} /\ r.nets # {}}

FamilyMismatches(log, nodes, from, right, wrong) ==
    LET Wrong(r) == /\ Handshake(r) /\ right \in r.valid /\ wrong \notin r.valid /\ r.nets # {}
                    /\ "binkp" \in (IF wrong = "v4" THEN r.ok4 ELSE r.ok6)
        HostFirst(q, r) == LexBefore(<<q.host, -q.time>>, <<r.host, -r.time>>)
    IN Shown(log, nodes, from, Handshake, Wrong, HostFirst)

LatestHandshakes(log, n, from) ==
    LET own == {r \in log : r.node = n}
        anchors == {r \in Since(own, from) : Handshake(r)}
    IN IF anchors = {} THEN {}
       ELSE {r \in Session(own, LatestTime(anchors), from) : ~r.agg /\ r.nets # {}}

OtherNetworks(log, nodes, from) ==
    LET Announced(n) == UNION {r.nets : r \in {q \in LatestHandshakes(log, n, from) : "binkp" \in Answered(q)}}
    IN [net \in UNION {Announced(n) : n \in nodes} |-> Cardinality({n \in nodes : net \in Announced(n)})]

NodesInNetwork(log, nodes, from, net) ==
    UNION {First({r \in LatestHandshakes(log, n, from) : \E x \in r.nets : IsPrefix(net, x)},
                 LAMBDA q, r : q.host < r.host) : n \in nodes}

-----------------------------------------------------------------------------
(* Reachability.  The rows of a node are cut into the cycles that wrote them.  *)
CycleOrder(q, r) ==
    LexBefore(<<q.time, 1 - Rank(q.agg), q.host>>, <<r.time, 1 - Rank(r.agg), r.host>>)

NewCycle(s, i) ==
    \/ i = 1
    \/ LET p == s[i - 1]  r == s[i]
       IN \/ r.time - p.time > SessionWindow
          \/ p.agg \/ r.derived \/ p.derived
          \/ ~r.agg /\ r.time # p.time /\ (r.host <= p.host \/ r.host < 0 \/ p.host < 0)

Cycles(log, n, from) ==
    LET s == SetToSortSeq({r \in Since(log, from) : r.node = n}, CycleOrder)
        starts == {i \in DOMAIN s : NewCycle(s, i)}
    IN {{s[i] : i \in {j \in DOMAIN s : j >= b /\ ~\E c \in starts : b < c /\ c <= j}} : b \in starts}

ReachabilityStats(log, n, from) ==
    LET cycles == Cycles(log, n, from)
        Worked(c) == \E r \in c : Up(r)
        AllWork(c) == /\ Worked(c)
                      /\ (\E r \in c : r.v6) =>
                            \A p \in Mail : (\E r \in c : p \in r.tested) => \E r \in c : p \in r.ok6
        Row(c) == First(c, LAMBDA q, r : LexBefore(<<Rank(q.agg), Rank(Up(q)), q.host, q.time>>,
                                                   <<Rank(r.agg), Rank(Up(r)), r.host, r.time>>))
        ended == LatestTime(UNION {Row(c) : c \in cycles})
    IN [total |-> Cardinality(cycles),
        full |-> Cardinality({c \in cycles : AllWork(c)}),
        partial |-> Cardinality({c \in cycles : Worked(c) /\ ~AllWork(c)}),
        failed |-> Cardinality({c \in cycles : ~Worked(c)}),
        successful |-> Cardinality({c \in cycles : Worked(c)}),
        last |-> {Worked(c) : c \in {d \in cycles : \E r \in Row(d) : r.time = ended}}]

LatestFirst(q, r) ==
    LexBefore(<<-q.time, Rank(q.agg), q.host>>, <<-r.time, Rank(r.agg), r.host>>)

SearchByReachability(log, from, operational) ==
    {r \in UNION {First({q \in Since(log, from) : q.node = n}, LatestFirst) : n \in {q.node : q \in log}} :
        Up(r) = operational}

(* Day by day, every node counts as at its latest test until it is tested      *)
(* again: each day that it was tested on lasts to the eve of the next one.     *)
ReachabilityTrends(log, today, days) ==
    LET tested(n) == {Day(r) : r \in {q \in log : q.node = n}}
        Verdict(n, d) == First({r \in log : r.node = n /\ Day(r) = d}, LatestFirst)
        NextDay(n, d) == Min({e \in tested(n) : e > d} \cup {today})
        Span(n, d) == Max({d, today - days})..Min({NextDay(n, d) - 1, today - 1})
        carried == {nd \in {r.node : r \in log} \X {Day(r) : r \in log} : nd[2] \in tested(nd[1])}
        On(date) == {nd \in carried : date \in Span(nd[1], nd[2])}
        IsUp(nd) == \E r \in Verdict(nd[1], nd[2]) : Up(r)
    IN [date \in {d \in (today - days)..(today - 1) : On(d) # {}} |->
          [total |-> Cardinality(On(date)),
           operational |-> Cardinality({nd \in On(date) : IsUp(nd)}),
           failed |-> Cardinality({nd \in On(date) : ~IsUp(nd)})]]

-----------------------------------------------------------------------------
(* Everything that the pages show, and what they must agree on.  The log is    *)
(* what the cycles of the daemon wrote, in their order; a cycle is a set of    *)
(* rows of one node.                                                           *)
Reports(cycles, listings, now, period) ==
    LET log == UNION ToSet(cycles)
        from == now - period
        nodes == CurrentNodes(listings)
        networks == OtherNetworks(log, nodes, from)
    IN [enabled |-> IPv6Enabled(log, nodes, from), nonWorking |-> IPv6NonWorking(log, nodes, from),
        ipv4Only |-> IPv6AdvertisedIPv4Only(log, nodes, from), ipv6Only |-> IPv6Only(log, nodes, from),
        pure |-> PureIPv6Only(log, nodes, from), list |-> IPv6NodeList(log, nodes, from, now - 2 * Week),
        news |-> WeeklyNews(log, listings, {l.node : l \in listings}, now),
        telnet |-> ProtocolEnabled(log, nodes, from, LAMBDA r : "telnet" \in Answered(r)),
        vmodem |-> VModemEnabled(log, listings, from),
        unconfirmed |-> VModemUnconfirmed(log, listings, from),
        wrong |-> AKAMismatches(log, nodes, from),
        wrong4 |-> FamilyMismatches(log, nodes, from, "v6", "v4"),
        wrong6 |-> FamilyMismatches(log, nodes, from, "v4", "v6"),
        networks |-> networks,
        pages |-> [net \in DOMAIN networks |-> NodesInNetwork(log, nodes, from, net)],
        stats |-> [n \in Having(Since(log, from), AnyRow) |-> ReachabilityStats(log, n, from)],
        up |-> SearchByReachability(log, from, TRUE), down |-> SearchByReachability(log, from, FALSE),
        trends |-> ReachabilityTrends(log, now \div DayLength, 2)]

Of(rows) == {r.node : r \in rows}

(* A row supports the claim of the report that shows it, of a node that is     *)
(* listed and in service, from the report's period. *)
RowsSupport(listings, from, a) ==
    LET verified == {e.row : e \in a.list}
    IN /\ \A r \in a.enabled : Works6(r) /\ Up(r)
       /\ \A r \in a.ipv6Only : Works6(r) /\ ~Works4(r)
       /\ \A r \in a.pure : Works6(r) /\ ~r.v4
       /\ \A r \in a.nonWorking \cup a.ipv4Only : ~Works6(r)
       /\ \A r \in a.telnet : "telnet" \in Answered(r)
       /\ \A r \in a.vmodem : Confirmed(r)
       /\ \A r \in a.wrong6 : r.valid = {"v4"}
       /\ \A r \in a.wrong4 : r.valid = {"v6"}
       /\ \A e \in a.list : Verified6(e.row) /\ (e.ino4 => ~Works4(e.row))
       /\ \A r \in a.enabled \cup a.nonWorking \cup a.ipv4Only \cup a.ipv6Only \cup a.pure
                   \cup a.telnet \cup a.vmodem \cup a.unconfirmed \cup a.wrong \cup verified :
             /\ r.time >= from
             /\ \E l \in listings :
                   /\ l.node = r.node /\ l.type = "" /\ l.seq = 0
                   /\ \A m \in listings : m.network = l.network => m.date <= l.date
                   /\ r \in a.vmodem \cup a.unconfirmed => l.ivm

(* No two reports contradict each other, and none forgets a node.  (FTP, which *)
(* has no part in the other reports, makes a new node one with working IPv6.)  *)
ReportsComplete(log, listings, from, a) ==
    LET nodes == CurrentNodes(listings)
        period == Since(log, from)
        Ftp(r) == "ftp" \in Answered(r)
        Probed(r) == r.vm # "untested"
        LatestProbe(n) == LET own == {r \in period : r.node = n /\ Probed(r)}
                          IN {r \in own : r.time >= LatestTime(own) - SessionWindow}
    IN /\ Of(a.nonWorking \cup a.ipv4Only) \cap Of(a.enabled \cup a.ipv6Only) = {}
       /\ Of(a.pure) \subseteq Of(a.ipv6Only) /\ Of(a.ipv6Only) \subseteq Of(a.enabled)
       /\ Of({e.row : e \in a.list}) \subseteq Of(a.enabled)
       /\ nodes \cap Having(period, Tested6) \subseteq Of(a.nonWorking \cup a.enabled)
       /\ Of(a.news.lost) \cap Of(a.news.gained \cup a.news.newWorking) \subseteq Having(period, Ftp)
       /\ Of(a.news.newFailing) \cap Of(a.news.newWorking) \subseteq Having(period, Ftp)
       /\ Of(a.news.newFailing) \cap Of(a.news.gained) = {}
       /\ AnnouncedNodes(listings) \cap Having(period, Probed) \subseteq Of(a.vmodem \cup a.unconfirmed)
       /\ \A n \in Of(a.unconfirmed) :
             LET sums == {r \in LatestProbe(n) : r.agg}
             IN \E r \in IF sums = {} THEN LatestProbe(n) ELSE sums : ~Confirmed(r)

(* A wrong address is found on whatever hostname of the latest test it is, and *)
(* no longer once all of them announce the right one; and whoever is counted   *)
(* for a network is on its page. *)
AddressesFound(log, listings, from, a) ==
    LET nodes == CurrentNodes(listings)
        Latest(n) == LET own == {r \in log : r.node = n /\ Handshake(r)}
                     IN {r \in own : r.time >= LatestTime(own) - SessionWindow}
        recent == {n \in nodes : \E r \in Since(log, from) : r.node = n /\ Handshake(r)}
    IN /\ \A n \in recent :
             (\A r \in Latest(n) : r.nets # {} /\ r.time >= from) =>
                 (n \in Of(a.wrong) <=> \E r \in Latest(n) : r.valid = {})
       /\ \A net \in DOMAIN a.networks :
             LET Announces(r) == r.nets # {} /\ \E x \in r.nets : IsPrefix(net, x)
             IN /\ a.networks[net] <= Cardinality(Of(a.pages[net]))
                /\ \A r \in a.pages[net] : Announces(r)

(* The numbers add up: every cycle of the daemon counts once, and as what it   *)
(* found; a node has one status, each day. *)
NumbersAddUp(cycles, from, now, a) ==
    LET log == UNION ToSet(cycles)
        mine(n) == SelectSeq(cycles, LAMBDA c : \A r \in c : r.node = n /\ r.time >= from)
        whole(n) == \A c \in ToSet(cycles) : \A r, q \in c : r.node = n => (r.time >= from <=> q.time >= from)
        apart == \A i, j \in DOMAIN cycles : i # j =>
                    \A r \in cycles[i], q \in cycles[j] : r.node = q.node => r.time # q.time
        LatestAt(n, date) == First({r \in log : r.node = n /\ Day(r) <= date}, LatestFirst)
    IN /\ \A n \in DOMAIN a.stats :
             LET s == a.stats[n]
             IN /\ s.total = s.full + s.partial + s.failed
                /\ s.successful = s.full + s.partial
                /\ apart /\ whole(n) =>
                      /\ s.total = Len(mine(n))
                      /\ s.successful = Len(SelectSeq(mine(n), LAMBDA c : \E r \in c : Up(r)))
                      /\ s.last = {\E r \in Last(mine(n)) : Up(r)}
       /\ Of(a.up) \cup Of(a.down) = Having(Since(log, from), AnyRow)
       /\ apart => Of(a.up) \cap Of(a.down) = {}
       /\ \A date \in DOMAIN a.trends :
             LET t == a.trends[date]
                 known == {n \in Of(log) : \E r \in log : r.node = n /\ Day(r) <= date}
             IN /\ t.total = Cardinality(known)
                /\ apart => t.operational = Cardinality({n \in known : \E r \in LatestAt(n, date) : Up(r)})
                /\ apart => t.failed = t.total - t.operational

ReportsAgree(cycles, listings, now, period, a) ==
    LET log == UNION ToSet(cycles)
    IN /\ RowsSupport(listings, now - period, a)
       /\ ReportsComplete(log, listings, now - period, a)
       /\ AddressesFound(log, listings, now - period, a)
       /\ NumbersAddUp(cycles, now - period, now, a)
=============================================================================
