---------------------------- MODULE NodeQueries ----------------------------
(***************************************************************************)
(* What the queries of the storage layer answer about nodes: the search,   *)
(* the summaries and the sysops, the history of a node as a list of        *)
(* changes, and the browser of an issue.                                   *)
(*                                                                         *)
(* A row is an entry of a node in an issue of its network.  Its address,   *)
(* its network (1, 2, ...; 0 stands for all networks) and its dates, which *)
(* count weeks, are numbers; one attribute, the name, stands for all that  *)
(* a row says of a node.  A name either matches a pattern or does not.     *)
(* A field of a filter that is 0 is not set.                               *)
(***************************************************************************)
EXTENDS Integers, Sequences, FiniteSets, SequencesExt, FiniteSetsExt, TLC

Epoch == -100   \* what MIN and MAX answer of no rows

Newest(S) == IF S = {} THEN Epoch ELSE Max(S)
Oldest(S) == IF S = {} THEN Epoch ELSE Min(S)

Key(r) == <<r.domain, r.node>>
OfDomain(rows, domain) == {r \in rows : domain = 0 \/ r.domain = domain}
Dates(rows) == {r.date : r \in rows}
NewestIssue(rows, domain) == Newest(Dates(OfDomain(rows, domain)))

LexBefore(a, b) == \E i \in DOMAIN a : a[i] < b[i] /\ \A j \in 1..(i - 1) : a[j] = b[j]

-----------------------------------------------------------------------------
(* The search. *)
Identity(f, r) ==
    /\ f.domain = 0 \/ r.domain = f.domain
    /\ f.node = 0 \/ r.node = f.node

Attributes(f, r) ==
    /\ f.from = 0 \/ r.date >= f.from
    /\ f.to = 0 \/ r.date <= f.to
    /\ f.name = 0 \/ r.name = f.name

NoAttributes(f) == f.from = 0 /\ f.to = 0 /\ f.name = 0

ValidFilter(f) == f.limit >= 0 /\ f.offset >= 0 /\ (f.from # 0 /\ f.to # 0 => f.from <= f.to)

Page(f, s) ==
    IF f.limit <= 0 THEN s
    ELSE SubSeq(s, f.offset + 1, IF f.offset + f.limit < Len(s) THEN f.offset + f.limit ELSE Len(s))

FirstOfEachNode(s) ==   \* LIMIT 1 BY
    FoldLeft(LAMBDA kept, r : IF \E i \in DOMAIN kept : Key(kept[i]) = Key(r) THEN kept
                              ELSE Append(kept, r), <<>>, s)

(* Every row at the latest date of its node, and only then the filter. *)
LatestMatchingRows(mine, f) ==   \* faulty variant: the latest of the rows that match
    LET match == {r \in mine : Attributes(f, r)}
    IN {r \in match : \A q \in match : Key(q) = Key(r) => q.date <= r.date}
LatestRows(mine, f) ==
    {r \in mine : /\ \A q \in mine : Key(q) = Key(r) => q.date <= r.date
                  /\ Attributes(f, r)}

(* The nodes with any row that matches, each with the row that it has now. *)
RankedRows(mine, f) ==
    LET matching == {Key(r) : r \in {q \in mine : Attributes(f, q)}}
    IN {r \in mine :
          /\ Key(r) \in matching
          /\ \A q \in mine : q # r /\ Key(q) = Key(r) => LexBefore(<<-r.date, r.seq>>, <<-q.date, q.seq>>)}

GetNodes(rows, f) ==
    LET mine == {r \in rows : Identity(f, r)}
        ByNode(q, r) == LexBefore(<<q.node, -q.date, q.domain, q.seq>>, <<r.node, -r.date, r.domain, r.seq>>)
        BySeq(q, r)  == LexBefore(<<q.node, -q.date, q.seq, q.domain>>, <<r.node, -r.date, r.seq, r.domain>>)
    IN CASE f.latestOnly    -> Page(f, SetToSortSeq(LatestRows(mine, f), ByNode))
         [] ~f.latestOnly /\ NoAttributes(f) -> Page(f, FirstOfEachNode(SetToSortSeq(mine, BySeq)))
         [] OTHER           -> Page(f, SetToSortSeq(RankedRows(mine, f), ByNode))

(* The summaries rank the rows that match; they know no dates. *)
Summaries(rows, f, activeOnly) ==
    LET match == {r \in rows : Identity(f, r) /\ (f.name = 0 \/ r.name = f.name)}
        Of(k) == {r \in match : Key(r) = k}
        Summary(k) == [key |-> k, first |-> Oldest(Dates(Of(k))), last |-> Newest(Dates(Of(k))),
                       active |-> Newest(Dates(Of(k))) = NewestIssue(rows, k[1])]
    IN {s \in {Summary(k) : k \in {Key(r) : r \in match}} : activeOnly => s.active}

UniqueSysops(rows) ==
    {LET mine == {r \in rows : r.name = n}
     IN [name |-> n, nodes |-> Cardinality({Key(r) : r \in mine}),
         active |-> Cardinality({Key(r) : r \in {q \in mine : q.date = NewestIssue(rows, q.domain)}})] :
        n \in {r.name : r \in rows}}

(* Everything that the pages show for a filter. *)
Search(rows, f) ==
    IF ~ValidFilter(f) THEN [ok |-> FALSE]
    ELSE LET all == GetNodes(rows, [f EXCEPT !.limit = 0, !.offset = 0])
         IN [ok |-> TRUE, all |-> all,
             latest |-> GetNodes(rows, [f EXCEPT !.latestOnly = TRUE, !.limit = 0, !.offset = 0]),
             pages |-> [i \in 1..(Len(all) + 1) |->
                           GetNodes(rows, [f EXCEPT !.limit = 1, !.offset = i - 1])],
             summaries |-> Summaries(rows, f, FALSE), current |-> Summaries(rows, f, TRUE),
             sysops |-> UniqueSysops(rows)]

SearchAgrees(rows, f, a) ==
    a.ok =>
      LET Now(r) == \A q \in rows : Key(q) = Key(r) => q.date <= r.date
          matching == {r \in rows : Identity(f, r) /\ Attributes(f, r)}
          undated == [f EXCEPT !.from = 0, !.to = 0]
      IN /\ ToSet(a.latest) = {r \in matching : Now(r)}
         /\ ~f.latestOnly =>
               /\ {Key(r) : r \in ToSet(a.all)} = {Key(r) : r \in matching}
               /\ \A r \in ToSet(a.all) :
                     Now(r) /\ \A q \in rows : Key(q) = Key(r) /\ q.date = r.date => r.seq <= q.seq
               /\ Len(a.all) = Cardinality({Key(r) : r \in matching})
         /\ FlattenSeq(a.pages) = a.all
         /\ a.current = {s \in a.summaries : s.active}
         /\ f = undated =>
               {s.key : s \in a.current} =
                  {Key(r) : r \in {q \in ToSet(a.latest) : q.date = NewestIssue(rows, q.domain)}}
         /\ f = undated /\ f.name # 0 /\ f.domain = 0 /\ f.node = 0 =>
               \A s \in a.sysops : s.name = f.name =>
                  s.nodes = Cardinality(a.summaries) /\ s.active = Cardinality(a.current)

-----------------------------------------------------------------------------
(* The history of a node of one network as changes.  Two lookups may fail:   *)
(* the date after a removal is then taken to be a week later, and the node   *)
(* for one that is not listed any more.                                      *)
Event(date, kind, name) == [date |-> date, kind |-> kind, name |-> name]

NextIssue(dates, d, fails) ==
    IF "next" \in fails THEN d + 1 ELSE Oldest({e \in dates : e > d})

Consecutive(dates, d, e) == \A x \in dates : ~(d < x /\ x < e)

FieldsChanged(prev, curr) == prev.name # curr.name

Change(dates, prev, curr, fails) ==
    IF prev.date = curr.date THEN <<>>
    ELSE IF ~Consecutive(dates, prev.date, curr.date)
    THEN <<Event(NextIssue(dates, prev.date, fails), "removed", prev.name),
           Event(curr.date, "added", curr.name)>>
    ELSE IF FieldsChanged(prev, curr) THEN <<Event(curr.date, "modified", curr.name)>> ELSE <<>>

GetNodeChanges(rows, node, domain, fails) ==
    LET history == SetToSortSeq({r \in OfDomain(rows, domain) : r.node = node},
                                LAMBDA q, r : LexBefore(<<q.date, q.seq>>, <<r.date, r.seq>>))
        dates == Dates(OfDomain(rows, domain))
        listedNow == "latest" \notin fails /\ Last(history).date = NewestIssue(rows, domain)
    IN IF history = <<>> THEN <<>>
       ELSE <<Event(history[1].date, "added", history[1].name)>>
            \o FlattenSeq([i \in 1..(Len(history) - 1) |->
                              Change(dates, history[i], history[i + 1], fails)])
            \o IF listedNow THEN <<>>
               ELSE <<Event(NextIssue(dates, Last(history).date, fails), "removed", Last(history).name)>>

(* The changes, replayed, are the history: at every issue of the network the  *)
(* node is listed iff they say so, under the name they say; and they are in   *)
(* order, each at an issue.                                                   *)
ChangesTell(rows, node, domain, fails, events) ==
    LET dates == Dates(OfDomain(rows, domain))
        own == {r \in OfDomain(rows, domain) : r.node = node}
        Upto(d) == SelectSeq(events, LAMBDA e : e.date <= d)
        ListedAt(d) == Upto(d) # <<>> /\ Last(Upto(d)).kind # "removed"
        single == \A q, r \in own : q.date = r.date => q = r
    IN fails = {} =>
         /\ \A i \in 1..(Len(events) - 1) : events[i].date < events[i + 1].date
         /\ \A i \in DOMAIN events : events[i].date \in dates
         /\ \A d \in dates : ListedAt(d) <=> d \in Dates(own)
         /\ single => \A r \in own : Last(Upto(r.date)).name = r.name

-----------------------------------------------------------------------------
(* What changed in the internet configuration.  A configuration has three      *)
(* tables, from the name of a flag to the list of its values (0: none given),  *)
(* and a set of flags.  None and an empty one are alike.                       *)
Given(values) == SelectSeq(values, LAMBDA v : v # 0)
SameValues(table, old, new) ==   \* the defaults are compared value by value
    Len(old) = Len(new) /\ IF table = "defaults" THEN old = new ELSE Given(old) = Given(new)

EmptyConfig(c) ==
    DOMAIN c.protocols = {} /\ DOMAIN c.defaults = {} /\ DOMAIN c.email = {} /\ c.info = {}

Tables == {"protocols", "defaults", "email"}

TableChanges(prev, curr, table) ==
    LET old == prev[table]  new == curr[table]
        Inet(S) == {<<"inet", x>> : x \in S}
    IN [key \in Inet(DOMAIN new \ DOMAIN old) |-> "Added"]
       @@ [key \in Inet(DOMAIN old \ DOMAIN new) |-> "Removed"]
       @@ [key \in Inet({x \in DOMAIN old \cap DOMAIN new :
                        /\ ~SameValues(table, old[x], new[x])
                        /\ table = "email" => Given(new[x]) # <<>>}) |-> "Changed"]

ConfigChanges(prev, curr) ==
    LET tables == TableChanges(prev, curr, "email") @@ TableChanges(prev, curr, "defaults")
                  @@ TableChanges(prev, curr, "protocols")
        flags == [key \in {<<"flag", x>> : x \in curr.info \ prev.info} |-> "Added"]
                 @@ [key \in {<<"flag", x>> : x \in prev.info \ curr.info} |-> "Removed"]
    IN IF EmptyConfig(prev) \/ EmptyConfig(curr) THEN tables ELSE flags @@ tables

(* A flag is told of iff its values differ, and as what happened to it; but an *)
(* e-mail flag that loses its value, and the flags without values of a         *)
(* configuration that appears or disappears as a whole, pass in silence.       *)
ConfigTold(prev, curr, told) ==
    /\ \A table \in Tables :
         /\ \A flag \in DOMAIN curr[table] \ DOMAIN prev[table] : told[<<"inet", flag>>] = "Added"
         /\ \A flag \in DOMAIN prev[table] \ DOMAIN curr[table] : told[<<"inet", flag>>] = "Removed"
         /\ \A flag \in DOMAIN prev[table] \cap DOMAIN curr[table] :
              LET lost == table = "email" /\ Given(curr[table][flag]) = <<>>
              IN <<"inet", flag>> \in DOMAIN told <=>
                   ~SameValues(table, prev[table][flag], curr[table][flag]) /\ ~lost
    /\ ~EmptyConfig(prev) /\ ~EmptyConfig(curr) =>
         \A x \in prev.info \cup curr.info :
            <<"flag", x>> \in DOMAIN told <=> ~(x \in prev.info /\ x \in curr.info)
    /\ prev = curr => told = <<>>

-----------------------------------------------------------------------------
(* The browser of an issue, from the zones down to the entries, and the date   *)
(* it opens at.  An entry without a region is under region 0.                  *)
IssueOf(rows, date, domain) == {r \in OfDomain(rows, domain) : r.date = date}

CountBy(S, Level(_)) == {[of |-> v, count |-> Cardinality({r \in S : Level(r) = v})] : v \in {Level(r) : r \in S}}

BrowseZones(issue) == CountBy(issue, LAMBDA r : r.zone)
BrowseRegions(issue, zone) == CountBy({r \in issue : r.zone = zone}, LAMBDA r : r.region)
BrowseNets(issue, zone, region) ==
    CountBy({r \in issue : r.zone = zone /\ r.region = region}, LAMBDA r : r.net)
BrowseNodes(issue, zone, net) == {r \in issue : r.zone = zone /\ r.net = net}

NearestDate(dates, d) ==
    LET before == Newest({e \in dates : e < d})  after == Oldest({e \in dates : e > d})
    IN IF d \in dates THEN d ELSE IF d - before <= after - d THEN before ELSE after

Browse(rows, requested, domain) ==
    LET date == NearestDate(Dates(OfDomain(rows, domain)), requested)
        issue == IssueOf(rows, date, domain)
    IN [date |-> date, zones |-> BrowseZones(issue),
        regions |-> [z \in {r.zone : r \in issue} |-> BrowseRegions(issue, z)],
        nets |-> [zr \in {<<r.zone, r.region>> : r \in issue} |-> BrowseNets(issue, zr[1], zr[2])],
        nodes |-> [zn \in {<<r.zone, r.net>> : r \in issue} |-> BrowseNodes(issue, zn[1], zn[2])]]

(* Each level counts what the level below holds, and the issue is the nearest  *)
(* one, if the date asked for is not outside of all issues.                    *)
BrowseAgrees(rows, requested, domain, a) ==
    LET Sum(S) == MapThenSumSet(LAMBDA c : c.count, S)
        dates == Dates(OfDomain(rows, domain))
        Away(d) == IF d < requested THEN requested - d ELSE d - requested
    IN /\ (\E d \in dates : d <= requested) /\ (\E d \in dates : d >= requested) =>
             a.date \in dates /\ \A d \in dates : Away(a.date) <= Away(d)
       /\ \A z \in a.zones : z.count = Sum(a.regions[z.of])
       /\ \A z \in DOMAIN a.regions : \A r \in a.regions[z] : r.count = Sum(a.nets[<<z, r.of>>])
       /\ \A zn \in DOMAIN a.nodes :
             Cardinality(a.nodes[zn]) =
                MapThenSumSet(LAMBDA zr : Sum({c \in a.nets[zr] : c.of = zn[2]}),
                              {zr \in DOMAIN a.nets : zr[1] = zn[1]})
=============================================================================
