----------------------------- MODULE AddressPages -----------------------------
(***************************************************************************)
(* What the site and the API say of one address, of a node or of a point,  *)
(* that several networks may use: in which of them it is looked up, and    *)
(* what is made of its history.  A request names a network or not, and     *)
(* remembers one or not; reads has what becomes of its reads.              *)
(*                                                                         *)
(* The rows are those of one point, as in PointQueries, with a name for    *)
(* what they say; networks are the numbers of their names in Networks.     *)
(***************************************************************************)
EXTENDS Integers, Sequences, FiniteSets, SequencesExt, FiniteSetsExt, TLC

Web == INSTANCE WebPages
Points == INSTANCE PointQueries

Networks == <<"araknet", Web!Fidonet, "fsxnet">>   \* in their order
Of(S) == [i \in 1..Cardinality(S) |-> Networks[SetToSortSeq(S, <)[i]]]
Within(domain) == {n \in DOMAIN Networks : Networks[n] = domain}

(* The API prefers fidonet of several, and remembers nothing. *)
PreferDomain(explicit, available) ==
    CASE explicit # Web!Nothing                            -> explicit
      [] explicit = Web!Nothing /\ Len(available) = 1      -> available[1]
      [] explicit = Web!Nothing /\ Len(available) > 1 /\ Web!Fidonet \notin ToSet(available) -> available[1]
      [] OTHER                                          -> Web!Fidonet

(* A failure to learn the networks is none to the site nor to the API. *)
Available(networks, reads) == IF reads.domains = "ok" THEN Of(networks) ELSE <<>>
ResolveNodeDomain(q, networks, reads) == PreferDomain(q.query, Available(networks, reads))

Failed(result) == IF result = "cancelled" THEN 0 ELSE Web!HttpStatusFor(result)
Looked(domain, status) == [domain |-> domain, status |-> status]

(* The history of a node: found is where it is listed. *)
NodeHistory(q, found, reads) ==
    LET domain == Web!ResolveEntityDomain(q, Available(found, reads))
    IN CASE reads.history # "ok" -> Looked(domain, Failed(reads.history))
         [] reads.history = "ok" /\ Within(domain) \cap found = {} -> Looked(domain, 404)
         [] reads.history = "ok" /\ Within(domain) \cap found # {} /\ reads.changes # "ok" ->
              Looked(domain, Failed(reads.changes))
         [] OTHER -> Looked(domain, 200)

GetNode(q, found, reads) ==
    LET domain == ResolveNodeDomain(q, found, reads)
    IN CASE reads.history # "ok" -> Looked(domain, Failed(reads.history))
         [] reads.history = "ok" /\ Within(domain) \cap found = {} -> Looked(domain, 404)
         [] OTHER -> Looked(domain, 200)
GetNodeHistory(q, found, reads) == GetNode(q, found, reads)

-----------------------------------------------------------------------------
(* The networks of a point are those of all of its rows, its history is of     *)
(* the issues that are imported as a whole.                                    *)
PointDomains(rows) == {r.domain : r \in rows}
PointHistory(rows, gate, domain) ==
    SetToSortSeq({r \in rows : Points!Issue(r) \in gate /\ r.domain \in Within(domain)},
        LAMBDA q, r : Points!Nodes!LexBefore(<<-q.date, Points!Priority(q.source), q.source, q.seq>>,
                                             <<-r.date, Points!Priority(r.source), r.source, r.seq>>))

SamePointContent(q, r) == q.name = r.name

(* Runs of the same content, of however many sources: <<first, last>> of each. *)
GroupPointHistory(history) ==
    LET begins == {i \in DOMAIN history : i = 1 \/ ~SamePointContent(history[i - 1], history[i])}
        Period(b) ==
            LET rest == {e \in begins : e > b}
                e == IF rest = {} THEN Len(history) ELSE Min(rest) - 1
            IN [entry |-> history[b], firstDate |-> history[e].date, lastDate |-> history[b].date,
                count |-> 1 + Cardinality({i \in (b + 1)..e : Points!Issue(history[i - 1]) # Points!Issue(history[i])}),
                sources |-> {history[i].source : i \in b..e}]
    IN {Period(b) : b \in begins}

(* The most authoritative row of those that are not stale, beside the newest;  *)
(* of equals the first.                                                        *)
PickSnapshotEntry(history) ==
    LET Rank(r) == <<Points!Priority(r.source), -r.date, r.seq, r.source>>
    IN Points!First({r \in ToSet(history) : r.date > history[1].date - Points!StalenessDays},
                    LAMBDA q, r : Points!Nodes!LexBefore(Rank(q), Rank(r)))

PointPage(q, rows, gate, reads) ==
    LET domain == Web!ResolveEntityDomain(q, Available(PointDomains(rows), reads))
        history == PointHistory(rows, gate, domain)
    IN CASE reads.history # "ok" -> Looked(domain, Failed(reads.history)) @@ [entry |-> {}, periods |-> {}]
         [] reads.history = "ok" /\ history = <<>> -> Looked(domain, 404) @@ [entry |-> {}, periods |-> {}]
         [] OTHER -> Looked(domain, 200) @@ [entry |-> {PickSnapshotEntry(history)},
                                             periods |-> GroupPointHistory(history)]

Filter(domain) ==   \* a network that is in no row is the number after the last
    [domain |-> IF Within(domain) = {} THEN Len(Networks) + 1 ELSE Min(Within(domain)), addr |-> 0,
     source |-> 0, name |-> 0, from |-> 0, to |-> 0, limit |-> 1, offset |-> 0]

GetPoint(q, rows, gate, reads) ==
    LET domain == ResolveNodeDomain(q, PointDomains(rows), reads)
        shown == Points!SearchSnapshot(rows, gate, Filter(domain))
    IN CASE reads.history # "ok" -> Looked(domain, Failed(reads.history)) @@ [entry |-> {}]
         [] reads.history = "ok" /\ shown = <<>> -> Looked(domain, 404) @@ [entry |-> {}]
         [] OTHER -> Looked(domain, 200) @@ [entry |-> {shown[1]}]
GetPointHistory(q, rows, gate, reads) ==
    LET domain == ResolveNodeDomain(q, PointDomains(rows), reads)
        history == PointHistory(rows, gate, domain)
    IN CASE reads.history # "ok" -> Looked(domain, Failed(reads.history)) @@ [entry |-> {}]
         [] reads.history = "ok" /\ history = <<>> -> Looked(domain, 404) @@ [entry |-> {}]
         [] OTHER -> Looked(domain, 200) @@ [entry |-> ToSet(history)]

Addresses(q, rows, gate, reads) ==
    [node |-> NodeHistory(q, PointDomains(rows), reads), apiNode |-> GetNodeHistory(q, PointDomains(rows), reads),
     page |-> PointPage(q, rows, gate, reads), apiPoint |-> GetPoint(q, rows, gate, reads),
     apiHistory |-> GetPointHistory(q, rows, gate, reads)]

(* An address that some network has is found without naming the network, and   *)
(* in the one that is remembered if it is there; a network that is named is    *)
(* the one that is asked.  There are two exceptions.  A network that has a     *)
(* point only in an issue which is half imported is looked in and found empty. *)
(* And a failure to read which networks have the address is taken for none:    *)
(* fidonet, or on the site what is remembered, is looked in, and an address    *)
(* that only another network has is not found.                                 *)
(* The site, with nothing remembered, and the API look in the same network and *)
(* tell the same history, and the entry that the page calls current is the one *)
(* of the API, while no source has replaced it.  The periods of the page are   *)
(* the history: each publication is counted once, or once for each entry if it *)
(* has two of the point, and no period begins before the one that it follows   *)
(* ends.                                                                       *)
AddressTold(q, rows, gate, reads, a) ==
    LET found == PointDomains(rows)
        ok == \A r \in DOMAIN reads : reads[r] = "ok"
        all == {a.node, a.apiNode, [domain |-> a.page.domain, status |-> a.page.status],
                [domain |-> a.apiPoint.domain, status |-> a.apiPoint.status],
                [domain |-> a.apiHistory.domain, status |-> a.apiHistory.status]}
        whole == {r \in rows : Points!Issue(r) \in gate}
        own == {r \in whole : r.domain \in Within(a.page.domain)}
        published == {Points!Issue(r) : r \in own}
        newest == Max({r.date : r \in own})
        latest == Points!LatestPointlistDate(gate, Filter(a.page.domain).domain)
        current == Points!CurrentIssues(gate, Filter(a.page.domain).domain, latest)
    IN /\ \A l \in all :
             /\ q.query # Web!Nothing => l.domain = q.query
             /\ l.status = 0 => "cancelled" \in {reads[r] : r \in DOMAIN reads}
             /\ l.status = 200 => Within(l.domain) \cap found # {}
             /\ ok /\ q.query = Web!Nothing /\ found # {} => Within(l.domain) \cap found # {}
       /\ ok /\ q.query = Web!Nothing /\ found # {} => a.node.status = 200 /\ a.apiNode.status = 200
       /\ ok /\ q.query = Web!Nothing /\ Within(q.cookie) \cap found # {} =>
             a.node.domain = q.cookie /\ a.page.domain = q.cookie
       /\ reads.domains # "ok" /\ q.query = Web!Nothing =>
             /\ {a.apiNode.domain, a.apiPoint.domain, a.apiHistory.domain} = {Web!Fidonet}
             /\ {a.node.domain, a.page.domain} = {Web!CookieDomain(q)}
       /\ ok => (a.page.status = 404) = (own = {})
       /\ ok /\ Web!CookieDomain(q) = Web!Fidonet =>
             a.page.domain = a.apiHistory.domain /\ a.node = a.apiNode /\ a.page.status = a.apiHistory.status
       /\ (/\ a.page.status = 200 /\ a.apiPoint.status = 200 /\ a.page.domain = a.apiPoint.domain
           /\ newest = latest
           /\ \A r \in own : r.date > newest - Points!StalenessDays => Points!Issue(r) \in current) =>
             \A p \in a.page.entry, e \in a.apiPoint.entry : ~Points!ByAuthority(p, e) /\ ~Points!ByAuthority(e, p)
       /\ a.page.status = 200 =>
             LET times == MapThenSumSet(LAMBDA p : p.count, a.page.periods)
             IN /\ times >= Cardinality(published)
                /\ times <= Cardinality({<<Points!Issue(r), r.name>> : r \in own})
                /\ (\A i \in published : Cardinality({r \in own : Points!Issue(r) = i}) = 1) =>
                      times = Cardinality(published)
                /\ \A p, s \in a.page.periods : p # s => p.lastDate <= s.firstDate \/ s.lastDate <= p.firstDate
                /\ \A r \in own : \E p \in a.page.periods :
                      /\ SamePointContent(p.entry, r) /\ r.source \in p.sources
                      /\ p.firstDate <= r.date /\ r.date <= p.lastDate
=============================================================================
