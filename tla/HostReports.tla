---------------------------- MODULE HostReports ----------------------------
(***************************************************************************)
(* The reports of the storage layer on where the nodes are and what they   *)
(* run: software, countries and providers, registrars, and modems.         *)
(*                                                                         *)
(* A row of the log is the test of a hostname of a node (its index), or    *)
(* the sum of all its hostnames (agg), at a time.  It has the mailer that  *)
(* shook hands, if any, the version it gave, the country, its code and the *)
(* provider of the address, the site (the registrable domain) of the       *)
(* hostname, and the call of the modem.  Of the rows of a node in one      *)
(* second a query takes any, the same for all columns: that of the lowest  *)
(* hostname, or of the highest.                                            *)
(***************************************************************************)
EXTENDS Integers, Sequences, FiniteSets, SequencesExt, FiniteSetsExt, TLC

Lowest == "lowest"
Highest == "highest"
Picks == {Lowest, Highest}

NoVersion == [software |-> "", version |-> "", os |-> "", binkd |-> FALSE]

Key(r) == <<r.domain, r.node>>
Keys(rows) == {Key(r) : r \in rows}
OfDomain(rows, domain) == {r \in rows : domain = 0 \/ r.domain = domain}
Of(rows, k) == {r \in rows : Key(r) = k}
Recent(log, from, domain) == {r \in OfDomain(log, domain) : r.time >= from}

LatestOf(rows) == {r \in rows : \A q \in rows : q.time <= r.time}

Picked(rows, pick) ==
    CHOOSE r \in LatestOf(rows) :
        \A q \in LatestOf(rows) : IF pick = Lowest THEN r.host <= q.host ELSE q.host <= r.host

(* One row of each node. *)
LatestRows(rows, pick) == {Picked(Of(rows, k), pick) : k \in Keys(rows)}

Counts(rows, Label(_)) ==
    [x \in {Label(r) : r \in rows} |-> Cardinality({r \in rows : Label(r) = x})]
Total(f) == FoldSet(LAMBDA x, sum : sum + f[x], 0, DOMAIN f)

-----------------------------------------------------------------------------
(* The software of the nodes: what their latest handshake that succeeded said, *)
(* if it said anything.  What no pattern knows is counted as Unknown.          *)
Versions(log, mailer, from, domain, pick) ==
    {r \in LatestRows({q \in Recent(log, from, domain) : q.mailer = mailer}, pick) : r.version # NoVersion}

Distribution(known, systems) ==
    [total |-> Cardinality(known),
     types |-> Counts(known, LAMBDA r : r.version.software),
     versions |-> Counts({r \in known : r.version.version # ""},
                         LAMBDA r : <<r.version.software, r.version.version>>),
     os |-> Counts({r \in known : r.version.os \in systems}, LAMBDA r : r.version.os)]

BinkPSoftwareDistribution(log, from, domain, pick) ==
    LET known == Versions(log, "binkp", from, domain, pick)
    IN Distribution(known, {r.version.os : r \in known} \ {"", "Unknown"})

IFCICOSoftwareDistribution(log, from, domain, pick) ==   \* which names no operating system
    Distribution(Versions(log, "ifcico", from, domain, pick), {})

BinkdDetailedStats(log, from, domain, pick) ==
    LET known == {r \in Versions(log, "binkp", from, domain, pick) : r.version.binkd /\ r.version.software = "binkd"}
    IN [total |-> Cardinality(known),
        versions |-> Counts({r \in known : r.version.version # ""}, LAMBDA r : r.version.version),
        os |-> Counts({r \in known : r.version.os \notin {"", "Unknown"}}, LAMBDA r : r.version.os)]

-----------------------------------------------------------------------------
(* Where the nodes of the current nodelists are that answered.  A country is   *)
(* kept once: of two codes the one that fewer nodes have.                      *)
Located(log, current, from, domain, pick) ==
    LatestRows({r \in Recent(log, from, domain) : r.up /\ Key(r) \in current}, pick)

CountryDistribution(log, current, from, domain, pick) ==
    LET counts == Counts({r \in Located(log, current, from, domain, pick) : r.country # ""},
                         LAMBDA r : <<r.country, r.code>>)
        fewest(g) == \A h \in DOMAIN counts : h[1] = g[1] => counts[g] <= counts[h]
    IN [total |-> Total(counts),
        countries |-> [c \in {g[1] : g \in DOMAIN counts} |->
                         {<<g[2], counts[g]>> : g \in {h \in DOMAIN counts : h[1] = c /\ fewest(h)}}]]

ProviderDistribution(log, current, from, domain, pick) ==
    LET known == {r \in Located(log, current, from, domain, pick) : r.isp # ""}
    IN [g \in {<<r.isp, r.org>> : r \in known} |->
          [count |-> Cardinality({r \in known : <<r.isp, r.org>> = g}),
           countries |-> {r.code : r \in {q \in known : <<q.isp, q.org>> = g}}]]

NodesByCountry(log, current, from, domain, pick, code) ==
    {r \in Located(log, current, from, domain, pick) : r.code = code}

NodesByProvider(log, current, from, domain, pick, isp) ==
    {r \in Located(log, current, from, domain, pick) : r.isp = isp}

-----------------------------------------------------------------------------
(* The registrars: the latest lookup of each site, with the nodes whose        *)
(* hostnames are on it.  A network has only the sites of its nodes; without    *)
(* the log all sites are shown, and of a network none.                         *)
WhoisEntries(lookups) == {w \in lookups : \A v \in lookups : v.site = w.site => v.at <= w.at}

HostnameNodes(log, from, domain) ==
    {<<r.site, Key(r)>> : r \in {q \in Recent(log, from, domain) : ~q.agg /\ q.site # ""}}

Failed == "failed"
AllWhoisResults(lookups, log, from, domain, logFails) ==
    LET on(site) == {m[2] : m \in {n \in HostnameNodes(log, from, domain) : n[1] = site}}
        entries == WhoisEntries(lookups)
    IN CASE entries = {}                -> {}
         [] entries # {} /\ logFails /\ domain = 0 -> {[entry |-> w, nodes |-> {}] : w \in entries}
         [] entries # {} /\ logFails /\ domain # 0 -> {[entry |-> Failed, nodes |-> {}]}
         [] OTHER -> {[entry |-> w, nodes |-> on(w.site)] :
                         w \in {v \in entries : domain = 0 \/ on(v.site) # {}}}

NodesByDomain(log, from, pick, site) ==
    LET found == {m[2] : m \in {n \in HostnameNodes(log, from, 0) : n[1] = site}}
    IN {Picked({r \in Recent(log, from, 0) : Key(r) = k /\ ~r.agg}, pick) : k \in found}

-----------------------------------------------------------------------------
(* The calls by modem. *)
Called(log, from, domain) == {r \in Recent(log, from, domain) : r.modem # "untested"}
Answering(calls) == {r \in calls : r.modem = "ok"}

Better(q, r) == q.time > r.time \/ (q.time = r.time /\ q.speed > r.speed)
ModemAccessibleNodes(log, from, domain) ==
    LET good == Answering(Called(log, from, domain))
    IN {r \in good : \A q \in Of(good, Key(r)) : ~Better(q, r)}

ModemNoAnswerNodes(log, from, domain) ==
    LET calls == Called(log, from, domain)
        silent == {r \in calls : Key(r) \notin Keys(Answering(calls))}
    IN {[row |-> r, attempts |-> Cardinality(Of(silent, Key(r)))] :
            r \in {q \in silent : q \in LatestOf(Of(silent, Key(q)))}}

(* The details of a call are found by address and time, whatever the network. *)
DetailedModemResult(log, node, time) ==
    LET calls == {r \in log : r.node = node /\ r.time = time /\ r.modem # "untested"}
    IN {r \in calls : \A q \in calls : ~Better(q, r)}

RecentSuccessPhones(log, from) ==
    {r.phone : r \in {q \in Answering(Called(log, from, 0)) : q.phone # ""}}

-----------------------------------------------------------------------------
(* The answers to the calls. *)
HostReport(log, current, from, lookups) ==
    LET networks == 0..2
        codes == {r.code : r \in log}  isps == {r.isp : r \in log}  sites == {w.site : w \in lookups}
    IN [software |-> [d \in networks |-> [p \in Picks |->
                        [binkp |-> BinkPSoftwareDistribution(log, from, d, p),
                         ifcico |-> IFCICOSoftwareDistribution(log, from, d, p)]]],
        binkd |-> [d \in networks |-> [p \in Picks |-> BinkdDetailedStats(log, from, d, p)]],
        countries |-> [d \in networks |-> [p \in Picks |-> CountryDistribution(log, current, from, d, p)]],
        providers |-> [d \in networks |-> [p \in Picks |-> ProviderDistribution(log, current, from, d, p)]],
        inCountry |-> [d \in networks |-> [p \in Picks |-> [c \in codes |-> NodesByCountry(log, current, from, d, p, c)]]],
        ofProvider |-> [d \in networks |-> [p \in Picks |-> [i \in isps |-> NodesByProvider(log, current, from, d, p, i)]]],
        whois |-> [d \in networks |-> AllWhoisResults(lookups, log, from, d, FALSE)],
        blind |-> [d \in networks |-> AllWhoisResults(lookups, log, from, d, TRUE)],
        onSite |-> [s \in sites |-> [p \in Picks |-> NodesByDomain(log, from, p, s)]]]

ModemReport(log, from) ==
    [accessible |-> [d \in 0..2 |-> ModemAccessibleNodes(log, from, d)],
     silent |-> [d \in 0..2 |-> ModemNoAnswerNodes(log, from, d)],
     detail |-> [r \in log |-> DetailedModemResult(log, r.node, r.time)],
     phones |-> RecentSuccessPhones(log, from)]

-----------------------------------------------------------------------------
(* A page lists the nodes that the numbers count, whichever of two hostnames   *)
(* that were tested in the same second either query takes: it has the nodes    *)
(* that certainly belong on it and none that does not. *)
Between(sure, page, possible) == sure \subseteq page /\ page \subseteq possible
CountedAs(sure, number, possible) == Cardinality(sure) <= number /\ number <= Cardinality(possible)

HostsTold(log, current, from, lookups, a) ==
    LET period(d) == Recent(log, from, d)
        alive(d) == {r \in period(d) : r.up /\ Key(r) \in current}
        Latest(rows, k) == LatestOf(Of(rows, k))
        Sure(rows, Test(_)) == {k \in Keys(rows) : \A r \in Latest(rows, k) : Test(r)}
        Possible(rows, Test(_)) == {k \in Keys(rows) : \E r \in Latest(rows, k) : Test(r)}
        shaken(d, mailer) == {r \in period(d) : r.mailer = mailer}
        oneCode == \A q, r \in log : q.country = r.country <=> q.code = r.code
    IN /\ \A d \in 0..2, p \in Picks :
             LET b == a.binkd[d][p]  binkp == a.software[d][p].binkp.types
                 c == a.countries[d][p]  v == a.providers[d][p]
             IN /\ \A mailer \in {"binkp", "ifcico"} :
                      LET s == a.software[d][p][mailer]
                      IN /\ s.total = Total(s.types) /\ Total(s.os) <= s.total
                         /\ CountedAs(Sure(shaken(d, mailer), LAMBDA r : r.version # NoVersion), s.total,
                                      Possible(shaken(d, mailer), LAMBDA r : r.version # NoVersion))
                /\ b.total <= (IF "binkd" \in DOMAIN binkp THEN binkp["binkd"] ELSE 0)
                /\ oneCode => \A x \in DOMAIN c.countries, code \in DOMAIN a.inCountry[d][p] :
                      /\ Cardinality(c.countries[x]) = 1
                      /\ \A n \in c.countries[x] : n[1] = code =>
                            n[2] = Cardinality(a.inCountry[d][p][code])
                /\ oneCode => c.total = Total([x \in DOMAIN c.countries |-> Max({n[2] : n \in c.countries[x]})])
                /\ \A i \in DOMAIN a.ofProvider[d][p] :
                      LET mine == {g \in DOMAIN v : g[1] = i}
                          page == a.ofProvider[d][p][i]
                      IN i # "" => /\ Total([g \in mine |-> v[g].count]) = Cardinality(page)
                                   /\ UNION {v[g].countries : g \in mine} = {r.code : r \in page}
                /\ \A code \in DOMAIN a.inCountry[d][p] :
                      Between(Sure(alive(d), LAMBDA r : r.code = code), Keys(a.inCountry[d][p][code]),
                              Possible(alive(d), LAMBDA r : r.code = code))
       /\ \A w \in a.whois[0] : \A p \in Picks :
             /\ w.nodes = Keys(a.onSite[w.entry.site][p])
             /\ \A v \in lookups : v.site = w.entry.site => v.at <= w.entry.at
       /\ {w.entry.site : w \in a.whois[0]} = {v.site : v \in lookups}
       /\ \A d \in 1..2 :
             /\ \A w \in a.whois[d] : w.nodes # {} /\ \A k \in w.nodes : k[1] = d
             /\ \A w \in a.whois[0] : {k \in w.nodes : k[1] = d} # {} =>
                   [w EXCEPT !.nodes = {k \in w.nodes : k[1] = d}] \in a.whois[d]
             /\ lookups # {} => a.blind[d] = {[entry |-> Failed, nodes |-> {}]}

(* Whoever was called is on exactly one of the two pages of its network, and   *)
(* its best call is the one in detail.                                         *)
ModemsTold(log, from, a) ==
    LET called(d) == {Key(r) : r \in {q \in OfDomain(log, d) : q.time >= from /\ q.modem # "untested"}}
        silent(d) == {e.row : e \in a.silent[d]}
    IN /\ \A d \in 0..2 :
             /\ Keys(a.accessible[d]) \cap Keys(silent(d)) = {}
             /\ Keys(a.accessible[d]) \cup Keys(silent(d)) = called(d)
             /\ a.accessible[d] = OfDomain(a.accessible[0], d) /\ silent(d) = OfDomain(silent(0), d)
       /\ \A r \in a.accessible[0] :
             /\ \A q \in log : Key(q) = Key(r) /\ q.modem = "ok" => q.time <= r.time
             /\ r.phone # "" => r.phone \in a.phones
             /\ (\A q \in log : q.node = r.node => q.domain = r.domain) =>
                   \A q \in a.detail[r] : q.modem = "ok" => q.speed = r.speed
       /\ \A e \in a.silent[0] : e.attempts = Cardinality({q \in log : Key(q) = Key(e.row) /\ q.time >= from /\ q.modem # "untested"})
=============================================================================
