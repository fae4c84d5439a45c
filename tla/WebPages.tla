------------------------------ MODULE WebPages ------------------------------
(***************************************************************************)
(* The pages of the site.  A request q names a page, the numbers, the      *)
(* networks and the subject that were typed or remembered; a page reads    *)
(* the storage, once or more, and s[i] is what becomes of its ith read:    *)
(* rows, or a client that has left, or a query out of time, or a failure.  *)
(*                                                                         *)
(* An answer has the arguments of the reads that were made, the rows of    *)
(* the first, which the page is about, and those of the others, and its    *)
(* status and banner.  Titles, texts and the order of rows are left out.   *)
(***************************************************************************)
EXTENDS Integers, Sequences, FiniteSets, SequencesExt, FiniteSetsExt, Functions

Absent == -2000000
Unreadable == -2000001   \* not a number

Nothing == ""               \* no network, no subject, no complaint
NoNumber == 0            \* the read takes no such argument, or all there is

(* The networks *)
Fidonet == "fidonet"
NetworkNames == {"araknet", Fidonet, "fsxnet", "tqwnet"}   \* what the shape of a name lets pass

ExplicitDomain(q) == IF q.query # Nothing THEN q.query ELSE q.form
CookieDomain(q) == IF q.cookie \in NetworkNames THEN q.cookie ELSE Fidonet
RequestDomain(q) == IF ExplicitDomain(q) # Nothing THEN ExplicitDomain(q) ELSE CookieDomain(q)

(* The network of a node's page, of those that list the address. *)
ResolveEntityDomain(q, available) ==
    LET preferred == SelectSeq(<<CookieDomain(q), Fidonet>>, LAMBDA d : d \in ToSet(available))
    IN CASE q.query # Nothing    -> q.query
         [] q.query = Nothing /\ available = <<>> -> CookieDomain(q)
         [] OTHER             -> Head(preferred \o available)

(* The numbers *)
ParseAnalyticsParams(q) ==
    LET days == q.days \in 1..365
        limit == q.limit \in 1..1000
    IN [days |-> IF days THEN q.days ELSE 30, limit |-> IF limit THEN q.limit ELSE 1000,
        complaint |-> CASE ~days /\ q.days # Absent -> "days"
                        [] (days \/ q.days = Absent) /\ ~limit /\ q.limit # Absent -> "limit"
                        [] OTHER -> Nothing]

ParseLimit(v, default, most) ==
    IF v <= 0 THEN default ELSE IF v > most THEN most ELSE v
GeoDays(v) == IF v \in {30, 90, 365, 730} THEN v ELSE 365

-----------------------------------------------------------------------------
(* What is said of a read that failed. *)
StorageFailure(result) == IF result = "deadline" THEN "timeout" ELSE "failure"
StatusFor(banner) == IF banner = "timeout" THEN 503 ELSE 200
HttpStatusFor(result) == IF result = "deadline" THEN 503 ELSE 500

Args(days, limit, domain) == [days |-> days, limit |-> limit, domain |-> domain]
NotAnswered(asked) == [status |-> 0, banner |-> Nothing, asked |-> asked, shown |-> {}, more |-> <<>>]
Refused(status) == [NotAnswered(<<>>) EXCEPT !.status = status]
Rows(read) == IF read.result = "ok" THEN read.rows ELSE {}

(* A page that is about one read, with what it has to say against the request. *)
Rendered(read, args, complaint) ==
    LET banner == IF read.result = "ok" THEN complaint ELSE StorageFailure(read.result)
    IN IF read.result = "cancelled" THEN NotAnswered(<<args>>)
       ELSE [status |-> StatusFor(banner), banner |-> banner, asked |-> <<args>>,
             shown |-> Rows(read), more |-> <<>>]

(* Further reads that a page does without when it must; but nobody is answered *)
(* who has left. *)
WithExtras(page, args, reads) ==
    LET gone == {i \in DOMAIN reads : reads[i].result = "cancelled"}
    IN CASE page.status = 0 -> page
         [] page.status # 0 /\ gone # {} -> NotAnswered(page.asked \o [i \in 1..Min(gone) |-> args])
         [] OTHER -> [page EXCEPT !.asked = @ \o [i \in DOMAIN reads |-> args],
                                  !.more = [i \in DOMAIN reads |-> Rows(reads[i])]]

(* The lists of nodes, by what the tests found. *)
IPv6Pages == {"ipv6", "ipv6-nonworking", "ipv6-advertised", "ipv6-only", "ipv6-pure"}
MailerPages == {"binkp", "ifcico"}
LoginPages == {"telnet", "vmodem"}
FtpPages == {"ftp"}
NodeListPages == IPv6Pages \cup MailerPages \cup LoginPages \cup FtpPages

RenderAnalyticsNodes(q, s) ==
    LET p == ParseAnalyticsParams(q)
    IN Rendered(s[1], Args(p.days, p.limit, RequestDomain(q)), p.complaint)

VModemUnavailable(q, s) == RenderAnalyticsNodes(q, s)
ModemAccessible(q, s) == RenderAnalyticsNodes(q, s)

AKAMismatch(q, s) ==
    LET p == ParseAnalyticsParams(q)
    IN WithExtras(RenderAnalyticsNodes(q, s), Args(p.days, p.limit, RequestDomain(q)), SubSeq(s, 2, 3))

OtherNetworks(q, s) ==
    LET p == ParseAnalyticsParams(q)
    IN Rendered(s[1], Args(p.days, NoNumber, RequestDomain(q)), p.complaint)
OtherNetworkNodes(q, s) ==
    IF q.subject = Nothing THEN Refused(302) ELSE RenderAnalyticsNodes(q, s)

(* The marks of dead numbers are asked for whatever came before. *)
ModemNoAnswer(q, s) ==
    LET page == RenderAnalyticsNodes(q, s)
    IN IF page.status = 0 THEN page
       ELSE [page EXCEPT !.asked = Append(@, Args(NoNumber, NoNumber, Nothing)), !.more = <<Rows(s[2])>>]

(* As a text the list of IPv6 nodes knows no reasons. *)
IPv6NodeList(q, s) ==
    LET page == RenderAnalyticsNodes(q, s)
    IN CASE q.subject # "text" -> page
         [] q.subject = "text" /\ s[1].result # "ok" -> [NotAnswered(page.asked) EXCEPT !.status = 500]
         [] OTHER -> [page EXCEPT !.banner = Nothing]

PSTNPage(q, s) == Rendered(s[1], Args(NoNumber, ParseLimit(q.limit, 5000, 10000), RequestDomain(q)), Nothing)
FileRequests(q, s) == PSTNPage(q, s)
EmailAnalytics(q, s) ==
    WithExtras(PSTNPage(q, s), Args(NoNumber, NoNumber, RequestDomain(q)), SubSeq(s, 2, 2))

IPv6WeeklyNews(q, s) ==
    LET valid == q.limit \in 1..1000
    IN Rendered(s[1], Args(NoNumber, IF valid THEN q.limit ELSE 50, RequestDomain(q)),
                IF valid \/ q.limit = Absent THEN Nothing ELSE "limit")

GeoHosting(q, s) == Rendered(s[1], Args(GeoDays(q.days), NoNumber, RequestDomain(q)), Nothing)
GeoCountryNodes(q, s) == IF q.subject \in {Nothing, "bad"} THEN Refused(400) ELSE GeoHosting(q, s)
GeoProviderNodes(q, s) == IF q.subject \in {Nothing, "bad"} THEN Refused(400) ELSE GeoHosting(q, s)

OnThisDay(q, s) ==
    LET limit == IF q.limit \in 0..10000 THEN q.limit ELSE IF q.limit > 10000 THEN NoNumber ELSE 100
    IN Rendered(s[1], Args(NoNumber, limit, RequestDomain(q)), Nothing)

Pioneers(q, s) ==   \* the zone and the region are bad together
    CASE q.subject = Nothing  -> [Refused(200) EXCEPT !.shown = {}]
      [] q.subject = "bad" -> [Refused(200) EXCEPT !.banner = StorageFailure("bad request")]
      [] OTHER -> Rendered(s[1], Args(NoNumber, 50, RequestDomain(q)), Nothing)

WhoisReport(q, s) == Rendered(s[1], Args(NoNumber, NoNumber, CookieDomain(q)), Nothing)
DomainNodes(q, s) ==
    IF q.query = Nothing THEN Refused(302) ELSE Rendered(s[1], Args(30, NoNumber, Nothing), Nothing)

(* The two forms of the first page take any failure for a thing to show. *)
FlagPage(q, s) ==
    LET args == Args(NoNumber, NoNumber, RequestDomain(q))
        reads == IF s[1].result = "ok" THEN 2 ELSE 1
    IN CASE q.method # "POST" -> Refused(302)
         [] q.method = "POST" /\ q.subject = Nothing -> [Refused(200) EXCEPT !.banner = "empty"]
         [] OTHER -> [status |-> 200, asked |-> [i \in 1..reads |-> args], shown |-> Rows(s[1]),
                      more |-> IF reads = 2 THEN <<Rows(s[2])>> ELSE <<>>,
                      banner |-> IF \E i \in 1..reads : s[i].result # "ok" THEN "failure" ELSE Nothing]

NetworkPage(q, s) ==
    CASE q.method # "POST" -> Refused(302)
      [] q.method = "POST" /\ q.subject \in {Nothing, "bad"} -> [Refused(200) EXCEPT !.banner = "format"]
      [] OTHER -> [NotAnswered(<<Args(NoNumber, NoNumber, RequestDomain(q))>>) EXCEPT
                      !.status = 200, !.shown = Rows(s[1]),
                      !.banner = IF s[1].result # "ok" THEN "failure"
                                 ELSE IF s[1].rows = {} THEN "not found" ELSE Nothing]

(* The statistics need a date, and the rest of the page does without. *)
StatsPage(q, s) ==
    LET args == Args(NoNumber, NoNumber, RequestDomain(q))
        asked(n) == [i \in 1..n |-> args]
        page == Rendered(s[3], args, IF s[3].rows = {} THEN "no data" ELSE Nothing)
    IN CASE s[1].result # "ok" -> Rendered(s[1], args, Nothing)
         [] s[1].result = "ok" /\ s[2].result = "cancelled" -> NotAnswered(asked(2))
         [] s[1].result = "ok" /\ s[2].result \in {"deadline", "failed"} ->
              [NotAnswered(asked(2)) EXCEPT !.status = 200, !.banner = "failure"]
         [] OTHER -> [page EXCEPT !.asked = asked(IF page.status = 0 THEN 3 ELSE 5),
                                  !.more = IF page.status = 0 THEN <<>> ELSE <<Rows(s[4]), Rows(s[5])>>]

Page(q, s) ==
    CASE q.page \in NodeListPages        -> RenderAnalyticsNodes(q, s)
      [] q.page = "vmodem-unavailable"   -> VModemUnavailable(q, s)
      [] q.page = "modem-accessible"     -> ModemAccessible(q, s)
      [] q.page = "modem-no-answer"      -> ModemNoAnswer(q, s)
      [] q.page = "aka-mismatch"         -> AKAMismatch(q, s)
      [] q.page = "other-networks"       -> OtherNetworks(q, s)
      [] q.page = "other-network-nodes"  -> OtherNetworkNodes(q, s)
      [] q.page = "ipv6-node-list"       -> IPv6NodeList(q, s)
      [] q.page = "ipv6-weekly-news"     -> IPv6WeeklyNews(q, s)
      [] q.page = "pstn"                 -> PSTNPage(q, s)
      [] q.page = "file-requests"        -> FileRequests(q, s)
      [] q.page = "email"                -> EmailAnalytics(q, s)
      [] q.page = "geo"                  -> GeoHosting(q, s)
      [] q.page = "geo-country"          -> GeoCountryNodes(q, s)
      [] q.page = "geo-provider"         -> GeoProviderNodes(q, s)
      [] q.page = "on-this-day"          -> OnThisDay(q, s)
      [] q.page = "pioneers"             -> Pioneers(q, s)
      [] q.page \in {"domain-expiration", "registrars"} -> WhoisReport(q, s)
      [] q.page = "domain-nodes"         -> DomainNodes(q, s)
      [] q.page = "flag"                 -> FlagPage(q, s)
      [] q.page = "network"              -> NetworkPage(q, s)
      [] q.page = "stats"                -> StatsPage(q, s)

(* A page without a banner is what it says: the rows of its main read, the     *)
(* third of the statistics and the first of any other, asked with the very     *)
(* numbers of the request where they may be had, and with no more days or rows *)
(* than anybody may ask for.  If the main read is out of time the page is no   *)
(* 200, and nobody who left during it is answered.                             *)
(*                                                                             *)
(* Of the other reads this does not hold, though errors.go wants a page that   *)
(* timed out told from one that rendered: their failure is an empty table on   *)
(* a page of status 200 and without a banner for it, whatever it was.  A form  *)
(* of the first page, and the statistics in the read of their date, answer 200 *)
(* and a banner to a read out of time as to any failed one, a form also to one *)
(* who left; and the text list answers all of them with 500.                   *)
BadNumbersTold == NodeListPages \cup {"vmodem-unavailable", "modem-accessible", "modem-no-answer",
                                      "aka-mismatch", "other-networks", "other-network-nodes"}
PageTells(q, s, a) ==
    LET made == 1..Len(a.asked)
        Came(i, result) == i \in made /\ s[i].result = result
        forms == {"flag", "network"}
        plain == q.page = "ipv6-node-list" /\ q.subject = "text"
        main == IF q.page = "stats" THEN 3 ELSE 1
        Used(v, arg) == v \in Nat \ {0} => \A i \in made : a.asked[i][arg] \in {v, NoNumber}
    IN /\ a.status = 200 /\ a.banner = Nothing /\ made # {} =>
             /\ s[main].result = "ok" /\ a.shown = s[main].rows
             /\ q.page \in BadNumbersTold => Used(q.days, "days") /\ Used(q.limit, "limit")
                                             /\ q.days # Unreadable /\ q.limit # Unreadable
       /\ \A i \in made :
             /\ a.asked[i].days <= 730 /\ (q.page \notin {"geo", "geo-country", "geo-provider"} => a.asked[i].days <= 365)
             /\ a.asked[i].limit <= 10000
             /\ a.asked[i].limit = NoNumber /\ q.page = "on-this-day" => q.limit = 0 \/ q.limit > 10000
             /\ q.query # Nothing /\ a.asked[i].domain # Nothing /\ q.page \notin {"domain-expiration", "registrars"} =>
                   a.asked[i].domain = q.query
             /\ a.asked[i].domain \in NetworkNames \cup {Nothing, q.query, q.form}
       /\ (\E i \in made : Came(i, "cancelled")) /\ q.page \notin forms /\ ~plain =>
             a.status = 0 \/ (q.page = "modem-no-answer" /\ Came(2, "cancelled"))
                          \/ (q.page = "stats" /\ (Came(4, "cancelled") \/ Came(5, "cancelled")))
       /\ a.status = 0 => s[Len(a.asked)].result = "cancelled"
       /\ Came(main, "deadline") /\ q.page \notin forms /\ ~plain => a.status \in {0, 503}
       /\ \A i \in made : i > main /\ q.page \notin forms /\ a.status # 0 /\ s[i].result # "ok" =>
             a.more[i - main] = {} /\ (~Came(main, "deadline") => a.status = 200)
       /\ q.page \in forms /\ made # {} =>
             a.status = 200 /\ (a.banner = "failure") = (\E i \in made : s[i].result # "ok")
       /\ q.page = "stats" /\ (Came(2, "deadline") \/ Came(2, "failed")) =>
             a.status = 200 /\ a.banner = "failure"
       /\ plain => (a.status = 500) = (s[1].result # "ok")
       /\ a.status = 503 => \E i \in made : Came(i, "deadline")
       /\ a.shown # {} => s[main].result = "ok"
       /\ a.status \in {302, 400} => made = {} /\ a.banner = Nothing

-----------------------------------------------------------------------------
(* The tables of the pages about modems and files, of rows with a zone and    *)
(* what the page counts. *)
Count(rows, Of(_)) == [k \in {Of(r) : r \in rows} |-> Cardinality({r \in rows : Of(r) = k})]

Tier(speed) ==
    CASE speed >= 28800 -> "28800+" [] speed \in 14400..28799 -> "14400"
      [] speed \in 9600..14399 -> "9600" [] OTHER -> "300-2400"

ComputePSTNStats(rows) ==
    [total |-> Cardinality(rows), cm |-> Cardinality({r \in rows : r.cm}),
     notCM |-> Cardinality({r \in rows : ~r.cm}),
     zones |-> Count(rows, LAMBDA r : r.zone), tiers |-> Count(rows, LAMBDA r : Tier(r.speed)),
     flags |-> [f \in UNION {r.flags : r \in rows} |-> Cardinality({r \in rows : f \in r.flags})]]

Speed(r) == IF r.tx = 0 THEN r.speed ELSE r.tx
ComputeModemAccessibleStats(rows) ==
    [total |-> Cardinality(rows), zones |-> Count(rows, LAMBDA r : r.zone),
     tiers |-> Count(rows, LAMBDA r : IF Speed(r) <= 0 THEN "Unknown" ELSE Tier(Speed(r))),
     protocols |-> Count(rows, LAMBDA r : IF r.protocol = Nothing THEN "Unknown" ELSE r.protocol),
     operators |-> Count({r \in rows : r.operator # Nothing}, LAMBDA r : r.operator)]

(* A mark is by address, whatever the network. *)
Dead(r, marks) == r.address \in marks
ComputeModemNoAnswerStats(rows, marks) ==
    [total |-> Cardinality(rows), attempts |-> MapThenSumSet(LAMBDA r : r.attempts, rows),
     dead |-> Cardinality({r \in rows : Dead(r, marks)}),
     zones |-> Count(rows, LAMBDA r : r.zone),
     dispositions |-> Count(rows, LAMBDA r : IF r.disposition = Nothing THEN "Unknown" ELSE r.disposition),
     operators |-> Count({r \in rows : r.operator # Nothing}, LAMBDA r : r.operator)]

Capabilities ==
    [XA |-> {"bark", "bark update", "wazoo", "wazoo update"}, XB |-> {"bark", "bark update", "wazoo"},
     XC |-> {"bark", "wazoo", "wazoo update"}, XP |-> {"bark", "bark update"}, XR |-> {"bark", "wazoo"},
     XW |-> {"wazoo"}, XX |-> {"wazoo", "wazoo update"}]
ComputeFileRequestStats(rows) ==
    LET known == {r \in rows : r.flag \in DOMAIN Capabilities}
    IN [total |-> Cardinality(rows), zones |-> Count(rows, LAMBDA r : r.zone),
        flags |-> Count(known, LAMBDA r : r.flag),
        able |-> [c \in UNION Range(Capabilities) |-> Cardinality({r \in known : c \in Capabilities[r.flag]})]]

-----------------------------------------------------------------------------
(* The reports on the domains, of the last look-up of each.  The name of a    *)
(* registrar is its key, which is what remains of it without case and the     *)
(* points at its end, its spelling, a number in their order, and whether the  *)
(* registry has put a tag to it.                                              *)
NormalizeWhoisStatus(r) == IF r.status \in {Nothing, "on hold"} THEN r.status ELSE "Active"

SoonDays == 30
Standing(r, now) ==
    CASE ~r.found                                       -> "expired"
      [] r.found /\ r.expires = Absent                  -> IF r.status = Nothing THEN "unknown" ELSE "undated"
      [] r.found /\ r.expires # Absent /\ r.expires < now -> "expired"
      [] r.found /\ r.expires \in now..(now + SoonDays - 1) -> "soon"
      [] OTHER                                          -> "later"

DomainExpiration(rows, now) ==
    LET normal == {[r EXCEPT !.status = NormalizeWhoisStatus(r)] : r \in rows}
        Number(standing) == Cardinality({r \in normal : Standing(r, now) = standing})
    IN [total |-> Cardinality(rows), expired |-> Number("expired"), soon |-> Number("soon"),
        unknown |-> Number("unknown")]

NormalizeRegistrarName(name) == [name EXCEPT !.tag = FALSE]
RegistrarGroupKey(name) == <<name.key, name.tag>>   \* a tag that is left is a part of it
NoRegistrar == <<Nothing, FALSE>>

Registrars(rows, typed) ==
    LET Name(r) == NormalizeRegistrarName(r.registrar)
        Group(k) == {r \in rows : RegistrarGroupKey(Name(r)) = k}
        Times(n) == Cardinality({r \in rows : Name(r) = n})
        Display(k) ==   \* the spelling of most of them, and of these the first
            CHOOSE n \in {Name(r) : r \in Group(k)} : \A r \in Group(k) :
                \/ Times(n) > Times(Name(r))
                \/ Times(n) = Times(Name(r)) /\ n.spelling <= Name(r).spelling
        keys == {RegistrarGroupKey(Name(r)) : r \in rows} \ {NoRegistrar}
        chosen == RegistrarGroupKey(NormalizeRegistrarName(typed))
    IN [total |-> Cardinality(rows), unknown |-> Cardinality(Group(NoRegistrar)),
        lines |-> {[registrar |-> Display(k), domains |-> Cardinality(Group(k)),
                    nodes |-> Cardinality(UNION {r.nodes : r \in Group(k)})] : k \in keys},
        chosen |-> IF chosen = NoRegistrar THEN {} ELSE Group(chosen)]

Domains(rows, now, typed) ==
    [expiration |-> DomainExpiration(rows, now), registrars |-> Registrars(rows, typed)]

(* Every domain is counted in one line or among the unknown; and the line of a *)
(* registrar leads, by the name that it shows, to the very domains and nodes   *)
(* that it counts, as its name does in every spelling.  A domain is expired or *)
(* about to be, and not both.                                                  *)
DomainsTold(rows, now, typed, a) ==
    LET Sum(lines) == MapThenSumSet(LAMBDA l : l.domains, lines)
        Behind(name) == Registrars(rows, name).chosen
        e == a.expiration
    IN /\ Sum(a.registrars.lines) + a.registrars.unknown = Cardinality(rows)
       /\ \A l \in a.registrars.lines :
             /\ Cardinality(Behind(l.registrar)) = l.domains
             /\ Cardinality(UNION {r.nodes : r \in Behind(l.registrar)}) = l.nodes
             /\ \A m \in a.registrars.lines \ {l} : Behind(m.registrar) \cap Behind(l.registrar) = {}
       /\ \A r \in rows : r.registrar.key # Nothing => r \in Behind(r.registrar)
       /\ a.registrars.chosen # {} => \E l \in a.registrars.lines : a.registrars.chosen = Behind(l.registrar)
       /\ e.expired + e.soon + e.unknown <= e.total
       /\ e.expired >= Cardinality({r \in rows : r.expires # Absent /\ r.expires < now})
       /\ e.soon <= Cardinality({r \in rows : r.found /\ r.expires >= now})
       /\ e.unknown <= Cardinality({r \in rows : r.expires = Absent})

Tables(rows, marks) ==
    [pstn |-> ComputePSTNStats(rows), modem |-> ComputeModemAccessibleStats(rows),
     silent |-> ComputeModemNoAnswerStats(rows, marks), files |-> ComputeFileRequestStats(rows)]

(* The tables count every row, and the same speed alike. *)
TablesAdd(rows, marks, a) ==
    LET Sum(f) == MapThenSumSet(LAMBDA k : f[k], DOMAIN f)
        Whole(f) == Sum(f) = Cardinality(rows)
        listed == {"28800+", "14400", "9600"}
    IN /\ \A t \in {a.pstn, a.modem, a.silent, a.files} : Whole(t.zones)
       /\ a.pstn.cm + a.pstn.notCM = a.pstn.total /\ Whole(a.pstn.tiers)
       /\ Whole(a.modem.tiers) /\ Whole(a.modem.protocols) /\ Whole(a.silent.dispositions)
       /\ (\A r \in rows : r.tx \in {0, r.speed}) =>
             \A t \in listed : t \in DOMAIN a.pstn.tiers => a.modem.tiers[t] = a.pstn.tiers[t]
       /\ Sum(a.modem.operators) <= a.modem.total /\ a.silent.operators = a.modem.operators
       /\ (a.silent.dead = 0) = (\A r \in rows : r.address \notin marks)
       /\ Sum(a.files.flags) <= a.files.total
       /\ a.files.able["wazoo"] + a.files.able["bark"] >= Sum(a.files.flags)
=============================================================================
