-------------------------- MODULE MCSequentialCode --------------------------
(* The test of a node, with one protocol at a time on up to three hostnames   *)
(* that have up to two IPv6 addresses and one IPv4 address; and, beside it,   *)
(* every call of the sequential code with small arguments.                    *)
EXTENDS NodeTest, SequentialCode

OneProtocol == {{p} : p \in Protocol} \cup {{}}

UpTo(n, S) == UNION {[1..k -> S] : k \in 0..n}

(* Lines of a list *)
Line(kw, num) == [kw |-> kw, num |-> num, full |-> TRUE, addr |-> Parser!NoAddr,
                  uboss |-> Parser!NoAddr, date |-> Parser!NoDate]
Header(year, day) == [Line(";A", Parser!Bad) EXCEPT !.date = [year |-> year, day |-> day]]
Short(line) == [line EXCEPT !.full = FALSE]
Named(line, zone, net, nd, point) == [line EXCEPT !.addr = Parser!At(zone, net, nd, point)]

NodelistLines ==
    {Line(kw, 3) : kw \in {"", "Zone", "Region", "Host", "Hub", "Point"}}
    \cup {Line("", 4), Line("Host", 5), Line("Host", Parser!Bad), Short(Line("Zone", 7)),
          Header(2004, 9), Line("^Z", Parser!Bad)}

ListName == [form |-> "nodelist-yyyy-ddd", year |-> 2004, day |-> 16]

UsedParser ==
    Parser!ParseFile(Parser!NewParser,
        [year |-> 1986, lines |-> <<Line("Zone", 3), Line("Region", 4), Line("", 3)>>,
         collect |-> FALSE, name |-> ListName]).parser

NodelistCalls ==
    [op : {"ParseFile"}, parser : {Parser!NewParser, UsedParser}, year : {1986, 2004},
     lines : UpTo(3, NodelistLines), collect : {TRUE}, name : {ListName}]
    \cup [op : {"ParseFile"}, parser : {UsedParser}, year : {2004},
          lines : [1..4 -> NodelistLines \ {Short(Line("Zone", 7)), Header(2004, 9)}],
          collect : {TRUE}, name : {ListName}]

PointlistLines ==
    {Line(kw, 1) : kw \in {"", "Point", "Pvt", "Zone", "Region", "Host", "Hub"}}
    \cup {Line("", 6), Line("", Parser!Bad), Line("Host", Parser!Bad), Line(";", Parser!Bad)}
    \cup {Named(Line("Boss", Parser!Bad), 2, 5, 9, Parser!Bad), Line("Boss", Parser!Bad),
          Named(Line("Host", 4), Parser!Bad, 7, 8, Parser!Bad),
          [Line("Hub", 2) EXCEPT !.uboss = Parser!At(3, 7, 8, Parser!Bad)],
          Named(Line("", 5), 2, 7, 9, 12)}

PointlistCalls ==
    [op : {"ParsePointlist"}, format : {"auto", "boss", "point", "fakenet"}, zone : {2},
     lines : UpTo(3, PointlistLines)]

DateCalls ==
    [op : {"PointlistDate"}, form : {"nodelist.ddd", "other"}, day : {0, 1, 365, 366},
     pathYear : {0, 2003, 2004, 2005}, now : {2026},
     header : [day : {0, 1, 300}, year : {0, 2004}, number : {0, 5, 366}]]

Value(h, port, brackets) == [host |-> h, port |-> port, brackets |-> brackets]
Flag(name) == [name |-> name, colon |-> FALSE, value |-> Value("", 0, FALSE)]
Flags ==
    {Flag(name) : name \in {"IBN", "INA", "IEM", "IMI", "BND", "INO4", "CM"}}
    \cup [name : {"IBN", "ITN", "INA", "IEM", "IMI", "IVM", "U"}, colon : {TRUE},
          value : {Value(h, port, FALSE) : h \in {"", "a"}, port \in {0, 25, 99999}}
                  \cup {Value("a", 25, TRUE), Value("a", 99999, TRUE)}]

FlagCalls == [op : {"ParseFlags"}, parts : UpTo(2, Flags)]

(* Peers *)
Bytes == {"IAC", "WILL", "SB", "SE", "BINARY", "NAWS", "a"}
StreamCalls ==
    [op : {"ReadStream"}, chunks : UpTo(2, UpTo(2, Bytes)) \cup [1..4 -> [1..1 -> Bytes]]]

TelnetCalls ==
    [op : {"TelnetTest"}, up : BOOLEAN, inTime : BOOLEAN,
     pieces : UpTo(3, {<<"a">>, <<"IAC", "WILL", "NAWS">>, <<"IAC", "DO", "BINARY">>, <<"IAC", "NOP">>,
                       <<"IAC", "SB", "NAWS", "a", "IAC", "SE">>, <<"IAC", "IAC">>, <<"IAC">>})]

Address(domain, point) == [base |-> "2:5/1", domain |-> domain, point |-> point]
Frames ==
    [command : {TRUE}, type : {"ADR"}, addresses : {{Address("fidonet", "0")}, {Address("", "1")}}]
    \cup [command : {TRUE}, type : {"OK", "ERR", "EOB", "FILE"}]
    \cup [command : BOOLEAN, type : {"NUL"}, system : {TRUE}]
BinkpCalls ==
    [op : {"BinkpTest"}, expected : {Address("", "0")}, maxFrames : {3},
     remote : [frames : UpTo(4, Frames), closes : BOOLEAN, takesInfo : {TRUE}, takesEOB : BOOLEAN]
        \cup [frames : {<<>>}, closes : {TRUE}, takesInfo : {FALSE}, takesEOB : {FALSE}]]

ReplyLine(c, after) == [code |-> c, after |-> after]
Replies3(c) ==
    {<<ReplyLine(c, " ")>>, <<ReplyLine(c, "-"), ReplyLine(c, " ")>>,
     <<ReplyLine(c, "-"), ReplyLine("", ""), ReplyLine(c, "")>>,
     <<ReplyLine(c, "-"), ReplyLine("230", " "), ReplyLine(c, " ")>>}    \* the second padded
FtpCalls ==
    [op : {"FtpTest"}, replies : UpTo(3, UNION {Replies3(c) : c \in {"220", "230", "331"}})]

IfcicoCalls ==
    [op : {"IfcicoTest"}, up : BOOLEAN, expected : {"x"},
     emsi : [info : {"dat"}, fails : BOOLEAN, mailer : BOOLEAN, addresses : {{"x"}, {"y"}}]
            \cup [info : {"banner", "none"}, fails : BOOLEAN, mailer : BOOLEAN, addresses : {{}}]]

Heard == {s \in SUBSET {"REQ", "HBT", "MD5", "INQ", "VMP", "NUL", "product", "banner"} :
             Cardinality(s) <= 2}
Peers ==
    [up : {TRUE}, upAgain : BOOLEAN, speaks : Client!Speaks, telnet : BOOLEAN,
     opening : Heard, answer : {{}, {"REQ"}, {"INQ"}},
     call : {"no-local-port", "connected", "no answer", "cancelled", "silent", "error"},
     emsi : [info : {"dat"}, fails : BOOLEAN, mailer : {TRUE}, addresses : {{"x"}}]
            \cup [info : {"none"}, fails : {TRUE}, mailer : {FALSE}, addresses : {{}}]]
VModemCalls ==
    [op : {"VModemTest"}, peer : {p \in Peers : p.answer # {} => p.speaks # "never"},
     enabled : {TRUE}, mayCall : BOOLEAN, expected : {"x"}]

(* The archive *)
ListNames == {[net |-> n, day |-> d, upper |-> u, ext |-> e] :
                 n \in {Archive!Fidonet}, d \in {1, 8}, u \in {FALSE}, e \in {"", "gz"}}
ArchivePlaces == [place : {Archive!Fidonet, Archive!ArchiveRoot}, year : {2025, 2026}]
ArchiveFiles ==
    {p @@ [name |-> n] : p \in ArchivePlaces, n \in ListNames}
    \cup [place : {Archive!Fidonet, Archive!ArchiveRoot}, year : {2026},
          name : {[net |-> Archive!Fidonet, day |-> 8, upper |-> TRUE, ext |-> e] : e \in {"", "GZ"}}
                 \cup {[net |-> n, day |-> d, upper |-> FALSE, ext |-> "gz"] :
                          n \in {Archive!Fidonet, "fsxnet"}, d \in {Archive!Bad, 15}}]
    \cup [place : {"fsxnet"}, year : {2026},
          name : [net : {Archive!Fidonet, "fsxnet"}, day : {15}, upper : {FALSE}, ext : {"gz"}]]

BrowseCalls ==
    {[op |-> "BrowseArchive", files |-> files, dirs |-> {<<f.place, f.year>> : f \in files} \cup empty] :
        files \in {{f, g, h} : f, g, h \in ArchiveFiles},
        empty \in {{}, {<<Archive!Fidonet, 2026>>}}}

OnDay(year, day) == [year |-> year, day |-> day]
InTree ==
    [tree : {TRUE}, day : {0, 366}, dirYear : {0, 2025}, commit : {Archive!NoDate},
     header : {Archive!NoDate, OnDay(2025, 2)}, readable : {TRUE}, content : {"a", "b"}]
InHistory ==
    [tree : {FALSE}, day : {2, 366}, dirYear : {0}, commit : {OnDay(2025, 1), OnDay(2025, 365)},
     header : {Archive!NoDate, OnDay(2025, 2)}, readable : BOOLEAN, content : {"a", "c"}]
WeeklyCalls ==
    {[op |-> "ArchiveWeeklies", network |-> "fsxnet", candidates |-> tree \o history, writes |-> w] :
        tree \in UpTo(1, InTree), history \in UpTo(2, InHistory), w \in {0, 1, 9}}

CorpusFiles ==
    {f \in [z2 : BOOLEAN, fake : BOOLEAN, source : {"", "r24"}, stem : {"s"}, day : {0, 9, 366},
            pathYear : {0, 2005}, content : {"boss", "other"},
            header : {[number |-> 9, day |-> 9, year |-> 2005], [number |-> 0, day |-> 0, year |-> 0]}] :
        (f.content = "boss") = (~f.z2 /\ ~f.fake)}
CorpusCalls == [op : {"ArchivePointlists"}, corpus : UpTo(2, CorpusFiles)]

(* What is stored: rows as nodes and points are in their issues *)
OneEntry(rows) == \A q, r \in rows :
    [q EXCEPT !.name = 0] = [r EXCEPT !.name = 0] => q = r
NodeRows ==
    [domain : {1}, node : {1}, date : 1..3, seq : {0, 1}, name : {1, 2}]
    \cup [domain : {1}, node : {2}, date : {1, 3}, seq : {0}, name : {1, 2}]
    \cup [domain : {2}, node : {1}, date : {1, 2}, seq : {0}, name : {1}]
NodeFilters ==
    [domain : {0, 1}, node : {0, 1}, name : {0, 1}, from : {0}, to : {0, 2},
     latestOnly : BOOLEAN, limit : {1}, offset : {0}]
    \cup [domain : {0}, node : {0}, name : {1}, from : {2}, to : {1, 2},
          latestOnly : BOOLEAN, limit : {1}, offset : {0}]
SearchCalls ==
    [op : {"SearchNodes"}, rows : {S \in {{p, q, r} : p, q, r \in NodeRows} : OneEntry(S)},
     filter : NodeFilters]

Listed(n, names) == {[domain |-> 1, node |-> n, date |-> d, seq |-> 0, name |-> names[d]] :
                           d \in {e \in DOMAIN names : names[e] # 0}}
ChangeCalls ==
    {[op |-> "NodeChanges", node |-> 1, domain |-> 1, fails |-> fails,
      rows |-> Listed(1, names) \cup Listed(2, others)
               \cup {[r EXCEPT !.seq = 1, !.name = 2] : r \in {q \in Listed(1, names) : q.date = twice}}
               \cup {[domain |-> 2, node |-> 1, date |-> 2, seq |-> 0, name |-> 1]}] :
        names \in [1..4 -> 0..2], others \in [1..5 -> {0, 1}], twice \in {0, 2},
        fails \in {{}, {"next", "latest"}}}

Table(names, values) == UNION {[S -> values] : S \in SUBSET names}
Configs ==
    [protocols : Table({"IBN"}, {<<>>, <<0>>, <<1>>, <<0, 1>>, <<2>>}),
     defaults : Table({"INA"}, {<<1>>, <<2>>}), email : Table({"IEM"}, {<<0>>, <<1>>}),
     info : SUBSET {"ICM"}]
ConfigCalls == [op : {"ConfigChange"}, prev : Configs, curr : Configs]

Entries == [domain : {1}, zone : {1, 2}, region : {0, 50}, net : {1, 2}, node : {1, 2}, date : {4}, seq : {0}]
OtherEntries == [domain : {1, 2}, zone : {1}, region : {0}, net : {1}, node : {1}, date : {1}, seq : {0}]
BrowseIssues ==
    [op : {"Browse"}, domain : {0, 1}, date : {-30, 2, 3, 5},
     rows : {{p, q, r, s} : p, q, r \in Entries, s \in OtherEntries}]

PointRows ==
    [domain : {1}, addr : {1, 2}, source : {1, 2}, date : {1, 2}, seq : {0}, name : {1, 2}]
    \cup [domain : {1}, addr : {1}, source : {3}, date : {2, 4}, seq : {0, 1}, name : {1}]
    \cup [domain : {2}, addr : {1}, source : {1}, date : {4}, seq : {0}, name : {1}]
PointFilters ==
    [domain : {1}, addr : {0, 1}, source : {0}, name : {0, 1}, from : {0}, to : {0, 2},
     limit : {0}, offset : {0}]
    \cup [domain : {0}, addr : {0, 1}, source : {0}, name : {0, 1}, from : {0}, to : {0},
          limit : {0}, offset : {0}]
    \cup [domain : {1}, addr : {0, 1}, source : {2}, name : {0, 1}, from : {0}, to : {0},
          limit : {0}, offset : {0}]
    \cup [domain : {1}, addr : {0}, source : {0}, name : {1}, from : {2}, to : {0},
          limit : {0}, offset : {0}]
PointCalls ==
    {[op |-> "SearchPoints", rows |-> rows, filter |-> f,
      gate |-> {<<r.domain, r.source, r.date>> : r \in rows} \ half] :
        rows \in {S \in {{p, q, r} : p, q, r \in PointRows} : OneEntry(S)},
        half \in {{}, {<<1, 1, 2>>}}, f \in PointFilters}

(* The log of the tests: what the daemon finds of a hostname, and the rows of  *)
(* a cycle, one for each hostname and their sum, or the sum is never written.  *)
Finding(v4, v6, ok4, ok6, valid, nets, vm) ==
    [v4 |-> v4, v6 |-> v6, tested |-> IF v4 \/ v6 THEN {"binkp", "telnet", "ftp"} ELSE {},
     ok4 |-> ok4, ok6 |-> ok6, valid |-> valid, nets |-> nets, vm |-> vm]
Fsx == <<"f", "s", "x">>
Findings ==
    {Finding(TRUE, TRUE, {"binkp", "telnet"}, {"binkp", "telnet"}, {"v4", "v6"}, {Fsx}, "vmp"),
     Finding(TRUE, TRUE, {"binkp"}, {}, {"v4"}, {Fsx \o <<"2">>}, "other"),
     Finding(TRUE, TRUE, {}, {"binkp"}, {}, {Fsx}, "no answer"),
     Finding(FALSE, TRUE, {}, {"binkp"}, {"v6"}, {}, "untested"),
     Finding(TRUE, TRUE, {"ftp"}, {}, {}, {}, "no answer"),
     Finding(FALSE, FALSE, {}, {}, {}, {}, "untested")}
BestProbe(a, b) == CHOOSE v \in {a, b} : v = "vmp" \/ (a # "vmp" /\ b # "vmp" /\ (v = a \/ a = "untested"))
Together(f, g) ==
    Finding(f.v4 \/ g.v4, f.v6 \/ g.v6, f.ok4 \cup g.ok4, f.ok6 \cup g.ok6, {}, f.nets \cup g.nets,
            BestProbe(f.vm, g.vm))
ResultRow(n, t, i, agg, f) == f @@ [node |-> n, time |-> t, host |-> i, agg |-> agg, derived |-> FALSE]

OneHost(n, t) == {{ResultRow(n, t, -1, FALSE, f)} : f \in Findings}
TwoHosts(n, t, gap, some) ==
    UNION {{hosts, hosts \cup {ResultRow(n, t + gap, 0, TRUE, Together(f, g))}} :
             <<f, g, hosts>> \in {<<f, g, {ResultRow(n, t, 0, FALSE, f), ResultRow(n, t + gap, 1, FALSE, g)}>> :
                                      f, g \in some}}
Derived(n, t) == {{[r EXCEPT !.derived = TRUE] : r \in c} : c \in OneHost(n, t)}
Few == {f \in Findings : f.vm # "untested"}
Tests(n, t) == OneHost(n, t) \cup TwoHosts(n, t, 0, Findings) \cup TwoHosts(n, t, 1, Findings)
FewTests(n, t) == OneHost(n, t) \cup Derived(n, t) \cup TwoHosts(n, t, 0, Few)

Listing(n, network, date, type, ivm, seq) ==
    [node |-> n, network |-> network, date |-> date, type |-> type, ivm |-> ivm, seq |-> seq]
Listings ==
    {{Listing(1, 1, d, "", TRUE, 0) : d \in S} : S \in {{0, 4, 8}, {8}, {0, 4}, {0, 8}}}
    \cup {{Listing(1, 1, 8, type, ivm, seq), Listing(1, 1, 4, "", TRUE, 0)} :
             type \in {"", "Down"}, ivm \in BOOLEAN, seq \in {0, 1}}
    \cup {{Listing(1, 1, 4, "", TRUE, 0), Listing(2, network, 8, "", TRUE, 0)} : network \in {1, 2}}
Both == {Listing(1, 1, 8, "", TRUE, 0), Listing(2, 1, 8, "", FALSE, 0)}

Logged(cycles, listings) ==
    [op |-> "Reports", cycles |-> cycles, listings |-> listings, now |-> 9, period |-> 4]
Starts == {<<2, 6>>, <<4, 5>>}
FirstTests == {Logged(<<c>>, listings) : c \in Tests(1, 4) \cup Tests(1, 7), listings \in Listings}
Later(n, t) == OneHost(n, t) \cup TwoHosts(n, t, 1, Findings)
SecondTests == {Logged(cd, Both) : cd \in UNION {FewTests(1, tu[1]) \X Later(1, tu[2]) : tu \in Starts}}
OldAndNewTests == {Logged(<<c, d>>, listings) : c \in FewTests(1, 2), d \in OneHost(1, 6), listings \in Listings}
TwoNodes == {Logged(<<c, d>>, Both) : c \in FewTests(1, 3) \cup FewTests(1, 7), d \in OneHost(2, 7)}

(* The nodelists as the census has them *)
Entry == [domain |-> 1, zone |-> 2, net |-> 5, node |-> 1, region |-> 50, date |-> 1, seq |-> 0,
          type |-> "Node", sysop |-> 1, name |-> 1, phone |-> "number", cm |-> FALSE,
          flags |-> {}, email |-> {}, field |-> Census!NoMail]
Of(domain, n, date) == [Entry EXCEPT !.domain = domain, !.node = n, !.date = date]
Triples(S) == {{p, q, r} : p, q, r \in S}
Once(rows) == \A q, r \in rows : Census!Key(q) = Census!Key(r) /\ q.date = r.date => q = r

Carries(r) == [r EXCEPT !.flags = {"XA"}]
ImportedIssues ==
    {[domain |-> i[1], date |-> i[2], updated |-> u, rows |-> rows] :
        <<i, u, rows>> \in UNION {{<<i, u, rows>> : u \in BOOLEAN,
                                       rows \in {{Of(i[1], 1, i[2])}, {Carries(Of(i[1], 1, i[2]))},
                                                  {Of(i[1], 1, i[2]), Carries(Of(i[1], 2, i[2]))}}} :
                                      i \in {<<1, 1>>, <<1, 2>>, <<1, 7>>, <<2, 2>>}}}
FlagReports ==
    [op : {"FlagReport"}, flag : {"XA"},
     imports : {s \in UpTo(3, ImportedIssues) :
                   \A i, j \in DOMAIN s : s[i].domain = s[j].domain /\ s[i].date = s[j].date => i = j}]

NetHistories ==
    {[op |-> "NetHistory", zone |-> 2, net |-> 5, domain |-> domain,
      rows |-> other \cup UNION {{Of(1, n, d) : n \in 1..nodes[d]} : d \in DOMAIN nodes}] :
        nodes \in [{1, 2, 3, 5, 6, 9} -> 0..2], domain \in {0, 1},
        other \in {{}, {Of(2, 1, 3), Of(2, 1, 8)}, {[Of(1, 1, 8) EXCEPT !.net = 6]}}}

Sysops == {[Of(d, n, date) EXCEPT !.sysop = s] : d, n, s \in {1, 2}, date \in {1, 2, 7, 13}}
OnThisDays ==
    [op : {"OnThisDay"}, day : {1}, today : {14}, domain : {0, 1}, rows : {S \in Triples(Sysops) : Once(S)}]
Regional == {[Of(d, n, date) EXCEPT !.sysop = s, !.region = g] :
                d, n, s, date \in {1, 2}, g \in {50, 51}}
PioneerCalls ==
    [op : {"Pioneers"}, zone : {2}, region : {50}, domain : {0, 1}, limit : {1, 2},
     rows : {S \in Triples(Regional) : Once(S)}]

Typed == {[Of(d, n, 1) EXCEPT !.type = type, !.region = g, !.net = net] :
             d, n \in {1, 2}, type \in {"Region", "Host", "Node", "Down"}, g \in {0, 50}, net \in {5, 6}}
StatsCalls ==
    [op : {"Stats"}, domain : {0, 1}, rows : {S \in {{p, q, Of(1, 3, 2)} : p, q \in Typed} : Once(S)}]
    \cup [op : {"Stats"}, domain : {1},
          rows : {{p, [p EXCEPT !.seq = 1, !.type = "Host"], q} : p, q \in {r \in Typed : r.domain = 1}}]

Phones == {[Of(d, n, date) EXCEPT !.type = type, !.phone = phone, !.cm = cm] :
              d, date \in {1, 2}, n \in {0, 1}, type \in {"Node", "Down"},
              phone \in {"number", "unpublished"}, cm \in BOOLEAN}
Mark(dead, at) == [address |-> <<2, 5, 1>>, dead |-> dead, at |-> at]
PhoneCalls ==
    [op : {"PhoneReport"}, rows : {S \in {{p, q} : p, q \in Phones} : Once(S)},
     marks : {<<>>} \cup {<<Mark(x, 1)>> : x \in BOOLEAN}
             \cup {<<Mark(x, 1), Mark(y, t)>> : x, y \in BOOLEAN, t \in {1, 2}}]

Mail(u, h) == [user |-> u, host |-> h]
MailFlags == [flag : {"IEM", "IMI", "ISE"},
              value : {Census!NoMail, Census!Malformed, Mail("a", "x"), Mail("b", "x"), Mail("a", "y")}]
Check(h, status, at) == [host |-> h, status |-> status, at |-> at]
EmailCalls ==
    [op : {"EmailReport"}, useField : BOOLEAN,
     rows : {{[Entry EXCEPT !.email = {e, f}, !.field = field]} :
                e, f \in MailFlags, field \in {Census!NoMail, Mail("f", "z")}},
     checks : {{}, {Check("x", "ok", 1)}, {Check("x", "ok", 1), Check("x", "no_mx", 2), Check("y", "ok", 1)}}]
    \cup [op : {"EmailReport"}, useField : {FALSE}, checks : {{}},
          rows : {S \in Triples({[Of(d, n, date) EXCEPT !.email = email, !.type = type] :
                                    d, n \in {1, 2}, date \in {1, 3, 7}, type \in {"Node", "Hold"},
                                    email \in {{}, {[flag |-> "IMI", value |-> Census!NoMail]}}}) : Once(S)}]

(* The log as the reports on hosts and modems have it *)
Running(software, v, system) ==
    [software |-> software, version |-> v, os |-> system, binkd |-> software = "binkd"]
Found(mailer, version, country, code, isp, org, site) ==
    [up |-> mailer # "none", mailer |-> mailer, version |-> version, country |-> country, code |-> code,
     isp |-> isp, org |-> org, site |-> site]
HostFindings ==
    {Found("binkp", Running("binkd", "1", "Linux"), "A", "a", "i", "o", "x"),
     Found("ifcico", Running("Mystic", "2", ""), "B", "b", "j", "o", "y"),
     Found("binkp", Running("Unknown", "", "Unknown"), "A", "aa", "i", "p", "x"),
     Found("binkp", Hosts!NoVersion, "", "", "", "", ""),
     Found("none", Hosts!NoVersion, "A", "a", "i", "o", "y")}
NotCalled == [modem |-> "untested", speed |-> 0, phone |-> ""]
At(k, t, i, agg) == [domain |-> k[1], node |-> k[2], time |-> t, host |-> i, agg |-> agg]
Nodes2 == {<<1, 1>>, <<1, 2>>, <<2, 1>>}
HostRows ==
    {At(k, t, i, FALSE) @@ f @@ NotCalled : k \in Nodes2, t \in {1, 3}, i \in {0, 1}, f \in HostFindings}
SumRow == {At(<<1, 1>>, 3, 2, TRUE) @@ f @@ NotCalled : f \in {g \in HostFindings : g.code = "a"}}
OneRowEach(log) == \A q, r \in log : q.time = r.time /\ q.host = r.host /\ Hosts!Key(q) = Hosts!Key(r) => q = r
Lookup(site, at, status) == [site |-> site, at |-> at, status |-> status]
HostReportCalls ==
    [op : {"HostReport"}, from : {2}, current : {Nodes2, {<<1, 1>>, <<2, 1>>}},
     log : {S \in {{q, r} \cup other : q, r \in HostRows, other \in {{s} : s \in SumRow} \cup {{}}} : OneRowEach(S)},
     lookups : {{Lookup("x", 1, "error"), Lookup("x", 2, "ok"), Lookup("y", 1, "ok")}}]
    \cup [op : {"HostReport"}, from : {2}, current : {Nodes2}, lookups : {{}, {Lookup("z", 1, "ok")}},
          log : {{r} : r \in HostRows}]

Rung(k, t, outcome, speed, phone) ==
    At(k, t, -1, FALSE) @@ Found("none", Hosts!NoVersion, "", "", "", "", "")
        @@ [modem |-> outcome, speed |-> speed, phone |-> phone]
ModemRows ==
    {Rung(k, t, "failed", 0, "1") : k \in Nodes2, t \in 1..3}
    \cup {Rung(k, t, "ok", s, phone) : k \in Nodes2, t \in 1..3, s \in {1, 2}, phone \in {"", "1"}}
ModemCalls == [op : {"ModemReport"}, from : {2}, log : Triples(ModemRows)]

(* The hours of the nodes, and the runs of the modem test *)
T(letters) == [kind |-> "T", letters |-> letters]
Hour(h) == [kind |-> "#", hour |-> h]
Kind(k) == [kind |-> k]
Letters == {"A", "B", "D", "G", "J", "K", "L", "P", "U", "X", "Z"}
TimeFlags == {T(<<x>>) : x \in Letters \cup {"E", "I", "N"}} \cup {Hour(h) : h \in {0, 1, 2, 23, 24}}
             \cup {Kind("ZMH"), Kind("CM"), Kind("ICM")}
CallTimeCalls ==
    [op : {"CallTimes"}, zone : {1}, pstn : {TRUE}, day : {0, 1},
     flags : {<<T(<<x, y>>)>> : x, y \in Letters} \cup UpTo(2, TimeFlags)]
    \cup [op : {"CallTimes"}, zone : 1..7, pstn : BOOLEAN, day : {3}, flags : {<<>>, <<Kind("ZMH")>>}]

Entry3(n, raw, fs) == [addr |-> <<2, 5, n>>, raw |-> raw, flags |-> fs]
Run ==
    [op |-> "ModemTest", mode |-> "all", listed |-> <<>>, requests |-> <<>>, addr |-> <<2, 5, 1>>,
     phone |-> <<>>, prefix |-> <<>>, cmOnly |-> FALSE, recent |-> {}, now |-> 160, takes |-> 15,
     retries |-> 2, interrupt |-> Modem!Endless, line |-> <<"ok">>, remote |-> {},
     batchSize |-> 2, lost |-> {}, rejected |-> {}, callers |-> "k" :> "caller", key |-> "k", maxBatch |-> 9]
Hours == {<<>>, <<Kind("CM")>>, <<Hour(2), Hour(3)>>, <<T(<<"J">>)>>, <<Hour(0), Hour(23)>>}
TimedRuns ==
    {[Run EXCEPT !.listed = <<Entry3(1, <<"1", "2", "3">>, f), Entry3(2, <<"1", "2", "4">>, g), Entry3(3, <<"4", "4", "4">>, <<>>)>>,
                 !.now = now, !.line = line, !.interrupt = interrupt] :
        f, g \in Hours, now \in {120, 160, 200},
        line \in {<<"ok">>, <<"busy", "ok">>, <<"busy", "busy", "busy", "mute">>, <<"busy">>, <<"error">>},
        interrupt \in {Modem!Endless, 175, 190, 1600}}
Request(n, dead) == [addr |-> <<2, 5, n>>, dead |-> dead]
ChoosingRuns ==
    {[Run EXCEPT !.listed = <<Entry3(0, raw, <<>>), Entry3(1, <<"1", "-", "2", "3">>, fs)>>, !.mode = mode,
                 !.phone = phone, !.prefix = prefix, !.cmOnly = cmOnly, !.recent = recent, !.requests = requests] :
        raw \in {<<"1", "2", "3">>, <<"4", "4", "4">>, Modem!Unpublished, <<"1", "2">>},
        fs \in {<<>>, <<Kind("CM")>>}, phone \in {<<>>, <<"2", "2", "2">>},
        <<mode, prefix>> \in {<<"node", <<>>>>, <<"all", <<>>>>}
                             \cup ({"prefix"} \X {<<"1">>, <<"4", "-">>, <<"-">>}), cmOnly \in BOOLEAN, recent \in {{}, {<<"1", "2", "3">>}},
        requests \in UpTo(2, {Request(n, dead) : n \in {0, 1}, dead \in BOOLEAN})}
    \cup {[Run EXCEPT !.mode = "phones", !.phone = <<"2", "2", "2">>, !.recent = recent] :
             recent \in {{}, {<<"2", "2", "2">>}}}
SentRuns ==
    {[Run EXCEPT !.listed = [n \in 1..3 |-> Entry3(n, <<"1", "2", "3">>, <<Kind("CM")>>)], !.line = line,
                 !.remote = remote, !.batchSize = size, !.lost = lost, !.rejected = rejected, !.key = key,
                 !.maxBatch = most] :
        line \in {<<"ok">>, <<"mute">>}, size \in 1..4, lost \in SUBSET {1, 2}, rejected \in {{}, {<<2, 5, 1>>}},
        key \in {"k", "unknown"}, most \in {1, 3},
        remote \in SUBSET {[addr |-> <<2, 5, 1>>, point |-> p] : p \in {"", "0", "7"}}}

(* The requests of the site and of the API.  Reads that come to nothing are    *)
(* at most two of those that a page makes.                                     *)
Read(result, rows) == [result |-> result, rows |-> rows]
Answers == Read("ok", {1})
Misses == {Read("ok", {})} \cup {Read(result, {}) : result \in {"cancelled", "deadline", "failed"}}
FiveReads == {r \in [1..5 -> Misses \cup {Answers}] : Cardinality({i \in 1..5 : r[i] # Answers}) <= 2}
NumberPages ==
    {"ipv6", "aka-mismatch", "other-networks", "modem-no-answer", "ipv6-weekly-news", "pstn", "geo", "on-this-day",
     "domain-nodes"}
SubjectPages ==
    {"other-network-nodes", "ipv6-node-list", "geo-country", "geo-provider", "pioneers", "flag", "network"}
OtherPages ==
    {"binkp", "telnet", "ftp", "vmodem-unavailable", "modem-accessible", "file-requests", "email",
     "domain-expiration", "registrars", "stats"}
Asking(pages) ==
    [page : pages, method : {"POST"}, days : {Web!Absent}, limit : {Web!Absent}, subject : {"", "bad", "text", "x"},
     query : {"", "fsxnet"}, form : {""}, cookie : {"tqwnet"}]
WebCalls ==
    [op : {"WebPage"}, reads : {[i \in 1..5 |-> Answers]},
     request : [page : NumberPages, method : {"GET"}, days : {Web!Absent, Web!Unreadable, 0, 1, 90, 365, 366, 730},
                limit : {Web!Absent, Web!Unreadable, -1, 0, 1, 1000, 1001, 10001}, subject : {""}, query : {"", "any"},
                form : {"", "fsxnet"}, cookie : {"tqwnet", "any"}]]
    \cup [op : {"WebPage"}, reads : FiveReads, request : Asking(SubjectPages)]
    \cup [op : {"WebPage"}, reads : FiveReads,
          request : {r \in Asking(NumberPages \cup OtherPages) : r.subject = ""}]

TableRow(zone, speed, tx, text) ==
    [zone |-> zone, cm |-> zone = 1, speed |-> speed, tx |-> tx, flags |-> {text, "CM"}, protocol |-> text,
     operator |-> text, attempts |-> tx, disposition |-> text, address |-> zone,
     flag |-> IF text = "" THEN "XA" ELSE text]
TableRows ==
    {TableRow(z, s, t, x) : z \in {1, 2}, s \in {300, 9600, 28800}, t \in {0, 9600}, x \in {"", "XW", "V34"}}
TableCalls == [op : {"WebTables"}, rows : Triples(TableRows), marks : {{}, {2}}]

RegistrarNames ==
    [key : {"a", "b"}, spelling : {1, 2}, tag : BOOLEAN] \cup [key : {""}, spelling : {0}, tag : {FALSE}]
DomainRow(domain, name, nodes, status, expires, found) ==
    [domain |-> domain, registrar |-> name, nodes |-> nodes, status |-> status, expires |-> expires, found |-> found]
LookedUp(domain, nodes) ==
    {DomainRow(domain, name, ns, "ok", 40, TRUE) : name \in RegistrarNames, ns \in nodes}
Expiring(domain) ==
    {DomainRow(domain, [key |-> "a", spelling |-> 1, tag |-> FALSE], {1}, status, expires, found) :
        status \in {"", "ok", "on hold"}, expires \in {Web!Absent, 9, 10, 39, 40}, found \in BOOLEAN}
DomainCalls ==
    [op : {"WebDomains"}, now : {10}, typed : RegistrarNames,
     rows : {{p, q, r} : p \in LookedUp(1, {{1}}), q \in LookedUp(2, {{1}, {2}}), r \in LookedUp(3, {{1, 2}})}]
    \cup [op : {"WebDomains"}, now : {10}, typed : {[key |-> "", spelling |-> 0, tag |-> FALSE]},
          rows : {{p, q} : p \in Expiring(1), q \in Expiring(2)}]

Forms(sysops, texts) ==
    [full : {"", "bad", "node", "point"}, sysop : sysops, system : texts, location : texts,
     zone : {Web!Absent, Web!Unreadable, 2}, net : {Web!Absent, 5}, node : {Web!Absent, 1},
     query : {"", "fsxnet"}, form : {""}, cookie : {"tqwnet"}]
FormCalls ==
    [op : {"SearchForm"}, form : Forms({"", " ", "xy", "xyz"}, {"", " ", "x", "x%y", "xyz"}),
     reads : {[nodes |-> Answers, points |-> Answers]}]
    \cup [op : {"SearchForm"}, form : Forms({"", "xyz"}, {"", "xyz"}),
          reads : [nodes : Misses \cup {Answers}, points : Misses \cup {Answers}]]

Numerals == {Web!Absent, Web!Unreadable, 0, 1}
ApiCalls ==
    [op : {"AskApi"}, read : {Answers},
     request : [endpoint : {"nodes", "points"}, zone : Numerals, node : Numerals, date : Numerals,
                name : {"", "x", "xyz"}, flag : {"", " ", "F"}, source : {"", "F"}, limit : {0, 501},
                offset : {-1, 1}, days : {Web!Absent}, query : {""}]]
    \cup [op : {"AskApi"}, read : {Answers},
          request : [endpoint : {"pstn", "recent-success", "software", "geo-hosting", "sysops", "sysop-nodes"},
                     zone : Numerals, node : {0}, date : {0}, name : {""}, flag : {""}, source : {""},
                     limit : {Web!Absent, Web!Unreadable, 0, 1, 200, 201, 10001}, offset : {-1, 1},
                     days : {Web!Absent, Web!Unreadable, 0, 1, 90, 91, 3650, 3651}, query : {"", "fsxnet"}]]
    \cup [op : {"AskApi"}, read : Misses,
          request : [endpoint : {"nodes", "points", "pstn", "recent-success", "software", "geo-hosting", "sysops",
                                 "sysop-nodes"},
                     zone : {Web!Absent, 2}, node : {0}, date : {0}, name : {""}, flag : {""}, source : {""},
                     limit : {1}, offset : {0}, days : {7}, query : {""}]]

(* One point, in the lists of two networks. *)
OnePoint(domain, source, date, seq, name) ==
    [domain |-> domain, addr |-> 1, source |-> source, date |-> date, seq |-> seq, name |-> name]
PointEntries ==
    {OnePoint(2, s, d, 0, n) : s \in {1, 2, 3}, d \in {1, 2}, n \in {1, 2}}
    \cup {OnePoint(2, 1, 2, 1, n) : n \in {1, 2}} \cup {OnePoint(d, 1, 1, 0, 1) : d \in {1, 3}}
EveryRead == [domains |-> "ok", history |-> "ok", changes |-> "ok"]
AddressRequests == [query : {"", "fidonet", "any"}, form : {""}, cookie : {"fidonet", "fsxnet", "any"}]
AddressCalls ==
    {[op |-> "Address", request |-> q, rows |-> rows, reads |-> EveryRead,
      gate |-> {Pages!Points!Issue(r) : r \in rows} \ half] :
        q \in AddressRequests, half \in {{}, {<<3, 1, 1>>}, {<<2, 1, 2>>}},
        rows \in {S \in Triples(PointEntries) : OneEntry(S)} \cup {{}}}
    \cup [op : {"Address"}, request : AddressRequests, gate : {{<<3, 1, 1>>}}, rows : {{OnePoint(3, 1, 1, 0, 1)}, {}},
          reads : [domains : {"ok", "failed", "cancelled"}, history : {"ok", "failed", "deadline", "cancelled"},
                   changes : {"ok", "failed", "deadline", "cancelled"}]]

AllCalls ==
    <<NodelistCalls, PointlistCalls, DateCalls, FlagCalls,
      SearchCalls, ChangeCalls, ConfigCalls, BrowseIssues, PointCalls,
      FlagReports, NetHistories, OnThisDays, PioneerCalls, StatsCalls, PhoneCalls, EmailCalls,
      HostReportCalls, ModemCalls, CallTimeCalls, TimedRuns, ChoosingRuns, SentRuns,
      WebCalls, TableCalls, DomainCalls, FormCalls, ApiCalls, AddressCalls,
      FirstTests, SecondTests, OldAndNewTests, TwoNodes,
      BrowseCalls, WeeklyCalls, CorpusCalls,
      StreamCalls, TelnetCalls, BinkpCalls, FtpCalls, IfcicoCalls, VModemCalls>>

-----------------------------------------------------------------------------
(* Either a node is tested, or one call is made. *)
MCInit ==
    \/ TestInit /\ Idle(0)
    \/ /\ flags = {} /\ ino4 = FALSE /\ hostnames = 0 /\ host = None /\ todo = <<>>
       /\ current = None /\ results = <<>> /\ row = None /\ reached = {}
       /\ \E f \in DOMAIN Calls : Idle(f)

MCNext ==
    \/ group = 0 /\ TestNext /\ UNCHANGED machine
    \/ Call /\ UNCHANGED testVars

MCSpec == MCInit /\ [][MCNext]_<<testVars, machine>>
=============================================================================
