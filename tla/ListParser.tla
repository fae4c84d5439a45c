----------------------------- MODULE ListParser -----------------------------
(***************************************************************************)
(* How internal/parser reads nodelists and pointlists: what a line means   *)
(* depends on the lines before it, the context.                            *)
(*                                                                         *)
(* A line is a record: its keyword kw; its number num, or Bad if it cannot *)
(* be read; full, whether it has the seven fields of an entry; the address *)
(* addr in the boss field or in the place of the system name, or NoAddr    *)
(* (point is Bad unless the address has four parts); uboss, the address    *)
(* of a UBOSS flag; and date, what a header line says, or NoDate.  A node  *)
(* line has the keyword "".  Letter case, charsets, the text of the fields *)
(* and the 1986 flags are left out.                                        *)
(***************************************************************************)
EXTENDS Integers, Sequences, FiniteSets, SequencesExt, TLC

Bad == -1
NoDate == [year |-> 0, day |-> 0]
At(zone, net, nd, point) == [zone |-> zone, net |-> net, nd |-> nd, point |-> point]
NoAddr == At(Bad, Bad, Bad, Bad)

(* Rows are tracked by their address: a row whose address is there already    *)
(* gets the number of those as its sequence, and all of them a conflict.      *)
NoRows == [rows |-> <<>>, tracker |-> <<>>]

AddRow(t, addr, row) ==
    LET seen == IF addr \in DOMAIN t.tracker THEN t.tracker[addr] ELSE <<>> IN
    [rows |-> Append([i \in DOMAIN t.rows |-> [t.rows[i] EXCEPT !.conflict = @ \/ Contains(seen, i)]],
                     [addr |-> addr, seq |-> Len(seen), conflict |-> seen # <<>>] @@ row),
     tracker |-> (addr :> Append(seen, Len(t.rows) + 1)) @@ t.tracker]

(* Nothing is read from a Ctrl-Z on. *)
Readable(lines) ==
    LET eof == SelectInSeq(lines, LAMBDA l : l.kw = "^Z") IN
    IF eof = 0 THEN lines ELSE SubSeq(lines, 1, eof - 1)

(* Rows at these addresses, numbered as a reader would. *)
Numbered(rows, addrs) ==
    /\ Len(rows) = Len(addrs)
    /\ \A k \in DOMAIN rows :
          /\ rows[k].addr = addrs[k]
          /\ rows[k].seq = Cardinality({j \in 1..(k - 1) : addrs[j] = addrs[k]})
          /\ rows[k].conflict = (\E j \in DOMAIN addrs : j # k /\ addrs[j] = addrs[k])

-----------------------------------------------------------------------------
(* The date of an issue: a year and a day number, which may exceed the year.  *)
DaysInYear(year) ==
    IF (year % 4 = 0 /\ year % 100 # 0) \/ year % 400 = 0 THEN 366 ELSE 365

DaysBefore(year) ==
    LET past == year - 1 IN 365 * past + past \div 4 - past \div 100 + past \div 400

DateOf(year, day) ==
    LET days == DaysBefore(year) + day
        off == (IF day < 0 THEN -day ELSE day) \div 365 + 1
        it == CHOOSE y \in (year - off)..(year + off) :
                  DaysBefore(y) < days /\ days <= DaysBefore(y + 1)
    IN [year |-> it, day |-> days - DaysBefore(it)]

(* extractDateFromLine: a header has a calendar day, with or without a year,  *)
(* and a day number, or only the number (0: not there). *)
HeaderDate(h) ==
    LET year == IF h.year = 0 THEN 1989 ELSE h.year IN
    CASE h.day # 0    -> DateOf(year, h.day)
      [] h.number # 0 -> DateOf(year, h.number)
      [] OTHER        -> NoDate

(* extractDateFromFile: the form of the file name, then the header. *)
NodelistDate(f) ==
    CASE f.form = "nodelist.ddd"      -> DateOf(IF f.pathYear = 0 THEN 1989 ELSE f.pathYear, f.day)
      [] f.form = "zN-ddd.yy"         -> DateOf((IF f.yy < 50 THEN 2000 ELSE 1900) + f.yy, f.day)
      [] f.form = "nodelist-yyyy-ddd" -> DateOf(f.year, f.day)
      [] f.form = ".ddd"              -> DateOf(IF f.pathYear = 0 THEN f.now ELSE f.pathYear, f.day)
      [] OTHER                        -> HeaderDate(f.header)

(* dateFromYearDay: day 366 of a year that has none is of the year before. *)
DateFromYearDay(year, day) ==
    IF day > DaysInYear(year) /\ day <= DaysInYear(year - 1) THEN DateOf(year - 1, day)
    ELSE DateOf(year, day)

(* resolveDate: the day of the file name beats the header. *)
PointlistDate(f) ==
    CASE f.day > 0 /\ f.pathYear > 0 ->
            [number |-> f.day, date |-> DateFromYearDay(f.pathYear, f.day)]
      [] ~(f.day > 0 /\ f.pathYear > 0) /\ f.header.number > 0 /\ f.pathYear > 0 ->
            [number |-> f.header.number, date |-> DateFromYearDay(f.pathYear, f.header.number)]
      [] OTHER -> [date |-> HeaderDate(f.header),
                   number |-> HeaderDate(f.header).day]

(* An issue is dated by its day number: a nodelist in its year, a pointlist in *)
(* the year of its archive or the one before, whenever one of them has such a *)
(* day. [extractDateFromFile, resolveDate, dateFromYearDay]                   *)
DatedByItsNumber(f, r) ==
  /\ f.form # "other" /\ f.day \in 1..365 => NodelistDate(f).day = f.day
  /\ f.pathYear > 0 /\ r.number \in 1..366 /\ (f.day > 0 \/ f.header.number > 0) =>
          /\ r.number = IF f.day > 0 THEN f.day ELSE f.header.number
          /\ (\E y \in {f.pathYear - 1, f.pathYear} : r.number <= DaysInYear(y)) =>
                r.date.day = r.number /\ r.date.year \in {f.pathYear - 1, f.pathYear}

-----------------------------------------------------------------------------
(* The nodelist.  A Parser is used for one file after the other: its context  *)
(* and its tracker stay, and are reset when a file is opened.                 *)
NodeKeywords == {"", "Zone", "Region", "Host", "Hub", "Pvt", "Hold", "Down"}

NewParser == [zone |-> 1, net |-> 1, region |-> Bad, t |-> NoRows]

OpenFile(p, year) ==
    [NewParser EXCEPT !.zone = IF year >= 1987 THEN 2 ELSE 1, !.net = IF year >= 1987 THEN 2 ELSE 1]

(* The context after a Zone, Region or Host line; a new zone keeps the region.*)
Moved(p, l) ==
    CASE l.kw = "Zone"   -> [p EXCEPT !.zone = l.num, !.net = l.num]
      [] l.kw = "Region" -> [p EXCEPT !.net = l.num, !.region = l.num]
      [] l.kw = "Host"   -> [p EXCEPT !.net = l.num]
      [] OTHER           -> p

Parsable(l) == l.full /\ l.kw \in NodeKeywords /\ l.num # Bad

(* A node or coordinator line; one that cannot be parsed changes nothing. *)
ReadNode(s, l) ==
    LET p == Moved(s.p, l)
        addr == [zone |-> p.zone, net |-> p.net, point |-> Bad,
                 nd |-> IF l.kw \in {"Zone", "Region", "Host"} THEN 0 ELSE l.num]
    IN IF ~Parsable(l) THEN s
       ELSE [s EXCEPT !.p = [p EXCEPT !.t = AddRow(@, addr, [region |-> p.region, date |-> s.date])]]

(* An inline point, of the last node that could be parsed. *)
ReadInlinePoint(s, l) ==
    IF s.p.t.rows = <<>> \/ ~l.full \/ l.num = Bad THEN s
    ELSE LET boss == Last(s.p.t.rows).addr IN
         [s EXCEPT !.points = AddRow(@, [boss EXCEPT !.point = l.num], <<>>)]

ReadLine(s, l) ==
    CASE l.kw = ";A" -> [s EXCEPT !.date = IF @ = NoDate THEN l.date ELSE @]
      [] l.kw \in {";", "blank"} -> s
      [] l.kw = "Point" /\ s.collect -> ReadInlinePoint(s, l)
      [] OTHER -> ReadNode(s, l)

(* ParseFileWithCRC: the parser afterwards, the nodes with the date read so   *)
(* far, the inline points with that of the issue.                             *)
ParseFile(parser, f) ==
    LET end == FoldLeft(ReadLine,
                    [p |-> OpenFile(parser, f.year), points |-> NoRows, date |-> NoDate,
                     collect |-> f.collect],
                    Readable(f.lines))
        issue == IF end.date = NoDate THEN NodelistDate(f.name) ELSE end.date
    IN [parser |-> end.p, nodes |-> end.p.t.rows, date |-> issue,
        points |-> [i \in DOMAIN end.points.rows |-> [date |-> issue] @@ end.points.rows[i]]]

(* What is read agrees with what the lines say, whatever the parser has read  *)
(* before: a node has the zone of the last readable Zone line above it, the   *)
(* net of the last Zone, Region or Host line and the region of the last       *)
(* Region line; among the rows of its address it has the number of those      *)
(* above it, and a conflict unless it is the only one.  An inline point       *)
(* belongs to the last node line above it that could be read.  That is the    *)
(* line immediately above, as parseFileContent says ("attach to the           *)
(* immediately preceding node"), unless that one is unreadable: the point of  *)
(* a node that is lost then passes to the node before it.                     *)
(* [parseFileContent, parseLine, trackDuplicates]                             *)
ReadAsWritten(f, r) ==
    LET lines == Readable(f.lines)
        start == IF f.year >= 1987 THEN 2 ELSE 1
        Above(i, kws) == SelectLastInSubSeq(lines, 1, i, LAMBDA l : Parsable(l) /\ l.kw \in kws)
        NumAbove(i, kws, default) ==
            IF Above(i, kws) = 0 THEN default ELSE lines[Above(i, kws)].num
        NodeAt(i) ==
            At(NumAbove(i, {"Zone"}, start), NumAbove(i, {"Zone", "Region", "Host"}, start),
                IF lines[i].kw \in {"Zone", "Region", "Host"} THEN 0 ELSE lines[i].num, Bad)
        IsNode(i) == Parsable(lines[i])
        nodes == SelectSeq([i \in DOMAIN lines |-> i], IsNode)
        IsPoint(i) == f.collect /\ lines[i].kw = "Point" /\ lines[i].full /\ lines[i].num # Bad
                      /\ Above(i, NodeKeywords) # 0
        points == SelectSeq([i \in DOMAIN lines |-> i], IsPoint)
        PointAt(i) == [NodeAt(Above(i, NodeKeywords)) EXCEPT !.point = lines[i].num]
    IN /\ Numbered(r.nodes, [k \in DOMAIN nodes |-> NodeAt(nodes[k])])
       /\ \A k \in DOMAIN nodes : r.nodes[k].region = NumAbove(nodes[k], {"Region"}, Bad)
       /\ Numbered(r.points, [k \in DOMAIN points |-> PointAt(points[k])])
       /\ \A k \in DOMAIN r.points : r.points[k].date = r.date
-----------------------------------------------------------------------------
(* Pointlists: the boss of a point line is what the lines above it say, and   *)
(* each of the three families says it in its own way.  s.have: there is one.  *)
PointKeywords == {"", "Point", "Pvt", "Down", "Hold"}

Entries(lines) == SelectSeq(Readable(lines), LAMBDA l : l.kw \notin {";A", ";", "blank"})

(* parseBossAddress, and parse in resolveFakenetBoss *)
Located(addr, zone) ==
    At(IF addr.zone = Bad THEN zone ELSE addr.zone, addr.net, addr.nd, Bad)

PointLineOK(l) == l.full /\ l.num # Bad

Skip(s) == [s EXCEPT !.skipped = @ + 1]
Detach(s) == [s EXCEPT !.have = FALSE]
Emit(s, addr) == [s EXCEPT !.points = AddRow(@, addr, <<>>)]
EmitUnder(s, l) ==
    IF s.have /\ PointLineOK(l) THEN Emit(s, [s.boss EXCEPT !.point = l.num]) ELSE Skip(s)

(* parseBossFamily *)
ReadBossKept(s, l) ==    \* faulty variant: an unreadable Boss line leaves the last boss in place
    IF l.addr = NoAddr THEN Skip(s)
    ELSE [s EXCEPT !.boss = Located(l.addr, s.zone), !.have = TRUE, !.bosses = @ + 1]
ReadBoss(s, l) ==
    IF l.addr = NoAddr THEN Skip(Detach(s))
    ELSE [s EXCEPT !.boss = Located(l.addr, s.zone), !.have = TRUE, !.bosses = @ + 1]

BossFamilyLine(s, l) ==
    CASE l.kw = "Boss"            -> ReadBoss(s, l)
      [] l.kw \in PointKeywords -> EmitUnder(s, l)
      [] OTHER                    -> Skip(s)

(* parseCombinedFormat: node lines are context only. *)
CombinedLine(s, l) ==
    CASE l.kw = "Zone" /\ l.num # Bad ->
            [s EXCEPT !.zone = l.num, !.boss = At(l.num, l.num, 0, Bad), !.have = TRUE]
      [] l.kw \in {"Region", "Host"} /\ l.num # Bad ->
            [s EXCEPT !.boss = At(s.zone, l.num, 0, Bad), !.have = TRUE]
      [] l.kw \in {"", "Hub", "Pvt", "Down", "Hold"} /\ l.num # Bad /\ s.have ->
            [s EXCEPT !.boss.nd = l.num]
      [] l.kw = "Point"            -> EmitUnder(s, l)
      [] l.kw \in NodeKeywords    -> Skip(Detach(s))
      [] OTHER                     -> Skip(s)

(* resolveFakenetBoss: the system name, or else the UBOSS flag. *)
FakenetBoss(l) == IF l.addr # NoAddr THEN l.addr ELSE l.uboss

(* parseFakenetFormat *)
FakenetBlock(s, l) ==
    IF FakenetBoss(l) # NoAddr
    THEN [s EXCEPT !.boss = Located(FakenetBoss(l), s.zone), !.have = TRUE, !.bosses = @ + 1]
    ELSE IF l.kw = "Hub" THEN Detach(s) ELSE Skip(Detach(s))

(* parseLeaf4DSysname: a leaf that carries its own address. *)
FakenetLeaf(s, l) ==
    IF PointLineOK(l) /\ l.addr.point # Bad
    THEN Emit(s, [Located(l.addr, s.zone) EXCEPT !.point = l.addr.point])
    ELSE EmitUnder(s, l)

FakenetLine(s, l) ==
    CASE l.kw = "Zone"            -> [Detach(s) EXCEPT !.zone = IF l.num > 0 THEN l.num ELSE @]
      [] l.kw = "Region"          -> Detach(s)
      [] l.kw \in {"Hub", "Host"} -> FakenetBlock(s, l)
      [] l.kw \in PointKeywords   -> FakenetLeaf(s, l)
      [] OTHER                    -> Skip(s)

(* detectPointlistFormat, over the whole file; "none" is an error. *)
DetectFormat(lines) ==
    LET Has(kws) == \E i \in DOMAIN lines : lines[i].kw \in kws
        Signal(l) == \/ l.kw \in {"Host", "Hub"} /\ FakenetBoss(l) # NoAddr
                     \/ l.kw \in {"", "Pvt"} /\ l.addr.point # Bad
    IN CASE Has({"Boss"}) -> IF Has({""}) THEN "boss"
                             ELSE IF Has({"Point"}) THEN "poss"
                             ELSE IF Has({"Pvt"}) THEN "pvt" ELSE "boss"
         [] ~Has({"Boss", "Host", "Hub", "Zone", "Region"}) -> "none"
         [] \E i \in DOMAIN lines : Signal(lines[i]) -> "fakenet"
         [] Has({"Point"}) -> "point"
         [] OTHER -> "none"

Family(format) ==
    CASE format \in {"boss", "poss", "pvt"} -> "boss"
      [] OTHER -> format

(* PointlistParser.ParseFile *)
ParsePointlist(f) ==
    LET lines == Entries(f.lines)
        format == IF f.format = "auto" THEN DetectFormat(lines) ELSE f.format
        Read(s, l) == CASE Family(format) = "boss"  -> BossFamilyLine(s, l)
                        [] Family(format) = "point" -> CombinedLine(s, l)
                        [] OTHER                    -> FakenetLine(s, l)
        end == FoldLeft(Read,
                   [zone |-> f.zone, boss |-> NoAddr, have |-> FALSE, bosses |-> 0, skipped |-> 0,
                    points |-> NoRows], lines)
    IN IF format = "none" THEN [format |-> "none"]
       ELSE [format |-> format, points |-> end.points.rows, skipped |-> end.skipped,
             bosses |-> IF format = "point"
                        THEN Cardinality({[end.points.rows[i].addr EXCEPT !.point = Bad] :
                                             i \in DOMAIN end.points.rows})
                        ELSE end.bosses]

(* Whose points stand at line i: in the boss family, the address of the Boss  *)
(* line above; in a combined list, the node above, in the net and zone above  *)
(* it; in a fakenet, the address named by the Host or Hub above.  NoAddr if   *)
(* that line cannot be read: a point is never given to the one before it.     *)
BossAt(family, lines, i, zone) ==
    LET Above(j, kws) == SelectLastInSubSeq(lines, 1, j, LAMBDA l : l.kw \in kws)
        ZoneAbove(j) == LET z == SelectLastInSubSeq(lines, 1, j, LAMBDA l : l.kw = "Zone" /\ l.num # Bad)
                        IN IF z = 0 THEN zone ELSE lines[z].num
        block == Above(i, CASE family = "boss"  -> {"Boss"}
                            [] family = "point" -> {"Zone", "Region", "Host"}
                            [] OTHER            -> {"Zone", "Region", "Host", "Hub"})
        below == {j \in (block + 1)..(i - 1) : lines[j].kw \in {"", "Hub", "Pvt", "Down", "Hold"}}
        nd == IF below = {} THEN 0 ELSE lines[CHOOSE j \in below : \A k \in below : k <= j].num
        named == IF family = "boss" THEN lines[block].addr
                 ELSE IF lines[block].kw \in {"Host", "Hub"} THEN FakenetBoss(lines[block]) ELSE NoAddr
    IN CASE block = 0 -> NoAddr
         [] block # 0 /\ family = "point" ->
                IF lines[block].num = Bad \/ \E j \in below : lines[j].num = Bad THEN NoAddr
                ELSE At(ZoneAbove(i), lines[block].num, nd, Bad)
         [] OTHER -> IF named = NoAddr THEN NoAddr
                     ELSE Located(named, IF family = "boss" THEN zone ELSE ZoneAbove(i))

(* Every point line that can be read becomes a point of the boss it stands    *)
(* under, or of the address it carries itself, and no other line does.        *)
(* [parseBossFamily, parseCombinedFormat, parseFakenetFormat]                 *)
PointsUnderTheirBoss(f, r) ==
    LET lines == Entries(f.lines)
        family == Family(r.format)
        Own(l) == family = "fakenet" /\ l.addr.point # Bad
        IsPoint(i) == /\ lines[i].kw \in IF family = "point" THEN {"Point"} ELSE PointKeywords
                      /\ PointLineOK(lines[i])
                      /\ Own(lines[i]) \/ BossAt(family, lines, i, f.zone) # NoAddr
        points == SelectSeq([i \in DOMAIN lines |-> i], IsPoint)
        Zone(i) == LET z == SelectLastInSubSeq(lines, 1, i, LAMBDA l : l.kw = "Zone" /\ l.num # Bad)
                   IN IF z = 0 THEN f.zone ELSE lines[z].num
        PointAt(i) == IF Own(lines[i])
                      THEN [Located(lines[i].addr, Zone(i)) EXCEPT !.point = lines[i].addr.point]
                      ELSE [BossAt(family, lines, i, f.zone) EXCEPT !.point = lines[i].num]
    IN r.format # "none" => Numbered(r.points, [k \in DOMAIN points |-> PointAt(points[k])])
-----------------------------------------------------------------------------
(* The flags of a node.  A flag is a name, whether a colon follows, and the   *)
(* value after it: a host ("" if there is none) and a port (0: none), or a    *)
(* host in brackets.                                                          *)
Connection == {"IBN", "IFC", "ITN", "IVM", "IFT", "IP"}
EmailFlags == {"IMI", "ITX", "ISE", "IUC", "EMA", "EVY"}

DefaultPort(name) ==
    CASE name = "IBN" -> 24554 [] name = "ITN" -> 23 [] name = "IFC" -> 60179
      [] name = "IFT" -> 21 [] OTHER -> 0

Text(host, port) == [host |-> host, port |-> port]
NoText == Text("", 0)

(* parseProtocolValue: what is no port number belongs to the address, except  *)
(* behind a bracket, where it is dropped. *)
ParseProtocolValue(v) ==
    CASE v.port \in 1..65535 -> [addr |-> Text(v.host, 0), port |-> v.port]
      [] v.port \notin 1..65535 /\ v.brackets -> [addr |-> Text(v.host, 0), port |-> 0]
      [] OTHER -> [addr |-> Text(v.host, v.port), port |-> 0]

NoConfig == [flags |-> <<>>, protocols |-> <<>>, defaults |-> <<>>, email |-> <<>>, info |-> <<>>]

(* addProtocolDetail *)
AddProtocol(c, name, v) ==
    LET d == ParseProtocolValue(v) IN
    IF d.addr = NoText /\ d.port = 0 THEN c
    ELSE [c EXCEPT !.protocols = Append(@, [name |-> name, addr |-> d.addr,
             port |-> IF d.port > 0 THEN d.port ELSE DefaultPort(name)])]

AddDefault(c, name, v) ==
    IF Text(v.host, v.port) = NoText \/ Contains(c.defaults, <<name, Text(v.host, v.port)>>) THEN c
    ELSE [c EXCEPT !.defaults = Append(@, <<name, Text(v.host, v.port)>>)]

AddEmail(c, name, v) == [c EXCEPT !.email = Append(@, <<name, Text(v.host, v.port)>>)]

(* parseFlagWithValue *)
FlagWithValue(c, part) ==
    CASE part.name \in Connection -> AddProtocol(c, part.name, part.value)
      [] part.name = "INA"        -> AddDefault(c, "INA", part.value)
      [] part.name = "IEM" /\ Text(part.value.host, part.value.port) # NoText ->
            AddDefault(c, "IEM", part.value)
      [] part.name \in EmailFlags \cup {"IEM"} -> AddEmail(c, part.name, part.value)
      [] OTHER -> [c EXCEPT !.flags = Append(@, part)]

Alias(name) == CASE name = "BND" -> "IBN" [] name = "TEL" -> "ITN" [] OTHER -> name

(* parseFlagWithoutValue *)
FlagWithoutValue(c, part) ==
    CASE Alias(part.name) \in Connection \cup {"INA"} ->
            [c EXCEPT !.protocols = Append(@, [name |-> Alias(part.name), addr |-> NoText,
                                               port |-> DefaultPort(Alias(part.name))])]
      [] part.name \in EmailFlags \cup {"IEM"} -> AddEmail(c, part.name, [host |-> "", port |-> 0])
      [] part.name \in {"INO4", "ICM"} -> [c EXCEPT !.info = Append(@, part.name)]
      [] OTHER -> [c EXCEPT !.flags = Append(@, part)]

ParseFlags(parts) ==
    FoldLeft(LAMBDA c, part : IF part.colon THEN FlagWithValue(c, part) ELSE FlagWithoutValue(c, part),
             NoConfig, parts)

HasInet(c) == [c EXCEPT !.flags = <<>>] # NoConfig

(* No host or port that a line names is lost, whichever flag names it: each   *)
(* is found under its flag, or verbatim among the others; every mailer that   *)
(* is named without one has the port it listens at by default; and a line has *)
(* internet flags exactly when it names a host, a mailer or a mail method.    *)
(* [parseFlagsWithConfig]                                                     *)
NothingLost(parts, c) ==
    /\ \A i \in DOMAIN parts :
          LET v == parts[i].value
              named == v.host # "" \/ v.port # 0
          IN parts[i].colon /\ named =>
             \/ \E d \in ToSet(c.protocols) :
                    /\ d.name = parts[i].name /\ d.addr.host = v.host
                    /\ v.port \in 1..65535 => d.port = v.port
             \/ <<parts[i].name, Text(v.host, v.port)>> \in ToSet(c.defaults) \cup ToSet(c.email)
             \/ Contains(c.flags, parts[i])
    /\ \A d \in ToSet(c.protocols) :
          /\ d.port \in 0..65535
          /\ d.name \in {"IBN", "ITN", "IFC", "IFT"} => d.port # 0
    /\ HasInet(c) = \E i \in DOMAIN parts :
          /\ parts[i].name \in Connection \cup EmailFlags
                                \cup {"INA", "IEM", "BND", "TEL", "INO4", "ICM"}
          /\ parts[i].colon => /\ parts[i].name \notin {"BND", "TEL", "INO4", "ICM"}
                               /\ \/ parts[i].name \in EmailFlags \cup {"IEM"}
                                  \/ parts[i].value.host # "" \/ parts[i].value.port # 0
=============================================================================
