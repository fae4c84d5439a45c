----------------------------- MODULE WebQueries -----------------------------
(***************************************************************************)
(* What is typed into the search form, asked of the API, and shown about   *)
(* one address: how it becomes a query of the storage, and what is made of *)
(* the answer.                                                             *)
(*                                                                         *)
(* A text is one of a few that the code tells apart: nothing, a blank, one *)
(* letter, two bytes, two characters around a wildcard, three letters.     *)
(* Criteria are the conditions of a query; what is Absent or Nothing is none. *)
(***************************************************************************)
EXTENDS Integers, Sequences, FiniteSets, SequencesExt, FiniteSetsExt

Web == INSTANCE WebPages
Absent == Web!Absent
Nothing == Web!Nothing

IsNumber(v) == v >= 0
Blank(text) == text \in {Nothing, " "}
TwoLong(text) == text \in {"xy", "x%y", "xyz"}
PointTextTermIndexable(text) == text = "xyz"   \* three characters in a row

NoCriteria == [zone |-> Absent, net |-> Absent, node |-> Absent, system |-> Nothing,
               location |-> Nothing, sysop |-> Nothing, domain |-> Nothing]
NoSearch == [NoCriteria EXCEPT !.domain = "refused"]

OrNot(v) == IF IsNumber(v) THEN v ELSE Absent
Narrowed(c) ==
    \/ IsNumber(c.zone) \/ IsNumber(c.net)
    \/ c.system # Nothing \/ c.location # Nothing \/ c.sysop # Nothing

-----------------------------------------------------------------------------
(* The search form.  An address typed whole is a node's or a point's. *)
ParsedAddress(f) == [zone |-> 2, net |-> 5, node |-> 1, point |-> f.full = "point"]

AddressCriteria(f) ==   \* in all networks, if the request names none
    LET a == ParsedAddress(f)
    IN [NoCriteria EXCEPT !.zone = a.zone, !.net = a.net, !.node = a.node, !.domain = Web!ExplicitDomain(f)]

BuildNodeFilterFromForm(f) ==
    LET Text(t) == IF TwoLong(t) THEN t ELSE Nothing
        c == [NoCriteria EXCEPT !.zone = OrNot(f.zone), !.net = OrNot(f.net), !.node = OrNot(f.node),
                 !.system = Text(f.system), !.location = Text(f.location), !.domain = Web!RequestDomain(f)]
    IN IF Narrowed(c) THEN c ELSE NoSearch

BuildPointFilterFromForm(f) ==
    LET texts == {f.system, f.location}
        Text(t) == IF Blank(t) THEN Nothing ELSE t
        c == [NoCriteria EXCEPT !.zone = OrNot(f.zone), !.net = OrNot(f.net), !.node = OrNot(f.node),
                 !.system = Text(f.system), !.location = Text(f.location), !.domain = Web!RequestDomain(f)]
    IN CASE ~Blank(f.sysop) ->
              IF PointTextTermIndexable(f.sysop)
              THEN [NoCriteria EXCEPT !.sysop = f.sysop, !.domain = Web!RequestDomain(f)] ELSE NoSearch
         [] Blank(f.sysop) /\ f.full # Nothing ->
              IF f.full = "bad" THEN NoSearch ELSE AddressCriteria(f)
         [] OTHER ->
              IF Narrowed(c) /\ \A t \in texts : Blank(t) \/ PointTextTermIndexable(t) THEN c ELSE NoSearch

PerformNodeSearch(f) ==
    CASE f.full = "bad"             -> NoSearch
      [] f.full = "node"            -> AddressCriteria(f)
      [] OTHER                      -> BuildNodeFilterFromForm(f)

(* s has what becomes of the search of the nodes and of that of the points. *)
SearchHandler(f, s) ==
    LET nodes == IF f.sysop # Nothing
                 THEN [NoCriteria EXCEPT !.sysop = f.sysop, !.domain = Web!RequestDomain(f)]
                 ELSE PerformNodeSearch(f)
        failed == nodes = NoSearch \/ s.nodes.result # "ok"
        points == IF failed THEN NoSearch ELSE BuildPointFilterFromForm(f)
        gone == \/ nodes # NoSearch /\ s.nodes.result = "cancelled"
                \/ points # NoSearch /\ s.points.result = "cancelled"
        page == [status |-> 200, error |-> failed, nodesBy |-> nodes, pointsBy |-> points, to |-> Nothing,
                 nodes |-> IF failed THEN {} ELSE s.nodes.rows,
                 points |-> IF points = NoSearch THEN {} ELSE Web!Rows(s.points)]
    IN CASE f.full = "point" ->
              [page EXCEPT !.status = 303, !.error = FALSE, !.nodesBy = NoSearch, !.pointsBy = NoSearch,
                           !.to = Web!ExplicitDomain(f), !.nodes = {}, !.points = {}]
         [] f.full # "point" /\ gone -> [page EXCEPT !.status = 0, !.nodes = {}, !.points = {}]
         [] OTHER -> page

(* A search is for something: never for a bare number of a node, in every net. *)
(* The section of the points answers the question that the section of the      *)
(* nodes does, in the same networks, which are all for an address typed whole, *)
(* and no other text that was typed is dropped from it.  A blank in place of a *)
(* sysop's name is dropped: the nodes are searched for it, and the points for  *)
(* the rest of the form.  A failed search of the nodes is shown as an error, a *)
(* failed search of the points as an empty section; both answer 200, also if   *)
(* the time ran out.                                                           *)
SearchTold(f, s, a) ==
    LET searched == a.pointsBy # NoSearch
        typed == {t \in {f.system, f.location} : ~Blank(t)}
    IN /\ a.nodesBy # NoSearch => Narrowed(a.nodesBy)
       /\ searched => /\ a.nodesBy # NoSearch /\ s.nodes.result = "ok" /\ Narrowed(a.pointsBy)
                      /\ f.sysop # " " => a.pointsBy = a.nodesBy
                      /\ f.full = Nothing /\ Blank(f.sysop) => typed = {a.pointsBy.system, a.pointsBy.location} \ {Nothing}
       /\ a.status = 0 => s.nodes.result = "cancelled" \/ s.points.result = "cancelled"
       /\ s.nodes.result = "cancelled" /\ a.nodesBy # NoSearch => a.status = 0
       /\ a.status = 200 /\ ~a.error => s.nodes.result = "ok" /\ a.nodes = s.nodes.rows
       /\ f.sysop = " " /\ a.nodesBy # NoSearch => a.nodesBy.sysop = " " /\ a.pointsBy.sysop = Nothing
       /\ a.nodesBy # NoSearch /\ s.nodes.result \in {"deadline", "failed"} => a.status = 200 /\ a.error
       /\ searched /\ s.points.result \in {"deadline", "failed"} => a.status = 200 /\ ~a.error /\ a.points = {}
       /\ searched /\ s.points.result = "ok" => a.points = s.points.rows
       /\ f.full = "node" /\ f.sysop = Nothing => a.nodesBy.domain = Web!ExplicitDomain(f)
       /\ a.status = 303 => a.to \in {f.query, f.form}

-----------------------------------------------------------------------------
(* The parameters of the API: what is malformed is refused, not dropped. *)
ParseIntParam(v) == [error |-> v = Web!Unreadable, value |-> OrNot(v)]
ParseStringParam(text) == [error |-> text # Nothing /\ ~TwoLong(text), value |-> IF TwoLong(text) THEN text ELSE Nothing]
ParseDateParam(v) == ParseIntParam(v)
ParseDaysParam(v, default) == IF v <= 0 THEN default ELSE IF v > 3650 THEN 3650 ELSE v

ParsePaginationParams(q, default, most) ==
    [limit |-> Web!ParseLimit(q.limit, default, most), offset |-> IF IsNumber(q.offset) THEN q.offset ELSE 0]

(* Of the numbers, dates, texts and options of a query each kind has one here. *)
ParseFilter(q, option) ==
    LET zone == ParseIntParam(q.zone)  node == ParseIntParam(q.node)  date == ParseDateParam(q.date)
        name == ParseStringParam(q.name)
    IN [error |-> zone.error \/ node.error \/ date.error \/ name.error,
        narrowed |-> \/ IsNumber(zone.value) \/ IsNumber(node.value) \/ IsNumber(date.value)
                     \/ name.value # Nothing \/ option,
        by |-> [zone |-> zone.value, node |-> node.value, date |-> date.value, name |-> name.value,
                domain |-> q.query, page |-> ParsePaginationParams(q, 100, 500)]]
ParseNodeFilter(q) == ParseFilter(q, q.flag # Nothing)   \* a blank is a no
ParsePointFilter(q) == ParseFilter(q, ~Blank(q.source))

NotAsked == [asked |-> FALSE]
NoReply == [status |-> 0, by |-> NotAsked, shown |-> {}]
Complaint == [NoReply EXCEPT !.status = 400]
WriteStorageMessage(result) ==
    IF result = "cancelled" THEN NoReply ELSE [NoReply EXCEPT !.status = Web!HttpStatusFor(result)]
Reply(read, by) ==
    IF read.result # "ok" THEN [WriteStorageMessage(read.result) EXCEPT !.by = by]
    ELSE [status |-> 200, by |-> by, shown |-> read.rows]

SearchNodes(q, read) ==
    LET f == ParseNodeFilter(q) IN IF f.error \/ ~f.narrowed THEN Complaint ELSE Reply(read, f.by)
SearchPoints(q, read) ==
    LET f == ParsePointFilter(q) IN IF f.error \/ ~f.narrowed THEN Complaint ELSE Reply(read, f.by)

DomainOrDefault(q) == IF q.query # Nothing THEN q.query ELSE Web!Fidonet
PSTNNodes(q, read) ==
    LET limit == IF q.limit = Absent THEN 5000 ELSE Web!ParseLimit(q.limit, 5000, 10000)
    IN IF q.zone = Web!Unreadable \/ (q.limit # Absent /\ q.limit < 1) THEN Complaint
       ELSE Reply(read, [zone |-> OrNot(q.zone), domain |-> DomainOrDefault(q), page |-> [limit |-> limit, offset |-> 0]])

RecentModemSuccess(q, read) ==
    IF q.days # Absent /\ q.days \notin 1..90 THEN Complaint
    ELSE Reply(read, [days |-> IF q.days = Absent THEN 7 ELSE q.days])
SoftwareStats(q, read) == Reply(read, [days |-> ParseDaysParam(q.days, 365), domain |-> q.query])
GeoHostingStats(q, read) == SoftwareStats(q, read)
Sysops(q, read) == Reply(read, [page |-> ParsePaginationParams(q, 50, 200)])
SysopNodes(q, read) == Reply(read, [page |-> [ParsePaginationParams(q, 100, 1000) EXCEPT !.offset = 0]])

Ask(q, read) ==
    CASE q.endpoint = "nodes"  -> SearchNodes(q, read)
      [] q.endpoint = "points" -> SearchPoints(q, read)
      [] q.endpoint = "pstn"   -> PSTNNodes(q, read)
      [] q.endpoint = "recent-success" -> RecentModemSuccess(q, read)
      [] q.endpoint = "software"    -> SoftwareStats(q, read)
      [] q.endpoint = "geo-hosting" -> GeoHostingStats(q, read)
      [] q.endpoint = "sysops"      -> Sysops(q, read)
      [] q.endpoint = "sysop-nodes" -> SysopNodes(q, read)

(* A search that names something the API cannot read is refused, and never     *)
(* widened by leaving it out; nobody asks for more rows or days than the       *)
(* endpoint allows; and the status says whether what is shown is the answer.   *)
AskTold(q, read, a) ==
    LET asked == a.by # NotAsked
        search == q.endpoint \in {"nodes", "points"}
        given == {p \in {"zone", "node", "date"} : q[p] # Absent}
    IN /\ ~asked <=> a.status = 400
       /\ asked /\ search =>
             /\ \A p \in given : a.by[p] = q[p] /\ IsNumber(q[p])
             /\ q.name \in {Nothing, a.by.name}
             /\ given # {} \/ ~Blank(q.name) \/ (IF q.endpoint = "nodes" THEN q.flag # Nothing ELSE ~Blank(q.source))
       /\ asked /\ "page" \in DOMAIN a.by =>
             /\ a.by.page.limit \in 1..(IF search THEN 500 ELSE 10000) /\ a.by.page.offset >= 0
             /\ q.limit \in 1..200 => a.by.page.limit = q.limit
       /\ asked /\ "days" \in DOMAIN a.by =>
             a.by.days \in 1..3650 /\ (q.days \in 1..90 => a.by.days = q.days)
       /\ asked => (a.status = 200) = (read.result = "ok")
       /\ asked => (a.status = 0) = (read.result = "cancelled")
       /\ a.shown = IF a.status = 200 THEN read.rows ELSE {}
=============================================================================
