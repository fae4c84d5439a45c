---------------------------- MODULE PointQueries ----------------------------
(***************************************************************************)
(* What the storage layer answers about points.  A row is the entry of an  *)
(* address in an issue of one source of a network; gate is the set of the  *)
(* issues that are imported as a whole.  Sources overlap: of two that list *)
(* the same address the one of the lower priority number is believed.      *)
(*                                                                         *)
(* Networks, addresses, sources, names and dates are numbers; a field of a *)
(* filter that is 0 is not set, and network 0 stands for all of them.  Of   *)
(* rows that are ranked alike any may be taken.                            *)
(***************************************************************************)
EXTENDS Integers, Sequences, FiniteSets, SequencesExt, FiniteSetsExt, TLC

Nodes == INSTANCE NodeQueries

StalenessDays == 2   \* scaled: 60 in the code

Priority(source) == source \div 2   \* sources 2 and 3 are as authoritative as each other

Address(r) == <<r.domain, r.addr>>
Issue(r) == <<r.domain, r.source, r.date>>
OfDomain(S, domain) == {i \in S : domain = 0 \/ i[1] = domain}

LatestPointlistDate(gate, domain) == Nodes!Newest({i[3] : i \in OfDomain(gate, domain)})

(* The conditions of a filter: on what identifies a row, and on what it says. *)
Identity(f, r) ==
    /\ f.domain = 0 \/ r.domain = f.domain
    /\ f.addr = 0 \/ r.addr = f.addr
    /\ f.source = 0 \/ r.source = f.source
Attributes(f, r) ==
    /\ f.name = 0 \/ r.name = f.name
    /\ f.from = 0 \/ r.date >= f.from
    /\ f.to = 0 \/ r.date <= f.to

ByAuthority(q, r) == Nodes!LexBefore(<<Priority(q.source), -q.date, q.seq>>, <<Priority(r.source), -r.date, r.seq>>)
ByAddress(q, r) == Nodes!LexBefore(Address(q), Address(r))
First(S, Before(_, _)) == CHOOSE r \in S : \A q \in S : ~Before(q, r)

(* A snapshot: of every source the latest issue that is not stale at the date, *)
(* of every address the row of the most authoritative of them; what rows say   *)
(* is asked after that.                                                        *)
CurrentIssues(gate, domain, asOf) ==
    LET fresh == {i \in OfDomain(gate, domain) : i[3] <= asOf /\ i[3] > asOf - StalenessDays}
    IN {i \in fresh : \A j \in fresh : j[1] = i[1] /\ j[2] = i[2] => j[3] <= i[3]}

Snapshot(rows, gate, f, asOf) ==
    LET in == {r \in rows : Issue(r) \in CurrentIssues(gate, f.domain, asOf) /\ Identity(f, r)}
    IN {r \in {First({q \in in : Address(q) = a}, ByAuthority) : a \in {Address(q) : q \in in}} :
           Attributes([f EXCEPT !.to = 0], r)}

AsOf(gate, f) == IF f.to # 0 THEN f.to ELSE LatestPointlistDate(gate, f.domain)

SearchSnapshot(rows, gate, f) ==
    IF AsOf(gate, f) = Nodes!Epoch THEN <<>>
    ELSE Nodes!Page(f, SetToSortSeq(Snapshot(rows, gate, f, AsOf(gate, f)), ByAddress))

Matching(rows, gate, f) ==
    {r \in rows : Issue(r) \in gate /\ Identity(f, r) /\ Attributes(f, r)}

(* One summary per address, the addresses of the page chosen first. *)
SearchLifetime(rows, gate, f) ==
    LET matching == Matching(rows, gate, f)
        page == Nodes!Page(f, SetToSortSeq({Address(r) : r \in matching}, Nodes!LexBefore))
        Latest(q, r) == Nodes!LexBefore(<<-q.date, Priority(q.source), q.seq>>, <<-r.date, Priority(r.source), r.seq>>)
        Summary(a) ==
            LET own == {r \in matching : Address(r) = a}
                last == Max({r.date : r \in own})
            IN [address |-> a, name |-> First(own, Latest).name,
                first |-> Min({r.date : r \in own}), last |-> last,
                active |-> last > LatestPointlistDate(gate, a[1]) - StalenessDays]
    IN [i \in DOMAIN page |-> Summary(page[i])]

(* Everything that the pages show for a filter. *)
Search(rows, gate, f) ==
    LET whole == [f EXCEPT !.limit = 0, !.offset = 0]
        pages == 1..(Cardinality({Address(r) : r \in rows}) + 1)
        Nth(i) == [f EXCEPT !.limit = 1, !.offset = i - 1]
    IN [snapshot |-> SearchSnapshot(rows, gate, whole),
        everywhere |-> SearchSnapshot(rows, gate, [whole EXCEPT !.addr = 0, !.name = 0]),
        history |-> Matching(rows, gate, whole),
        summaries |-> SearchLifetime(rows, gate, whole),
        snapshotPages |-> [i \in pages |-> SearchSnapshot(rows, gate, Nth(i))],
        summaryPages |-> [i \in pages |-> SearchLifetime(rows, gate, Nth(i))]]

(* Nothing of an issue that is half imported is shown.  A snapshot has an      *)
(* address once, from the most authoritative source that lists it now; a       *)
(* filter takes rows out of it and never puts another in.  What it shows the   *)
(* summaries have as active, with the first and last date of the history; and  *)
(* the pages are the whole.                                                    *)
PointsAgree(rows, gate, f, a) ==
    LET shown == ToSet(a.snapshot)
        asOf == AsOf(gate, f)
        Current(r) ==
            /\ r.date <= asOf /\ r.date > asOf - StalenessDays
            /\ \A i \in gate : i[1] = r.domain /\ i[2] = r.source /\ i[3] <= asOf => i[3] <= r.date
        current == {r \in rows : Issue(r) \in gate /\ Current(r)
                                 /\ (f.domain = 0 \/ r.domain = f.domain)
                                 /\ (f.source = 0 \/ r.source = f.source)}
    IN /\ \A r \in shown \cup a.history : Issue(r) \in gate
       /\ \A q, r \in ToSet(a.everywhere) : Address(q) = Address(r) => q = r
       /\ shown = {r \in ToSet(a.everywhere) :
                      (f.addr = 0 \/ r.addr = f.addr) /\ (f.name = 0 \/ r.name = f.name)}
       /\ f.from = 0 =>
             \A r \in current : \E q \in ToSet(a.everywhere) :
                q \in current /\ Address(q) = Address(r) /\ Priority(q.source) <= Priority(r.source)
       /\ f.from = 0 /\ f.to = 0 =>
             \A r \in shown : \E i \in DOMAIN a.summaries :
                a.summaries[i].address = Address(r) /\ a.summaries[i].active
       /\ \A i \in DOMAIN a.summaries :
             LET own == {r \in a.history : Address(r) = a.summaries[i].address}
             IN \A r \in own : a.summaries[i].first <= r.date /\ r.date <= a.summaries[i].last
       /\ {a.summaries[i].address : i \in DOMAIN a.summaries} = {Address(r) : r \in a.history}
       /\ FlattenSeq(a.snapshotPages) = a.snapshot
       /\ FlattenSeq(a.summaryPages) = a.summaries
=============================================================================
