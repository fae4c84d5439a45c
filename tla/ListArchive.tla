---------------------------- MODULE ListArchive ----------------------------
(***************************************************************************)
(* The archive of the lists: how it is scanned, browsed and downloaded     *)
(* (internal/nodelistfs, the download pages, the FTP server), and how two  *)
(* tools fill it from a git repository and from a corpus of old files.     *)
(*                                                                         *)
(* A file is in a place below the archive root, in the directory of a      *)
(* year.  Its name has the prefix of a network, a day (Bad: no three       *)
(* digits), perhaps capitals, and an extension.  What it contains stands   *)
(* for itself.  The checks of paths and the writing of pages are left out. *)
(***************************************************************************)
EXTENDS Integers, Sequences, FiniteSets, SequencesExt, FiniteSetsExt, TLC

Dates == INSTANCE ListParser

Bad == -1
NoDate == [year |-> 0, day |-> 0]
NotFound == [found |-> FALSE]

-----------------------------------------------------------------------------
(* Nodelists.  FidoNet's years were once directly below the archive root, and *)
(* are found there while they are being moved. *)
Fidonet == "fidonet"
ArchiveRoot == ""

NetworkRoots(network) ==
    IF network = Fidonet THEN <<Fidonet, ArchiveRoot>> ELSE <<network>>

Shown(name) == IF name.ext = "gz" THEN [name EXCEPT !.ext = ""] ELSE name
Lower(name) == [name EXCEPT !.upper = FALSE]

ScanYears(files, place, network) ==
    {f \in files : f.place = place /\ f.name.net = network /\ f.name.day # Bad}

SameName(f, g) == f.year = g.year /\ Lower(Shown(f.name)) = Lower(Shown(g.name))

MergeYearsWhole(base, incoming) ==   \* faulty variant: a year is taken from one root
    base \cup {f \in incoming : \A g \in base : g.year # f.year}
MergeYears(base, incoming) ==
    base \cup {f \in incoming : \A g \in base : ~SameName(f, g)}

ScanNetwork(files, network) ==
    FoldLeft(LAMBDA base, place : MergeYears(base, ScanYears(files, place, network)),
             {}, NetworkRoots(network))

Networks(files) == {Fidonet} \cup ({f.place : f \in files} \ {ArchiveRoot})

ListNetworks(files) ==
    {n \in Networks(files) : ScanNetwork(files, n) # {}}

(* FindLatest: the sort may leave any of the newest first. *)
Later(f, g) == f.year > g.year \/ (f.year = g.year /\ f.name.day > g.name.day)

FindLatest(files, network) ==
    LET listed == ScanNetwork(files, network)
    IN {f \in listed : \A g \in listed : ~Later(g, f)}

(* FindFile: the first root that has the file, plain or compressed. *)
FindFile(files, network, year, name) ==
    LET In(place, n) == {f \in files : f.place = place /\ f.year = year /\ f.name = n}
        packed == [name EXCEPT !.ext = IF @ = "" THEN "gz" ELSE "gz.gz"]
        Has(place) == In(place, name) \cup In(place, packed) # {}
        places == SelectSeq(NetworkRoots(network), Has)
    IN IF places = <<>> THEN NotFound
       ELSE LET plain == In(places[1], name) # {} IN
            [found |-> TRUE, unpacked |-> ~plain,
             file |-> CHOOSE f \in In(places[1], IF plain THEN name ELSE packed) : TRUE]

(* NodelistDownloadHandler *)
DownloadNodelist(files, network, year, name) ==
    IF name.net # network THEN NotFound ELSE FindFile(files, network, year, name)

(* YearArchiveHandler: the files of the first root that has the year. *)
YearArchive(files, dirs, network, year) ==
    LET places == SelectSeq(NetworkRoots(network), LAMBDA p : <<p, year>> \in dirs)
    IN IF places = <<>> THEN {}
       ELSE {f \in files : f.place = places[1] /\ f.year = year /\ f.name.net = network}

(* legacyYearFs.Open: either spelling of a FidoNet year, after the other. *)
FtpOpen(files, place, year, name) ==
    LET In(p) == {f \in files : f.place = p /\ f.year = year /\ f.name = name}
        other == IF place = Fidonet THEN ArchiveRoot ELSE Fidonet
    IN IF In(place) # {} \/ place \notin {Fidonet, ArchiveRoot} THEN In(place) ELSE In(other)

(* The names under which the pages offer files. *)
BrowseNodelists(files) ==
    [n \in ListNetworks(files) |-> {[year |-> f.year, name |-> Shown(f.name)] : f \in ScanNetwork(files, n)}]

(* Also while years are being moved: no list is hidden; everything offered is *)
(* served, as text unless its extension has capitals; the latest has the      *)
(* newest date; by FTP both spellings of a year find every file; and the      *)
(* archive of a year has every list of it, if the year is in one place.       *)
(* [ScanNetwork, mergeYears, FindFile, FindLatest, fidonetAlternatePath]      *)
ArchiveServed(files, dirs, r) ==
    LET Weekly(f, n) == f.name.net = n /\ f.name.day # Bad /\ Contains(NetworkRoots(n), f.place)
    IN /\ \A f \in files : \A n \in Networks(files) :
             Weekly(f, n) => /\ n \in DOMAIN r
                             /\ \E o \in r[n] : o.year = f.year /\ Lower(o.name) = Lower(Shown(f.name))
       /\ \A n \in DOMAIN r : \A o \in r[n] :
             LET d == DownloadNodelist(files, n, o.year, o.name) IN
             /\ d.found /\ Weekly(d.file, n)
             /\ d.unpacked = (d.file.name.ext = "gz")
       /\ \A n \in DOMAIN r : \A f \in FindLatest(files, n) :
             /\ [year |-> f.year, name |-> Shown(f.name)] \in r[n]
             /\ \A g \in files : Weekly(g, n) /\ f.name.day \in 1..365 /\ g.name.day \in 1..365
                                    => ~Later(g, f)
       /\ \A f \in files : f.place \in {Fidonet, ArchiveRoot} =>
             \A place \in {Fidonet, ArchiveRoot} : FtpOpen(files, place, f.year, f.name) # {}
       /\ \A n \in DOMAIN r : \A o \in r[n] :
             LET archive == YearArchive(files, dirs, n, o.year) IN
             /\ \A f \in archive : f.name.net = n
             /\ Cardinality({d \in dirs : d[2] = o.year /\ Contains(NetworkRoots(n), d[1])}) = 1
                    => \E f \in archive : Shown(f.name) = o.name

-----------------------------------------------------------------------------
(* fsxnetarchive.  A candidate is a file of the working tree or of a commit:  *)
(* the day in its name (0: a ZIP, or none), the year of its directory (0: no  *)
(* such), the date of the commit, and the date in the list's header.  Those   *)
(* of the tree come first, those of the history from the oldest on.           *)
DateOfWeekly(c) ==
    LET committed == IF c.day > c.commit.day + 7 THEN c.commit.year - 1 ELSE c.commit.year
        year == IF c.dirYear # 0 THEN c.dirYear ELSE IF c.commit = NoDate THEN 0 ELSE committed
    IN CASE c.header # NoDate -> c.header
         [] c.header = NoDate /\ (c.day \notin 1..366 \/ year = 0) -> NoDate
         [] OTHER -> [year |-> year, day |-> c.day]

(* resolve *)
Resolve(resolved, c) ==
    LET date == DateOfWeekly(c)
        kept == [content |-> c.content, tree |-> c.tree]
    IN CASE ~c.readable \/ date = NoDate -> resolved
         [] c.readable /\ date # NoDate /\ date \notin DOMAIN resolved -> (date :> kept) @@ resolved
         [] OTHER -> IF resolved[date].content # c.content /\ ~resolved[date].tree
                     THEN [resolved EXCEPT ![date] = kept] ELSE resolved

(* writeAll and publish, up to an interruption: each list is written under a  *)
(* temporary name first. *)
ArchiveWeeklies(network, candidates, writes) ==
    LET resolved == FoldLeft(Resolve, <<>>, candidates)
        keys == SetToSortSeq(DOMAIN resolved,
                    LAMBDA a, b : a.year < b.year \/ (a.year = b.year /\ a.day < b.day))
        File(i, net, content) ==
            [place |-> network, year |-> keys[i].year, content |-> content,
             name |-> [net |-> net, day |-> keys[i].day, upper |-> FALSE, ext |-> "gz"]]
    IN {File(i, network, resolved[keys[i]].content) : i \in 1..Min({writes, Len(keys)})}
       \cup {File(i, "temporary", "part") : i \in {writes + 1} \cap DOMAIN keys}

DayCount(date) ==
    LET y == date.year - 1 IN 365 * y + y \div 4 - y \div 100 + y \div 400 + date.day

(* A weekly is published once: as the tree has it, or else in its newest      *)
(* revision, as resolve says ("always the newer revision and supersedes"),    *)
(* though collect says that the one closest to its publication wins; what is  *)
(* offered is never a part of a list, wherever the run is interrupted; and a  *)
(* list dated by its commit is at most a week newer and a year older.         *)
(* [collect, resolve, publish]                                                *)
WeekliesPublished(network, candidates, writes, files) ==
    LET Of(date) == {i \in DOMAIN candidates : candidates[i].readable /\ DateOfWeekly(candidates[i]) = date}
        OfTree(date) == {i \in Of(date) : candidates[i].tree}
        dates == {DateOfWeekly(c) : c \in ToSet(candidates)} \ {NoDate}
        offered == ScanNetwork(files, network)
    IN /\ \A f \in offered : f.content # "part"
       /\ \A d \in dates : Of(d) # {} /\ writes >= Len(candidates) =>
             {f.content : f \in {f \in offered : f.year = d.year /\ f.name.day = d.day}} =
             {candidates[IF OfTree(d) # {} THEN Min(OfTree(d)) ELSE Max(Of(d))].content}
       /\ \A c \in ToSet(candidates) :
             LET d == DateOfWeekly(c) IN
             c.header = NoDate /\ c.dirYear = 0 /\ d # NoDate =>
                DayCount(c.commit) - DayCount(d) \in (-7)..366

-----------------------------------------------------------------------------
(* pointlistarchive.  A file of the corpus: its region, whether it is of the  *)
(* fake or v7 flavour, its series (None: a diff, or unknown) and stem, the    *)
(* day in its name (0: none), its header, and the year of its path.           *)
ResolveDay(f) ==
    IF f.day \in 1..366 THEN f.day ELSE IF f.header.number \in 1..366 THEN f.header.number ELSE 0

ResolveYear(f) == IF f.pathYear # 0 THEN f.pathYear ELSE f.header.year

NoTarget == [source |-> "", year |-> 0, stem |-> "", day |-> 0]

Target(f) ==
    LET day == ResolveDay(f)
        named == ResolveYear(f)
        year == IF day > Dates!DaysInYear(named) /\ day <= Dates!DaysInYear(named - 1)
                THEN named - 1 ELSE named
    IN IF f.source = "" \/ day = 0 \/ named = 0 \/ day > Dates!DaysInYear(year) THEN NoTarget
       ELSE [source |-> f.source, year |-> year, stem |-> f.stem, day |-> day]

(* run: the boss lists of all regions, then their other flavours, then z2. *)
Passes(corpus) ==
    SelectSeq(corpus, LAMBDA f : ~f.z2 /\ ~f.fake) \o SelectSeq(corpus, LAMBDA f : ~f.z2 /\ f.fake)
    \o SelectSeq(corpus, LAMBDA f : f.z2 /\ ~f.fake)

(* publish: the first file of a target wins. *)
PublishPointlist(written, f) ==
    IF Target(f) = NoTarget \/ Target(f) \in DOMAIN written THEN written
    ELSE (Target(f) :> f.content) @@ written

ArchivePointlists(corpus) == FoldLeft(PublishPointlist, <<>>, Passes(corpus))

(* scanPointlistYearDir, of the names that publish gives, and the download of *)
(* what it shows. *)
OfferedPointlists(written) == {t \in DOMAIN written : t.day \in 1..366}

(* The corpus is published as the importer files it: a list whose path names  *)
(* a year has the date the importer gives it, every list that has a date is   *)
(* offered, and a boss list is never displaced by another flavour of it, nor  *)
(* by the rollup of the zone.  This is of a run that is not interrupted:      *)
(* publish writes a target directly, and an interruption leaves a part of it  *)
(* under the name of the whole.                                               *)
(* [publish, run, resolveDate, dateFromYearDay]                               *)
PointlistsPublished(corpus, written) ==
    /\ \A i \in DOMAIN corpus :
          LET f == corpus[i]
              t == Target(f)
              imported == Dates!PointlistDate(f)
          IN /\ f.pathYear # 0 /\ t # NoTarget /\ f.day \in 0..366 =>
                    imported.date = [year |-> t.year, day |-> t.day]
             /\ t # NoTarget /\ ~(f.z2 /\ f.fake) => t \in OfferedPointlists(written)
             /\ t # NoTarget /\ ~f.z2 /\ ~f.fake =>
                    \E j \in DOMAIN corpus : /\ ~corpus[j].z2 /\ ~corpus[j].fake /\ Target(corpus[j]) = t
                                             /\ corpus[j].content = written[t]
=============================================================================
