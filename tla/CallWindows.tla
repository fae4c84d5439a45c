---------------------------- MODULE CallWindows ----------------------------
(***************************************************************************)
(* When a node may be called by modem, from the flags of its entry.        *)
(*                                                                         *)
(* Time is in minutes UTC, the first of them the midnight before a Sunday; *)
(* a day of the week is a number from 0, Sunday, to 6.  A window has the   *)
(* minutes of the day at which it starts and ends, the end past DayLength  *)
(* if it is on the next day, the days on which it starts, and its source.  *)
(***************************************************************************)
EXTENDS Integers, Sequences, FiniteSets, SequencesExt, FiniteSetsExt

DayLength == 1440
WeekLength == 7 * DayLength

AllDays == 0..6
Weekdays == 1..5
Weekends == {0, 6}

WeekdayOf(t) == (t \div DayLength) % 7
ClockOf(t) == t % DayLength

Never == -1

(* The half hours of a day, and the minutes before them. *)
HalfHours(day) == {DayLength * day + 30 * k - m : k \in 1..48, m \in {0, 1}}

Window(source, start, end, days) ==
    [source |-> source, start |-> start, end |-> end, days |-> days]

(* An hour before the start is one of the next day; a window until 24:00 ends *)
(* a second before, and its last minute is not part of it.                    *)
Letter(start, end, days) ==
    Window("T-flag", 30 * start,
           IF end = 48 THEN DayLength - 1 ELSE IF end < start THEN 30 * end + DayLength ELSE 30 * end,
           days)

(* In half hours. *)
TIMSTable ==
    [A |-> Letter(0, 12, AllDays),    B |-> Letter(12, 24, AllDays),  C |-> Letter(24, 36, AllDays),
     D |-> Letter(36, 48, AllDays),   E |-> Letter(0, 24, Weekends),  F |-> Letter(24, 48, Weekends),
     G |-> Letter(38, 16, Weekdays),  H |-> Letter(0, 48, Weekends),  J |-> Letter(45, 17, AllDays),
     K |-> Letter(40, 14, AllDays),   L |-> Letter(42, 18, Weekdays), M |-> Letter(16, 40, Weekdays),
     N |-> Letter(40, 16, AllDays),   O |-> Letter(38, 14, AllDays),  P |-> Letter(40, 20, Weekends),
     Q |-> Letter(0, 16, AllDays),    R |-> Letter(40, 16, Weekdays), S |-> Letter(16, 40, Weekends),
     T |-> Letter(36, 16, AllDays),   U |-> Letter(38, 48, AllDays),  V |-> Letter(2, 14, AllDays),
     W |-> Letter(0, 48, Weekdays),   X |-> Letter(0, 48, AllDays),   Y |-> Letter(0, 16, Weekends),
     Z |-> Letter(42, 48, Weekends)]

ZMHDefaults ==   \* per zone, from zone 1
    LET hour(h) == Window("ZMH", 30 * h, 30 * h + 60, AllDays)
    IN <<hour(18), hour(5), hour(36), hour(16), hour(5), hour(44)>>

GetZMHWindow(zone) == ZMHDefaults[IF zone \in DOMAIN ZMHDefaults THEN zone ELSE 2]

LexBefore(a, b) == a[1] < b[1] \/ (a[1] = b[1] /\ a[2] < b[2])

-----------------------------------------------------------------------------
(* Of windows in the order of their starts, those of one source that follow   *)
(* each other and share a day become one, also when there is a gap between    *)
(* them: the second never ends before the first starts.                       *)
CanMerge(v, w) ==
    /\ v.source = w.source
    /\ v.days \cap w.days # {}
    /\ v.end >= w.start \/ w.end >= v.start

MergeWindows(v, w) ==
    Window(v.source, Min({v.start, w.start}), Max({v.end, w.end}), v.days \cup w.days)

Sorted(windows) ==
    LET before(i, j) == LexBefore(<<windows[i].start, i>>, <<windows[j].start, j>>)
        rank == [i \in DOMAIN windows |-> Cardinality({j \in DOMAIN windows : before(j, i)})]
    IN [k \in DOMAIN windows |-> windows[CHOOSE i \in DOMAIN windows : rank[i] = k - 1]]

MergeNext(merged, next) ==
    IF merged # <<>> /\ CanMerge(Last(merged), next)
    THEN Append(Front(merged), MergeWindows(Last(merged), next))
    ELSE Append(merged, next)

Merges(byStart) ==
    LET merged[n \in 0..Len(byStart)] ==
            IF n = 0 THEN <<>> ELSE MergeNext(merged[n - 1], byStart[n])
    IN merged
Merge(windows) == Merges(Sorted(windows))[Len(windows)]

-----------------------------------------------------------------------------
(* A flag has a kind: "CM", "ICM", "ZMH", "T" with its letters, "#" with its   *)
(* hour, or "other".  A T flag with a letter that is none is no time flag, and *)
(* of a T flag whose letters do not merge only the first window counts.        *)
ParseTFlag(letters) ==
    IF letters = <<>> \/ \E i \in DOMAIN letters : letters[i] \notin DOMAIN TIMSTable THEN <<>>
    ELSE <<Head(Merge([i \in DOMAIN letters |-> TIMSTable[letters[i]]]))>>

ParseNumberFlag(hour) ==
    IF hour \in 0..23 THEN <<Window("#nn", 60 * hour, 60 * hour + 60, AllDays)>> ELSE <<>>

WindowsOf(f) ==
    CASE f.kind = "T" -> ParseTFlag(f.letters)
      [] f.kind = "#" -> ParseNumberFlag(f.hour)
      [] OTHER -> <<>>

ParseNodeFlags(flags, zone, hasPSTN) ==
    LET has(kind) == \E i \in DOMAIN flags : flags[i].kind = kind
        explicit == FlattenSeq([i \in DOMAIN flags |-> WindowsOf(flags[i])])
                    \o (IF has("ZMH") THEN <<GetZMHWindow(zone)>> ELSE <<>>)
        default == ~has("CM") /\ hasPSTN /\ explicit = <<>>
    IN [cm |-> has("CM"), icm |-> has("ICM"), default |-> default,
        windows |-> IF default THEN <<GetZMHWindow(zone)>> ELSE Merge(explicit)]

-----------------------------------------------------------------------------
(* Only the time of the day of a window's ends is looked at: one that has      *)
(* grown over a whole day is taken for what is left of it.                     *)
IncludesDay(w, day) == day \in w.days

IsInWindow(w, t) ==
    LET start == ClockOf(w.start)
        end == ClockOf(w.end)
    IN IF start <= end
       THEN IncludesDay(w, WeekdayOf(t)) /\ start <= ClockOf(t) /\ ClockOf(t) < end
       ELSE \/ start <= ClockOf(t) /\ IncludesDay(w, WeekdayOf(t))
            \/ ClockOf(t) < end /\ IncludesDay(w, (WeekdayOf(t) + 6) % 7)

IsCallableNow(avail, t) ==
    avail.cm \/ avail.windows = <<>> \/ \E w \in ToSet(avail.windows) : IsInWindow(w, t)

NextStarts(avail, t) ==
    LET Days(w) == {d \in 0..6 : IncludesDay(w, WeekdayOf(t + d * DayLength))}
        Starts(w) == {DayLength * (t \div DayLength + d) + ClockOf(w.start) : d \in Days(w)}
    IN {u \in UNION {Starts(w) : w \in ToSet(avail.windows)} : u > t}

Earliest(starts) == IF starts = {} THEN Never ELSE Min(starts)

GetNextCallTime(avail, t) ==
    IF IsCallableNow(avail, t) THEN [callable |-> TRUE, next |-> t]
    ELSE [callable |-> FALSE, next |-> Earliest(NextStarts(avail, t))]

Availability(flags, zone, hasPSTN, times) ==
    LET avail == ParseNodeFlags(flags, zone, hasPSTN)
    IN [avail |-> avail, next |-> [t \in times |-> GetNextCallTime(avail, t)]]

-----------------------------------------------------------------------------
(* A window as it is written: from its start, on each of its days, to its end. *)
Within(w, t) ==
    \E d \in w.days, week \in {-WeekLength, 0, WeekLength} :
        LET midnight == WeekLength * (t \div WeekLength) + week + d * DayLength
        IN midnight + w.start <= t /\ t < midnight + w.end

(* Windows that keep their hours when they are merged: of one source, each     *)
(* overlaps the next on the same days, and together they are less than a day.  *)
Keeping(windows) ==
    LET byStart == Sorted(windows)
    IN \A i, j \in DOMAIN byStart :
          i < j /\ byStart[i].source = byStart[j].source
             => /\ byStart[i].days = byStart[j].days
                /\ \E k \in i..(j - 1) : byStart[k].source = byStart[j].source /\ byStart[k].end >= byStart[j].start
                /\ Max({byStart[i].end, byStart[j].end}) < byStart[i].start + DayLength

(* Between the start of one and the end of another of one source, or the same, *)
(* on any day of these: what merging can make of windows at most.             *)
Spanned(windows, t) ==
    \E v, w \in ToSet(windows) :
        /\ v.source = w.source
        /\ Within(Window(v.source, v.start, w.end,
                         UNION {u.days : u \in {x \in ToSet(windows) : x.source = v.source}}), t)

(* Of one source, all share a day, and together they are less than a day. *)
Shorter(windows) ==
    \A v, w \in ToSet(windows) :
        v.source = w.source => v.days \cap w.days # {} /\ w.end < v.start + DayLength

(* The windows that the flags name, a T flag one for each of its letters, and  *)
(* the mail hour of the zone.                                                  *)
Named(flags, zone, hasPSTN) ==
    LET letters(f) == IF f.kind = "T" THEN [i \in DOMAIN f.letters |-> TIMSTable[f.letters[i]]]
                      ELSE WindowsOf(f)
        named == FlattenSeq([i \in DOMAIN flags |->
                     IF WindowsOf(flags[i]) = <<>> THEN <<>> ELSE letters(flags[i])])
        zmh == \/ \E i \in DOMAIN flags : flags[i].kind = "ZMH"
               \/ named = <<>> /\ hasPSTN
    IN named \o IF zmh THEN <<GetZMHWindow(zone)>> ELSE <<>>

(* A call that must wait waits for the first moment at which the node is      *)
(* callable, unless one of its windows has grown to a whole day (#00,#23).    *)
(* That one is never open, and its node is put out at a start at which it is  *)
(* not callable, against the promise at cmd/modem-test/nodelist_source.go:387. *)
FirstMoment(times, told) ==
    (\A w \in ToSet(told.avail.windows) : ClockOf(w.start) # ClockOf(w.end)) =>
        \A t \in times :
            LET next == told.next[t].next
            IN /\ next >= t /\ IsCallableNow(told.avail, next)
               /\ \A u \in times : t <= u /\ u < next => ~told.next[u].callable

(* A node with CM, or without hours, is callable always; one without a flag of *)
(* hours in its zone's mail hour.  Of the others, those whose windows overlap  *)
(* on the same days (Keeping) are callable exactly in the hours that their     *)
(* flags name.  No other has this: windows of one source that share a day are  *)
(* merged across the hours between them (a node with #09,#20 is callable at   *)
(* noon, against "consecutive" at parser_test.go:145), over each other's days, *)
(* and beyond a day, of which the rest is left.  But no named hour is lost of  *)
(* windows that all share a day and are less than a day together, and nobody   *)
(* is callable before the first or after the last named hour of a source.      *)
(* A call that must wait waits for the first moment, see above.               *)
HoursKept(flags, zone, hasPSTN, times, told) ==
    LET windows == Named(flags, zone, hasPSTN)
        named(t) == \E w \in ToSet(windows) : Within(w, t)
        cm == \E i \in DOMAIN flags : flags[i].kind = "CM"
    IN /\ cm \/ windows = <<>> => \A t \in times : told.next[t].callable
       /\ ~cm /\ windows # <<>> =>
             \A t \in times :
                /\ told.next[t].callable => Spanned(windows, t)
                /\ Shorter(windows) /\ named(t) => told.next[t].callable
                /\ Keeping(windows) => (told.next[t].callable <=> named(t))
       /\ FirstMoment(times, told)
=============================================================================
