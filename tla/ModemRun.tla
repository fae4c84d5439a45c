----------------------------- MODULE ModemRun -----------------------------
(***************************************************************************)
(* A run of the modem test with one modem: which nodes are chosen, when    *)
(* each is called, and the way of the results into the server's log.       *)
(*                                                                         *)
(* A node of the server's list has an address (zone, net, node), a phone   *)
(* as it is written, a sequence of characters, and its flags.  Time is in  *)
(* minutes as in CallWindows; an attempt takes the same time whatever      *)
(* comes of it.  A run is told what each line answers, call by call: busy  *)
(* (or a failure that the switch's record calls worth a retry), no dial    *)
(* tone (error), no carrier (fail), a connection without a handshake       *)
(* (mute), or a handshake (ok).                                            *)
(***************************************************************************)
EXTENDS Integers, Sequences, FiniteSets, SequencesExt, FiniteSetsExt, TLC

Windows == INSTANCE CallWindows

Digit == {"1", "2", "3", "4"}
Unpublished == <<"-", "U">>
Endless == 1000000      \* the time of an interrupt that never comes
MaxRounds == 6          \* bound: how often nodes whose window closed are scheduled again

Digits(s) == SelectSeq(s, LAMBDA ch : ch \in Digit)

NormalizePhone(s) ==
    IF s = Unpublished \/ Len(Digits(s)) < 3 THEN <<>> ELSE Digits(s)

HasPhonePrefix(phone, prefix) == phone # <<>> /\ prefix # <<>> /\ IsPrefix(Digits(prefix), phone)

Has(n, kind) == \E i \in DOMAIN n.flags : n.flags[i].kind = kind

-----------------------------------------------------------------------------
(* Requests to mark a phone as dead, or as alive again, are taken for nodes    *)
(* with positive numbers; the latest counts.                                   *)
Marks(requests) == SelectSeq(requests, LAMBDA r : \A i \in 1..3 : r.addr[i] > 0)

IsPSTNDead(n, requests) ==
    LET about == SelectSeq(Marks(requests), LAMBDA r : r.addr = n.addr)
    IN about # <<>> /\ Last(about).dead

Target(n) == n @@ [phone |-> NormalizePhone(n.raw)]

FetchPSTNNodes(listed, requests) ==
    SelectSeq([i \in DOMAIN listed |-> Target(listed[i])],
              LAMBDA n : ~IsPSTNDead(n, requests) /\ n.phone # <<>>)

(* The node asked for, also a dead one, and a given phone before its own. *)
FetchNodeByAddress(listed, addr, phone) ==
    LET found == SelectSeq(listed, LAMBDA n : n.addr = addr)
        targets == [i \in DOMAIN found |-> [Target(found[i]) EXCEPT !.phone = IF phone = <<>> THEN @ ELSE phone]]
    IN SelectSeq(targets, LAMBDA n : n.phone # <<>>)

FilterByPrefix(nodes, prefix) == SelectSeq(nodes, LAMBDA n : HasPhonePrefix(n.phone, prefix))

FilterExceptPrefixes(nodes, prefixes) ==
    SelectSeq(nodes, LAMBDA n : \A i \in DOMAIN prefixes : ~HasPhonePrefix(n.phone, prefixes[i]))

FilterCMOnly(nodes, cmOnly) == SelectSeq(nodes, LAMBDA n : cmOnly => Has(n, "CM"))

(* A phone that is given without a node may be called at any time. *)
Anybody(phone) == [addr |-> <<0, 0, 0>>, raw |-> phone, phone |-> phone, flags |-> <<[kind |-> "CM"]>>]

(* c.recent: the phones that answered within the days to skip, none when the   *)
(* test is forced or the server cannot say.                                    *)
Chosen(c) ==
    LET fetched == FetchPSTNNodes(c.listed, c.requests)
        wanted ==
            CASE c.mode = "node"   -> FetchNodeByAddress(c.listed, c.addr, c.phone)
              [] c.mode = "prefix" -> FilterCMOnly(FilterByPrefix(fetched, c.prefix), c.cmOnly)
              [] c.mode = "all"    -> FilterCMOnly(FilterExceptPrefixes(fetched, <<c.prefix>>), c.cmOnly)
              [] c.mode = "phones" -> <<Anybody(c.phone)>>
    IN SelectSeq(wanted, LAMBDA n : n.phone \notin c.recent)

-----------------------------------------------------------------------------
AvailabilityOf(n) == Windows!ParseNodeFlags(n.flags, n.addr[1], TRUE)

(* Nodes that can be called come first, the others in the order in which they  *)
(* can.  The scheduler runs ahead of the modem: a job is put out at the        *)
(* opening of its window, and waits in the channel until the modem is free.    *)
CallKey(t) == IF t.callable THEN Windows!Never ELSE t.next

(* The window is looked at again after the wait, also for the job before. *)
EmittedAt(n, waited) == Max({waited, Windows!GetNextCallTime(AvailabilityOf(n), waited).next})

ScheduleNodes(nodes, now) ==
    LET first == [i \in DOMAIN nodes |-> Windows!GetNextCallTime(AvailabilityOf(nodes[i]), now)]
        before(i, j) == Windows!LexBefore(<<CallKey(first[i]), i>>, <<CallKey(first[j]), j>>)
    IN FoldLeft(LAMBDA jobs, i :
                    Append(jobs, [node |-> nodes[i],
                                  at |-> EmittedAt(nodes[i], Max({IF jobs = <<>> THEN now ELSE Last(jobs).at,
                                                                  first[i].next}))]),
                <<>>, SetToSortSeq(DOMAIN nodes, before))

(* The attempts of a test until its last: what is no longer dialled because    *)
(* of an interrupt or the end of the window takes no time.                     *)
TestUntil(last, answer, start, c) ==
    LET dials == IF answer \in {"cancelled", "closed"} THEN last - 1 ELSE last
    IN [dials |-> [k \in 1..dials |-> start + (k - 1) * c.takes], outcome |-> answer,
        free |-> start + dials * c.takes]

Attempts(answers, start, c) ==
    LET last == Min({k \in DOMAIN answers : answers[k] # "busy" \/ k = Len(answers)})
    IN TestUntil(last, answers[last], start, c)

LineAnswers(k, c) == c.line[Min({k, Len(c.line)})]

RunSingleTestUnchecked(n, start, dialled, c) ==   \* faulty variant: the window is not looked at again
    Attempts([k \in 1..(c.retries + 1) |-> LineAnswers(dialled + k, c)], start, c)

RunSingleTest(n, start, dialled, c) ==
    LET at(k) == start + (k - 1) * c.takes
        answer(k) == CASE at(k) >= c.interrupt -> "cancelled"
                       [] at(k) < c.interrupt /\ ~Windows!IsCallableNow(AvailabilityOf(n), at(k)) -> "closed"
                       [] OTHER -> LineAnswers(dialled + k, c)
    IN Attempts([k \in 1..(c.retries + 1) |-> answer(k)], start, c)

(* Only a handshake is a success, and only then the peer's addresses are known. *)
Shaken(test) == test.outcome = "ok"

RecordFromTestResult(n, test, c) ==
    [addr |-> n.addr, phone |-> n.phone, success |-> Shaken(test),
     remote |-> IF Shaken(test) THEN c.remote ELSE {}]

(* One job: s has the time from which the modem is free, the calls made, the   *)
(* records written, the nodes put off, and whether the run was interrupted.    *)
AfterTest(s, n, test, c) ==
    LET after == [s EXCEPT !.free = test.free,
                           !.calls = @ \o [k \in DOMAIN test.dials |-> [node |-> n, at |-> test.dials[k]]]]
    IN IF test.outcome = "closed" THEN [after EXCEPT !.deferred = Append(@, n)]
       ELSE [after EXCEPT !.records = Append(@, RecordFromTestResult(n, test, c))]

RunJob(s, job, c) ==
    LET start == Max({s.free, job.at})
        dialled == Len(SelectSeq(s.calls, LAMBDA call : call.node = job.node))
    IN IF s.stopped \/ start >= c.interrupt THEN [s EXCEPT !.stopped = TRUE]
       ELSE AfterTest(s, job.node, RunSingleTest(job.node, start, dialled, c), c)

RunBatch(nodes, c) ==
    LET round(s) ==
            IF s.deferred = <<>> \/ s.stopped THEN s
            ELSE FoldLeft(LAMBDA st, job : RunJob(st, job, c), [s EXCEPT !.deferred = <<>>],
                          ScheduleNodes(s.deferred, s.free))
        begin == [free |-> c.now, calls |-> <<>>, records |-> <<>>, deferred |-> nodes, stopped |-> FALSE]
    IN FoldLeft(LAMBDA s, i : round(s), begin, [i \in 1..MaxRounds |-> i])

-----------------------------------------------------------------------------
(* The server: a caller with a key, a batch of a size that it takes; a row     *)
(* that cannot be stored does not keep the others out.                         *)
ValidateModemAddress(remote, addr) ==
    addr # <<0, 0, 0>> /\ \E a \in remote : a.addr = addr /\ a.point \in {"", "0"}

StoreModemTestResult(r, caller) ==
    [addr |-> r.addr, phone |-> r.phone, caller |-> caller, success |-> r.success,
     operational |-> r.success, valid |-> ValidateModemAddress(r.remote, r.addr)]

ValidateAPIKey(c) == c.key \in DOMAIN c.callers

SubmitResultsDirect(results, c) ==
    IF ~ValidateAPIKey(c) \/ Len(results) \notin 1..c.maxBatch THEN <<>>
    ELSE LET stored == SelectSeq(results, LAMBDA r : r.addr \notin c.rejected)
         IN [i \in DOMAIN stored |-> StoreModemTestResult(stored[i], c.callers[c.key])]

(* The writer: a full batch is sent, and is gone whether it arrives or not. *)
Flush(w, c) ==
    IF w.batch = <<>> THEN w
    ELSE [batch |-> <<>>, sends |-> w.sends + 1,
          log |-> w.log \o IF w.sends + 1 \in c.lost THEN <<>> ELSE SubmitResultsDirect(w.batch, c)]

WriteRecord(w, r, c) ==
    LET with == [w EXCEPT !.batch = Append(@, r)]
    IN IF Len(with.batch) >= c.batchSize THEN Flush(with, c) ELSE with

Submitted(records, c) ==   \* and Close
    Flush(FoldLeft(LAMBDA w, r : WriteRecord(w, r, c), [batch |-> <<>>, sends |-> 0, log |-> <<>>], records), c).log

Stored(run, c) == [log |-> Submitted(run.records, c)] @@ run

ModemTest(c) == Stored(RunBatch(Chosen(c), c), c)

-----------------------------------------------------------------------------
Count(seq, x) == Cardinality({i \in DOMAIN seq : seq[i] = x})

(* Nobody is called who should not be, or outside the windows into which those  *)
(* of his flags are merged, none of which begins before or ends after what     *)
(* they name (HoursKept says what merging adds between); each node is          *)
(* recorded once, after its last call, and stored at most once: not at all     *)
(* only if its batch did not arrive or its row was refused.  The run ends      *)
(* unless a line is busy for ever or a window is a whole day, which is never   *)
(* open.                                                                       *)
CalledInTime(c, told) ==
    LET nodes == Chosen(c)
        tests == [i \in DOMAIN told.records |-> told.records[i].addr]
        outcome(n) == LET made == SelectSeq(told.calls, LAMBDA call : call.node = n)
                      IN LineAnswers(Len(made), c)
        never(n) == \E w \in ToSet(AvailabilityOf(n).windows) :
                        Windows!ClockOf(w.start) = Windows!ClockOf(w.end)
        failing == ~ValidateAPIKey(c) \/ c.lost # {} \/ c.rejected # {} \/ c.batchSize > c.maxBatch
    IN /\ \A call \in ToSet(told.calls) :
             /\ \/ Has(call.node, "CM")
                \/ /\ \E w \in ToSet(AvailabilityOf(call.node).windows) : Windows!IsInWindow(w, call.at)
                   /\ Windows!Spanned(Windows!Named(call.node.flags, call.node.addr[1], TRUE), call.at)
             /\ call.at < c.interrupt
             /\ call.node.phone \notin c.recent
             /\ c.mode \in {"prefix", "all"} =>
                   /\ \A i \in DOMAIN c.requests : c.requests[i].addr = call.node.addr /\ c.requests[i].dead
                         => \/ \E k \in 1..3 : call.node.addr[k] <= 0
                            \/ \E j \in DOMAIN c.requests : j > i /\ ~c.requests[j].dead
                                                            /\ c.requests[j].addr = call.node.addr
                   /\ (c.mode = "prefix") = HasPhonePrefix(call.node.phone, c.prefix)
                   /\ c.cmOnly => Has(call.node, "CM")
       /\ \A i \in 1..(Len(told.calls) - 1) : told.calls[i].at + c.takes <= told.calls[i + 1].at
       /\ \A n \in ToSet(nodes) :
             /\ Count(tests, n.addr) <= Count([i \in DOMAIN nodes |-> nodes[i].addr], n.addr)
             /\ ~told.stopped => Count(tests, n.addr) + Count(told.deferred, n) = 1
             /\ told.deferred # <<>> => c.line[Len(c.line)] = "busy" \/ \E m \in ToSet(nodes) : never(m)
             /\ \A r \in ToSet(told.records) : r.addr = n.addr =>
                   /\ \E call \in ToSet(told.calls) : call.node = n
                   /\ r.success => outcome(n) = "ok"
                   /\ ~r.success /\ c.interrupt = Endless => outcome(n) # "ok"
       /\ \A i \in DOMAIN told.log :
             LET row == told.log[i]
             IN /\ Count([k \in DOMAIN told.log |-> told.log[k].addr], row.addr) <= Count(tests, row.addr)
                /\ \E r \in ToSet(told.records) : r.addr = row.addr /\ r.success = row.success
                /\ row.valid => row.success /\ row.addr # <<0, 0, 0>>
       /\ ~failing => Len(told.log) = Len(told.records)
=============================================================================
