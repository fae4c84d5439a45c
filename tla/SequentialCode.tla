--------------------------- MODULE SequentialCode ---------------------------
(***************************************************************************)
(* The parts of the program that run from a call to its return without     *)
(* meeting anybody else: a call with arguments, and the answer to it.      *)
(***************************************************************************)
EXTENDS TesterCalls

Parser == INSTANCE ListParser
Archive == INSTANCE ListArchive
Nodes == INSTANCE NodeQueries
Points == INSTANCE PointQueries
Census == INSTANCE CensusQueries
Report == INSTANCE ReportQueries
Hosts == INSTANCE HostReports
Windows == INSTANCE CallWindows
Modem == INSTANCE ModemRun
Web == INSTANCE WebPages
Queries == INSTANCE WebQueries
Pages == INSTANCE AddressPages

Answer(c) ==
    CASE c.op = "ParseFile"      -> Parser!ParseFile(c.parser, c)
      [] c.op = "ParsePointlist" -> Parser!ParsePointlist(c)
      [] c.op = "PointlistDate"  -> Parser!PointlistDate(c)
      [] c.op = "ParseFlags"     -> Parser!ParseFlags(c.parts)
      [] c.op = "BrowseArchive"     -> Archive!BrowseNodelists(c.files)
      [] c.op = "ArchiveWeeklies"   -> Archive!ArchiveWeeklies(c.network, c.candidates, c.writes)
      [] c.op = "ArchivePointlists" -> Archive!ArchivePointlists(c.corpus)
      [] c.op = "SearchNodes"  -> Nodes!Search(c.rows, c.filter)
      [] c.op = "NodeChanges"  -> Nodes!GetNodeChanges(c.rows, c.node, c.domain, c.fails)
      [] c.op = "ConfigChange" -> Nodes!ConfigChanges(c.prev, c.curr)
      [] c.op = "Browse"       -> Nodes!Browse(c.rows, c.date, c.domain)
      [] c.op = "SearchPoints" -> Points!Search(c.rows, c.gate, c.filter)
      [] c.op = "FlagReport"  -> Census!FlagReport(c.imports, c.flag)
      [] c.op = "NetHistory"  -> Census!NetworkHistories(c.rows, c.zone, c.net, c.domain)
      [] c.op = "OnThisDay"   -> Census!DayReport(c.rows, c.day, c.today, c.domain)
      [] c.op = "Pioneers"    -> Census!Pioneers(c.rows, c.zone, c.region, c.domain, c.limit)
      [] c.op = "Stats"       -> Census!StatsReport(c.rows, c.domain)
      [] c.op = "PhoneReport" -> Census!PhoneReport(c.rows, c.marks)
      [] c.op = "EmailReport" -> Census!EmailReport(c.rows, c.useField, c.checks)
      [] c.op = "Reports"      -> Report!Reports(c.cycles, c.listings, c.now, c.period)
      [] c.op = "HostReport"   -> Hosts!HostReport(c.log, c.current, c.from, c.lookups)
      [] c.op = "ModemReport"  -> Hosts!ModemReport(c.log, c.from)
      [] c.op = "CallTimes"    -> Windows!Availability(c.flags, c.zone, c.pstn, Windows!HalfHours(c.day))
      [] c.op = "ModemTest"    -> Modem!ModemTest(c)
      [] c.op = "WebPage"      -> Web!Page(c.request, c.reads)
      [] c.op = "WebTables"    -> Web!Tables(c.rows, c.marks)
      [] c.op = "WebDomains"   -> Web!Domains(c.rows, c.now, c.typed)
      [] c.op = "SearchForm"   -> Queries!SearchHandler(c.form, c.reads)
      [] c.op = "Address"      -> Pages!Addresses(c.request, c.rows, c.gate, c.reads)
      [] c.op = "AskApi"       -> Queries!Ask(c.request, c.read)

CallOther ==
    /\ call = NoCall /\ group \in DOMAIN Calls
    /\ \E c \in Calls[group] :
          c.op \notin Testers /\ call' = c /\ answer' = Answer(c)
    /\ UNCHANGED group

Call == CallTester \/ CallOther

-----------------------------------------------------------------------------
(* A list is read as it is written, whatever the parser has read before: the  *)
(* context of every line is that of the readable lines above it; a point of a *)
(* pointlist belongs to the boss that they name, never to the one before an   *)
(* unreadable boss line, and an inline point of a nodelist to the last node   *)
(* that could be read; no host or port that flags name is lost; an issue has  *)
(* the date that its file name or its header gives.  What the archive holds   *)
(* of them is offered and what it offers is served, also while it is being    *)
(* moved; the tools that fill it publish each list once, a weekly from the    *)
(* tree or else in its newest revision, and whole also if interrupted, and a  *)
(* pointlist, if not interrupted, under the date that it is imported with.    *)
(* [ParseFileWithCRC, parseFlagsWithConfig, PointlistParser.ParseFile,        *)
(* ScanNetwork, FindFile, resolve, publish, resolveDate]                      *)
ListsAsWritten ==
    /\ Answered("ParseFile") => Parser!ReadAsWritten(call, answer)
    /\ Answered("ParseFlags") => Parser!NothingLost(call.parts, answer)
    /\ Answered("ParsePointlist") => Parser!PointsUnderTheirBoss(call, answer)
    /\ Answered("PointlistDate") => Parser!DatedByItsNumber(call, answer)
    /\ Answered("BrowseArchive") => Archive!ArchiveServed(call.files, call.dirs, answer)
    /\ Answered("ArchiveWeeklies") =>
          Archive!WeekliesPublished(call.network, call.candidates, call.writes, answer)
    /\ Answered("ArchivePointlists") => Archive!PointlistsPublished(call.corpus, answer)

(* The queries agree with what is stored and with each other: a search finds   *)
(* every node that it should, as it is now, and the summaries, the counts and  *)
(* the pages say the same; the changes of a node are its history; nothing of a *)
(* pointlist that is half imported is shown, and of overlapping sources the    *)
(* most authoritative is believed.  A page of the site and a reply of the API  *)
(* say what they were asked, or that they do not: the read that a page is      *)
(* about, if it failed, is never an empty table without a banner, what the API *)
(* is asked and cannot read is refused and not dropped, and with every read    *)
(* done an address that some network has whole is found in one that has it.    *)
(* The reads that a page makes beside, the search of the points and a failed   *)
(* read of the networks are passed over without a word, and a blank for the    *)
(* name of a sysop is dropped from the search of the points: PageTells,        *)
(* SearchTold and AddressTold say which, and what is answered then.            *)
(* [BuildNodesQuery, NodeSummarySearchSQL, GetNodeChanges,                     *)
(* detectInternetConfigChanges, pointSnapshotInnerSQL, renderAnalyticsNodes,   *)
(* SearchHandler, SearchNodesHandler, resolveEntityDomain, preferDomain]       *)
QueriesAgree ==
    /\ Answered("SearchNodes") => Nodes!SearchAgrees(call.rows, call.filter, answer)
    /\ Answered("NodeChanges") =>
          Nodes!ChangesTell(call.rows, call.node, call.domain, call.fails, answer)
    /\ Answered("ConfigChange") => Nodes!ConfigTold(call.prev, call.curr, answer)
    /\ Answered("Browse") => Nodes!BrowseAgrees(call.rows, call.date, call.domain, answer)
    /\ Answered("SearchPoints") => Points!PointsAgree(call.rows, call.gate, call.filter, answer)
    /\ Answered("FlagReport") => Census!FlagsTold(call.imports, call.flag, answer)
    /\ Answered("NetHistory") =>
          Census!HistoryTold(call.rows, call.zone, call.net, call.domain, answer)
    /\ Answered("OnThisDay") => Census!DayTold(call.rows, call.day, call.today, call.domain, answer)
    /\ Answered("Pioneers") =>
          Census!PioneersTold(call.rows, call.zone, call.region, call.domain, call.limit, answer)
    /\ Answered("Stats") => Census!StatsTold(call.rows, call.domain, answer)
    /\ Answered("PhoneReport") => Census!PhonesTold(call.rows, call.marks, answer)
    /\ Answered("EmailReport") =>
          Census!EmailTold(call.rows, call.useField, call.checks, answer)
    /\ Answered("Reports") =>
          Report!ReportsAgree(call.cycles, call.listings, call.now, call.period, answer)
    /\ Answered("HostReport") =>
          Hosts!HostsTold(call.log, call.current, call.from, call.lookups, answer)
    /\ Answered("ModemReport") => Hosts!ModemsTold(call.log, call.from, answer)
    /\ Answered("WebPage") => Web!PageTells(call.request, call.reads, answer)
    /\ Answered("WebTables") => Web!TablesAdd(call.rows, call.marks, answer)
    /\ Answered("WebDomains") => Web!DomainsTold(call.rows, call.now, call.typed, answer)
    /\ Answered("SearchForm") => Queries!SearchTold(call.form, call.reads, answer)
    /\ Answered("Address") =>
          Pages!AddressTold(call.request, call.rows, call.gate, call.reads, answer)
    /\ Answered("AskApi") => Queries!AskTold(call.request, call.read, answer)

(* The modem calls a node only in the windows into which those of its flags    *)
(* are merged, or else in its zone's mail hour, and nobody who was excluded,   *)
(* marked dead or reached of late.  The windows are the hours that the flags   *)
(* name where those of one source overlap on the same days; elsewhere they     *)
(* hold what lies between, and a whole day is never open (HoursKept).  A node  *)
(* whose window closes, before the call or between two of its retries, is      *)
(* called in its next one, every node without such a day is recorded once, and *)
(* its row is stored once, unless the batch it was sent with got lost.         *)
(* [ParseNodeFlags, IsCallableNow, GetNextCallTime, ScheduleNodes,             *)
(* runSingleTest, runBatchMode, NodelistDBWriter.Flush, SubmitResultsDirect]   *)
CallsInTime ==
    /\ Answered("CallTimes") =>
          Windows!HoursKept(call.flags, call.zone, call.pstn, Windows!HalfHours(call.day), answer)
    /\ Answered("ModemTest") => Modem!CalledInTime(call, answer)
=============================================================================
