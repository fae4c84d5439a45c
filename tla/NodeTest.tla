------------------------------ MODULE NodeTest ------------------------------
(***************************************************************************)
(* The test of one node: each of its hostnames is resolved, each protocol  *)
(* its flags name is probed at the addresses found, IPv6 first, and the    *)
(* results of several hostnames are folded into one.                       *)
(*                                                                         *)
(* A probe fails, with or without a message, or succeeds; a telnet probe   *)
(* may succeed without a banner; a VModem probe may confirm a VMODEM.      *)
(* Binkp, ifcico and FTP are treated alike.                                *)
(* The response time over both families follows from those of the families *)
(* and is left out.                                                        *)
(***************************************************************************)
EXTENDS Integers, Sequences, SequencesExt, FiniteSetsExt

CONSTANTS
    FlagSets,       \* sets of protocols a node may have the flags of
    MaxHostnames,
    MaxV6, MaxV4,   \* bound: addresses of a hostname
    MaxMs,          \* bound: response times are 1..MaxMs
    None,
    Single, Cancelled   \* what is returned without an aggregated row

Protocol == {"mailer", "telnet", "vmodem"}
Family == {"v6", "v4"}

VARIABLES
    flags,          \* the protocols of the node
    ino4,           \* its INO4 flag: no IPv4
    hostnames,      \* how many hostnames it has
    host,           \* the hostname under test, or None between two
    todo,           \* its probes to come: protocol, family and addresses left
    current,        \* its result
    results,        \* of the hostnames before
    row,            \* what TestNodeWithPartials returns, None before
    reached         \* history: protocols that some probe succeeded with

node == <<flags, ino4, hostnames>>
testVars == <<node, host, todo, current, results, row, reached>>

(* ProtocolTestResult.  "seen" details are a diagnosis, "confirmed" ones of a *)
(* VMODEM; an error is whether there is a message.  from: in an aggregated    *)
(* row, the hostname that the details are of.                                 *)
Details == {None, "seen", "confirmed"}
FamilyResult == [tested : BOOLEAN, success : BOOLEAN, ms : 0..MaxMs, error : BOOLEAN,
                 details : Details]
ProtocolResult == [success : BOOLEAN, v6 : FamilyResult, v4 : FamilyResult]

Untested == [tested |-> FALSE, success |-> FALSE, ms |-> 0, error |-> FALSE, details |-> None]
NoProbe == [success |-> FALSE, v6 |-> Untested, v4 |-> Untested]

HostResult == [dnsError : BOOLEAN, resolved : BOOLEAN, operational : BOOLEAN,
               protocol : [Protocol -> ProtocolResult \cup {None}]]

(* A protocol of the aggregated row. *)
FinalResult == [tested : BOOLEAN, success : BOOLEAN, v6 : FamilyResult, v4 : FamilyResult,
                from : Nat \cup {None}, error : {"none", "own", "generic"}]

(* What the constants are. *)
Parameters ==
    /\ FlagSets \subseteq SUBSET Protocol
    /\ MaxHostnames \in Nat /\ MaxV6 \in Nat /\ MaxV4 \in Nat /\ MaxMs \in Nat \ {0}
    /\ None \notin Nat \cup {"seen", "confirmed"} \cup ProtocolResult \cup HostResult \cup FinalResult

ASSUME NodeTestAssumption == Parameters

TestTypeOK ==
    /\ flags \in FlagSets /\ ino4 \in BOOLEAN /\ hostnames \in 0..MaxHostnames
    /\ host \in 1..hostnames \cup {None}
    /\ todo \in Seq([protocol : flags, family : Family, left : 1..(MaxV6 + MaxV4)])
    /\ current \in HostResult \cup {None}
    /\ results \in Seq(HostResult) /\ Len(results) <= hostnames
    /\ reached \subseteq flags
    /\ host # None <=> current # None
    /\ host # None => host = Len(results) + 1
    /\ row # None => host = None

TestInit ==
    /\ flags \in FlagSets /\ ino4 \in BOOLEAN /\ hostnames \in 0..MaxHostnames
    /\ host = None /\ todo = <<>>
    /\ current = None /\ results = <<>> /\ row = None
    /\ reached = {}

-----------------------------------------------------------------------------
(* performTesting: resolve, and plan the probes of the addresses. *)
Families(v6, v4) ==
    (IF v6 > 0 THEN <<[family |-> "v6", left |-> v6]>> ELSE <<>>)
    \o (IF v4 > 0 /\ ~ino4 THEN <<[family |-> "v4", left |-> v4]>> ELSE <<>>)

ProbesOf(v6, v4) ==
    LET families == Families(v6, v4)
        Of(p) == IF p \in flags
                 THEN [j \in DOMAIN families |-> [protocol |-> p, family |-> families[j].family,
                                                  left |-> families[j].left]]
                 ELSE <<>>
    IN Of("mailer") \o Of("telnet") \o Of("vmodem")

Resolve ==
    /\ row = None /\ host = None /\ Len(results) < hostnames
    /\ host' = Len(results) + 1
    /\ \E error \in BOOLEAN, v6 \in 0..MaxV6, v4 \in 0..MaxV4 :
        /\ error => v6 + v4 = 0
        /\ todo' = ProbesOf(v6, v4)
        /\ current' = [dnsError |-> error, resolved |-> v6 + v4 > 0, operational |-> FALSE,
                       protocol |-> [p \in Protocol |->
                            IF p \in flags /\ v6 + v4 > 0 THEN NoProbe ELSE None]]
    /\ UNCHANGED <<node, results, row, reached>>

(* What a tester returns. *)
Outcome == [success : BOOLEAN, ms : 1..MaxMs, error : BOOLEAN, banner : BOOLEAN, confirmed : BOOLEAN]

Possible(p, o) ==
    /\ o.success => ~o.error
    /\ ~o.success => o.ms = 1 /\ ~o.banner /\ ~o.confirmed
    /\ p # "vmodem" => ~o.confirmed /\ (o.success \/ o.error)
    /\ p # "telnet" => o.banner = o.success

(* SetIPv6Result and SetIPv4Result; of the details, the first address's are   *)
(* kept until one succeeds.                                                   *)
SetResult(pr, p, family, o) ==
    [pr EXCEPT
        !.success = @ \/ o.success,
        ![family] = [tested |-> TRUE, success |-> o.success,
                     ms |-> IF o.success THEN o.ms ELSE 0, error |-> o.error,
                     details |-> IF p # "vmodem" THEN None
                                 ELSE IF @.details # None /\ ~o.success THEN @.details
                                 ELSE IF o.confirmed THEN "confirmed" ELSE "seen"]]

(* "First successful IPv6 is enough"; for telnet, the first with a banner. *)
Stops(p, o) == o.success /\ (p = "telnet" => o.banner)

Rest(enough) ==
    IF enough \/ Head(todo).left = 1 THEN Tail(todo)
    ELSE <<[Head(todo) EXCEPT !.left = @ - 1]>> \o Tail(todo)

Probe ==
    /\ todo # <<>>
    /\ LET p == Head(todo).protocol
           family == Head(todo).family
       IN \E o \in Outcome :
            /\ Possible(p, o)
            /\ current' = [current EXCEPT !.protocol[p] = SetResult(@, p, family, o)]
            /\ todo' = Rest(Stops(p, o))
            /\ reached' = IF o.success THEN reached \cup {p} ELSE reached
    /\ UNCHANGED <<node, host, results, row>>

(* determineOperationalStatus *)
Succeeded(pr) == pr # None /\ pr.success

FinishHost ==
    /\ host # None /\ todo = <<>>
    /\ results' = Append(results,
            [current EXCEPT !.operational = \E p \in Protocol : Succeeded(current.protocol[p])])
    /\ host' = None /\ current' = None
    /\ UNCHANGED <<node, todo, row, reached>>

-----------------------------------------------------------------------------
(* mergeProtocolResult, of one family and of a protocol. *)
MergeFamilyLast(dst, src) ==  \* faulty variant: the last hostname wins
    IF src.tested THEN src ELSE dst
MergeFamily(dst, src) ==
    IF ~src.tested THEN dst
    ELSE IF src.success
    THEN [dst EXCEPT !.tested = TRUE, !.success = TRUE, !.error = FALSE,
             !.ms = IF ~dst.success \/ src.ms < @ THEN src.ms ELSE @]
    ELSE [dst EXCEPT !.tested = TRUE, !.error = @ \/ (~dst.success /\ src.error)]

(* An aggregated protocol: its families, whose details it has, and whether    *)
(* these are of a success (sawSuccess) and of a confirmed VMODEM (foundVMP).  *)
Empty == [v6 |-> Untested, v4 |-> Untested, from |-> None, sawSuccess |-> FALSE, foundVMP |-> FALSE]

MergeProtocolResult(dst, pr, h) ==
    [dst EXCEPT !.v6 = MergeFamily(@, pr.v6), !.v4 = MergeFamily(@, pr.v4),
                !.from = IF pr.success /\ @ = None THEN h ELSE @]

KeepFailureDetails(dst, pr, h) ==
    CASE pr.success /\ ~dst.sawSuccess -> [dst EXCEPT !.from = h, !.sawSuccess = TRUE]
      [] ~pr.success /\ ~dst.sawSuccess /\ dst.from = None -> [dst EXCEPT !.from = h]
      [] OTHER -> dst

(* VModemDetails: of the family that worked, IPv6 first. *)
VModemDetails(pr) ==
    CASE pr.v6.success -> pr.v6.details
      [] pr.v4.success -> pr.v4.details
      [] pr.v6.details # None -> pr.v6.details
      [] OTHER -> pr.v4.details

PreferConfirmedVMODEM(dst, pr, h) ==
    IF ~dst.foundVMP /\ VModemDetails(pr) = "confirmed"
    THEN [dst EXCEPT !.from = h, !.foundVMP = TRUE] ELSE dst

MergeHost(p, dst, h) ==
    LET pr == results[h].protocol[p]
        merged == MergeProtocolResult(dst, pr, h)
    IN IF pr = None THEN dst
       ELSE IF p # "vmodem" THEN merged
       ELSE PreferConfirmedVMODEM(KeepFailureDetails(merged, pr, h), pr, h)

(* finalizeProtocolResult *)
Finalize(acc) ==
    LET tested == acc.v4.tested \/ acc.v6.tested
        success == acc.v4.success \/ acc.v6.success
    IN [tested |-> tested, success |-> success, v6 |-> acc.v6, v4 |-> acc.v4, from |-> acc.from,
        error |-> CASE success -> "none"
                    [] acc.v4.error \/ acc.v6.error -> "own"
                    [] tested -> "generic"
                    [] OTHER -> "none"]

(* The first hostnames, folded. *)
MergedHosts(p) ==
    LET merged[h \in 0..Len(results)] ==
            IF h = 0 THEN Empty ELSE MergeHost(p, merged[h - 1], h)
    IN merged

AggregatedProtocol(p) ==
    IF \A h \in DOMAIN results : results[h].protocol[p] = None THEN None
    ELSE Finalize(MergedHosts(p)[Len(results)])

(* CreateAggregatedResult *)
OperationalFromFinal(protocol) == \* faulty variant: from the aggregated protocols
    \E p \in Protocol : Succeeded(protocol[p])
Operational(protocol) ==
    \E h \in DOMAIN results :
        results[h].operational \/ \E p \in Protocol : Succeeded(results[h].protocol[p])

AnyDnsSuccess == \E h \in DOMAIN results : results[h].resolved

Aggregated ==
    LET protocol == [p \in Protocol |-> AggregatedProtocol(p)] IN
    [operational |-> Operational(protocol),
     issues |-> ~Operational(protocol) /\ AnyDnsSuccess,
     dnsError |-> ~AnyDnsSuccess /\ \E h \in DOMAIN results : results[h].dnsError,
     hostnamesOperational |-> Cardinality({h \in DOMAIN results : results[h].operational}),
     protocol |-> protocol]

ReturnAggregated ==
    /\ row = None /\ host = None /\ hostnames > 1 /\ Len(results) = hostnames
    /\ row' = Aggregated
    /\ UNCHANGED <<node, host, todo, current, results, reached>>

(* One hostname: its result.  Without one, the result is that of no hostname. *)
ReturnSingle ==
    /\ row = None /\ host = None /\ hostnames <= 1 /\ Len(results) = hostnames
    /\ row' = Single
    /\ UNCHANGED <<node, host, todo, current, results, reached>>

(* The context ends in the pause after a hostname: no result at all. *)
Cancel ==
    /\ row = None /\ host = None /\ hostnames > 1 /\ results # <<>>
    /\ row' = Cancelled
    /\ UNCHANGED <<node, host, todo, current, results, reached>>

TestNext == Resolve \/ Probe \/ FinishHost \/ ReturnAggregated \/ ReturnSingle \/ Cancel

TestSpec == TestInit /\ [][TestNext]_testVars

-----------------------------------------------------------------------------
HasAggregate == row \notin {None, Single, Cancelled}

(* A node is operational exactly when some probe of some hostname succeeded:  *)
(* that a later address or a later hostname fails does not undo it, also      *)
(* where the family's fields forget the success.  Only telnet's do, whose     *)
(* probes go on after a success without a banner: for the others the          *)
(* aggregated protocol is a success exactly when a probe was.                 *)
(* [SetIPv4Result, determineOperationalStatus, CreateAggregatedResult]        *)
OperationalIffReached ==
    /\ TestTypeOK
    /\ row # None /\ hostnames = 1 => results[1].operational = (reached # {})
    /\ HasAggregate =>
          /\ row.operational = (reached # {})
          /\ \A p \in flags \ {"telnet"} : Succeeded(row.protocol[p]) = (p \in reached)

(* What family results say together: tested if one tested it, a success if    *)
(* one had a success, the shortest of their response times, and an error only *)
(* without a success.                                                         *)
SaysTogether(merged, of) ==
    LET good == {f \in of : f.success} IN
    /\ merged.tested = (\E f \in of : f.tested)
    /\ merged.success = (good # {})
    /\ merged.ms = IF good = {} THEN 0 ELSE Min({f.ms : f \in good})
    /\ merged.error = (good = {} /\ \E f \in of : f.error)

OfHosts(p, family) == {results[h].protocol[p][family] :
                          h \in {h \in DOMAIN results : results[h].protocol[p] # None}}

(* The aggregated row of a protocol says of a family what its hostnames say   *)
(* together, whatever their order. [mergeProtocolResult]                      *)
FamilyMerged ==
    HasAggregate => \A p \in flags, family \in Family :
        row.protocol[p] # None => SaysTogether(row.protocol[p][family], OfHosts(p, family))

(* The VModem details of the aggregated row are those of the first hostname   *)
(* with a confirmed VMODEM; failing that, of the first that succeeded; and    *)
(* if none did, of the first hostname that has a result at all.  That one may *)
(* not have been probed (INO4 and an IPv4 address only): its empty details    *)
(* then stand before the diagnosis of a later hostname, which the comment of  *)
(* keepFailureDetails says the row carries.                                   *)
(* [keepFailureDetails, preferConfirmedVMODEM]                                *)
DetailsOfTheBest ==
    HasAggregate /\ row.protocol["vmodem"] # None =>
        LET of == {h \in DOMAIN results : results[h].protocol["vmodem"] # None}
            confirmed == {h \in of : VModemDetails(results[h].protocol["vmodem"]) = "confirmed"}
            succeeded == {h \in of : results[h].protocol["vmodem"].success}
        IN row.protocol["vmodem"].from =
            Min(CASE confirmed # {} -> confirmed
                  [] confirmed = {} /\ succeeded # {} -> succeeded
                  [] OTHER -> of)  \* diagnosed or not

(* A node is operational exactly when something answered, and the aggregated  *)
(* row is what its hostnames say together, whatever their order.              *)
(* [determineOperationalStatus, CreateAggregatedResult]                       *)
AggregateSound == OperationalIffReached /\ FamilyMerged /\ DetailsOfTheBest
=============================================================================
