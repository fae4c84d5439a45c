-------------------------- MODULE ProtocolClients --------------------------
(***************************************************************************)
(* The clients of internal/testing/protocols, each as a function of what   *)
(* the peer does: the telnet layer, and the BinkP, FTP, telnet, ifcico and *)
(* VModem testers.                                                         *)
(*                                                                         *)
(* The EMSI session and the Virtual Modem Protocol are libraries: of them  *)
(* there is only the outcome.  Names, banners and times are left out.      *)
(***************************************************************************)
EXTENDS Integers, Sequences, FiniteSets, SequencesExt, FiniteSetsExt

-----------------------------------------------------------------------------
(* telnetBinaryConn: a filter between the connection and its reader. A byte   *)
(* is "IAC", one of the commands, an option, or data.                         *)
Accepted == {"BINARY", "SGA"}

Negotiate(cmd, opt) ==
    CASE cmd = "DO"   -> <<"IAC", IF opt \in Accepted THEN "WILL" ELSE "WONT", opt>>
      [] cmd = "WILL" -> <<"IAC", IF opt \in Accepted THEN "DO" ELSE "DONT", opt>>
      [] cmd = "WONT" -> <<"IAC", "DONT", opt>>
      [] cmd = "DONT" -> <<"IAC", "WONT", opt>>

Commands == {"WILL", "WONT", "DO", "DONT"}

(* The data decoded, the replies to send, and the data not yet decoded. *)
Fresh == [decoded |-> <<>>, replies |-> <<>>, pending |-> <<>>]

Drop(s, n) == [s EXCEPT !.pending = SubSeq(@, n + 1, Len(@))]
Decode(s, byte) == [s EXCEPT !.decoded = Append(@, byte)]

(* Where a subnegotiation at the head of the data may end. *)
Ends(data) == {j \in 3..(Len(data) - 1) : data[j] = "IAC" /\ data[j + 1] = "SE"}

(* One turn of the loop in process: the next byte, command or subnegotiation, *)
(* unless the data end within it. *)
ProcessNext(s) ==
    LET data == s.pending IN
    CASE data = <<>> \/ data = <<"IAC">> -> s
      [] data # <<>> /\ data[1] # "IAC" -> Drop(Decode(s, data[1]), 1)
      [] Len(data) > 1 /\ data[1] = "IAC" ->
           CASE data[2] = "IAC" -> Drop(Decode(s, "IAC"), 2)
             [] data[2] \in Commands ->
                  IF Len(data) = 2 THEN s
                  ELSE Drop([s EXCEPT !.replies = @ \o Negotiate(data[2], data[3])], 3)
             [] data[2] = "SB" -> IF Ends(data) = {} THEN s ELSE Drop(s, Min(Ends(data)) + 1)
             [] OTHER -> Drop(s, 2)

(* process: every turn but the last takes at least a byte. *)
Turns(s) == LET run[n \in Nat] == IF n = 0 THEN s ELSE ProcessNext(run[n - 1]) IN run
Process(s, data) == Turns([s EXCEPT !.pending = data])[Len(data)]

(* Read, once per chunk that arrives: what was left of the last one goes first. *)
ReadChunkAlone(s, chunk) ==    \* faulty variant: every chunk on its own
    Process(s, chunk)
ReadChunk(s, chunk) == Process(s, s.pending \o chunk)

Reads(chunks) ==
    LET read[n \in 0..Len(chunks)] ==
            IF n = 0 THEN Fresh ELSE ReadChunk(read[n - 1], chunks[n])
    IN read
ReadStream(chunks) == Reads(chunks)[Len(chunks)]

(* Write *)
Escape(data) == FlattenSeq([i \in DOMAIN data |-> IF data[i] = "IAC" THEN <<"IAC", "IAC">> ELSE <<data[i]>>])

(* What the reader gets and the peer is answered does not depend on how the   *)
(* network cuts the stream, and what one end writes the other reads.          *)
(* [telnetBinaryConn.Read, process, Write]                                    *)
StreamAsSent(chunks, r) ==
    LET stream == FlattenSeq(chunks) IN
    /\ r = Process(Fresh, stream)
    /\ Process(Fresh, Escape(stream)) = [Fresh EXCEPT !.decoded = stream]

(* cleanBanner: negotiations of three bytes are skipped, and what cannot be   *)
(* printed; an IAC at the end stays. *)
Printable == {"a", "IAC"}

Clean(s, data, i) ==
    CASE s.skip > 0 -> [s EXCEPT !.skip = @ - 1]
      [] s.skip = 0 /\ data[i] = "IAC" /\ i + 2 <= Len(data) -> [s EXCEPT !.skip = 2]
      [] OTHER -> IF data[i] \in Printable THEN [s EXCEPT !.banner = Append(@, data[i])] ELSE s

Cleanings(data) ==
    LET clean[n \in 0..Len(data)] ==
            IF n = 0 THEN [skip |-> 0, banner |-> <<>>] ELSE Clean(clean[n - 1], data, n)
    IN clean
CleanBanner(data) == Cleanings(data)[Len(data)].banner

(* TelnetTester.Test: who says nothing in time is reachable all the same. *)
TelnetTest(up, inTime, data) ==
    [success |-> up, banner |-> IF up /\ inTime THEN CleanBanner(data) ELSE <<>>]

(* Text, or a negotiation of three bytes that has arrived whole. *)
TextOrOption(piece) ==
    \/ \E byte \in Printable \ {"IAC"} : piece = <<byte>>
    \/ Len(piece) = 3 /\ piece[1] = "IAC" /\ piece[2] \in Commands

(* Where nothing before can have taken the byte with it, and where one can be *)
(* shown at all: an IAC only where no two bytes follow. *)
Exposed(data) ==
    {i \in DOMAIN data : /\ data[i] \in Printable \ {"IAC"}
                         /\ \A j \in DOMAIN data : j < i /\ i <= j + 2 => data[j] # "IAC"}
MayShow(data) ==
    {i \in DOMAIN data : data[i] \in Printable /\ (data[i] = "IAC" => Len(data) < i + 2)}

Picks(shown, data, text) ==
    /\ Cardinality(shown) = Len(text)
    /\ \A i \in shown : text[Cardinality({j \in shown : j <= i})] = data[i]

(* Only the first read is looked at.  If it holds text and whole negotiations *)
(* of three bytes, its banner is what the telnet layer would decode.  Of any  *)
(* other bytes this does not hold: whatever follows an IAC, it takes the two  *)
(* next bytes with it, be it a command of two bytes, a doubled IAC or the ends *)
(* of a subnegotiation, whose inside is shown; and an IAC that a cut left with *)
(* less than two is shown itself.  But no more is lost, and nothing is shown  *)
(* that was not said, in its order.  [TelnetTester.Test, cleanBanner, process]  *)
BannerAsShown(up, inTime, pieces, r) ==
    LET data == FlattenSeq(pieces) IN
    /\ r.success = up
    /\ ~(up /\ inTime) => r.banner = <<>>
    /\ up /\ inTime =>
        /\ (\A i \in DOMAIN pieces : TextOrOption(pieces[i])) =>
                r.banner = Process(Fresh, data).decoded
        /\ \E shown \in SUBSET MayShow(data) :
                Exposed(data) \subseteq shown /\ Picks(shown, data, r.banner)

-----------------------------------------------------------------------------
(* A BinkP session.  The remote sends frames, and then nothing, or closes. A  *)
(* frame that is no command has type 0, which is that of M_NUL.               *)
FrameType(frame) == IF frame.command THEN frame.type ELSE "NUL"

NewSession == [adr |-> FALSE, addresses |-> {}, system |-> FALSE, remoteEOB |-> FALSE,
               sentEOB |-> 0, read |-> 0, result |-> "none"]

SendEOB(s, remote) ==
    IF s.sentEOB = 0 /\ remote.takesEOB THEN [s EXCEPT !.sentEOB = 1] ELSE s

ReceiveEOB(s, remote) ==
    IF ~s.adr THEN [s EXCEPT !.remoteEOB = TRUE, !.result = "error"]
    ELSE SendEOB([s EXCEPT !.remoteEOB = TRUE, !.result = "ok"], remote)

Receive(s, remote, frame) ==
    LET t == [s EXCEPT !.read = @ + 1] IN
    CASE FrameType(frame) = "NUL" -> [t EXCEPT !.system = @ \/ frame.system]
      [] FrameType(frame) = "ADR" -> [t EXCEPT !.addresses = frame.addresses, !.adr = TRUE]
      [] FrameType(frame) = "OK"  -> [t EXCEPT !.result = "ok"]
      [] FrameType(frame) \in {"ERR", "BSY"} -> [t EXCEPT !.result = "error"]
      [] FrameType(frame) = "EOB" -> ReceiveEOB(t, remote)
      [] OTHER -> t

(* receiveRemoteInfo: at most maxFrames frames. *)
ReceiveNext(s, remote, maxFrames) ==
    CASE s.result # "none" -> s
      [] s.result = "none" /\ s.read = maxFrames ->
            [s EXCEPT !.result = IF s.adr THEN "ok" ELSE "error"]
      [] s.result = "none" /\ s.read < maxFrames /\ s.read = Len(remote.frames) ->
            [s EXCEPT !.result = IF remote.closes /\ s.adr THEN "ok" ELSE "error"]
      [] OTHER -> Receive(s, remote, remote.frames[s.read + 1])

Receptions(remote, maxFrames) ==
    LET run[n \in Nat] ==
            IF n = 0 THEN NewSession ELSE ReceiveNext(run[n - 1], remote, maxFrames)
    IN run
ReceiveRemoteInfo(remote, maxFrames) == Receptions(remote, maxFrames)[maxFrames + 1]

(* Close: one more frame is read if the remote's M_EOB is missing. *)
CloseSession(s, remote) ==
    LET t == SendEOB(s, remote) IN
    [t EXCEPT !.remoteEOB = @ \/ /\ s.read < Len(remote.frames)
                                 /\ FrameType(remote.frames[s.read + 1]) = "EOB"]

(* normalizeAddress: without the domain and without the point 0. *)
NormalizeAddress(a) == [a EXCEPT !.domain = "", !.point = IF @ = "0" THEN "" ELSE @]

ValidateAddress(s, expected) ==
    \E a \in s.addresses : NormalizeAddress(a) = NormalizeAddress(expected)

BinkpTest(remote, expected, maxFrames) ==
    LET s == ReceiveRemoteInfo(remote, maxFrames) IN
    IF ~remote.takesInfo \/ s.result # "ok"
    THEN [success |-> FALSE, valid |-> FALSE, sentEOB |-> s.sentEOB]
    ELSE [success |-> TRUE, valid |-> ValidateAddress(s, expected),
          sentEOB |-> CloseSession(s, remote).sentEOB]

(* The test succeeds when the remote accepts before it refuses: with M_OK, or *)
(* with its address and then an M_EOB, the end of the connection or no end of *)
(* frames.  The address is valid only if the remote's last M_ADR has it, and  *)
(* our M_EOB is sent once at most. [receiveRemoteInfo, ValidateAddress]       *)
BinkpSound(remote, expected, maxFrames, r) ==
    LET Type(i) == FrameType(remote.frames[i])
        heard == 1..Min({Len(remote.frames), maxFrames})
        decisive == {i \in heard : Type(i) \in {"OK", "EOB", "ERR", "BSY"}}
        until == IF decisive = {} THEN heard ELSE 1..Min(decisive)
        adr == {i \in until : Type(i) = "ADR"}
        last == IF decisive = {}
                THEN IF maxFrames <= Len(remote.frames) \/ remote.closes THEN "EOB" ELSE "silence"
                ELSE Type(Min(decisive))
    IN /\ r.success = (remote.takesInfo /\ (last = "OK" \/ (last = "EOB" /\ adr # {})))
       /\ r.valid = (/\ r.success /\ adr # {}
                     /\ \E a \in remote.frames[Max(adr)].addresses :
                            NormalizeAddress(a) = NormalizeAddress(expected))
       /\ r.sentEOB \in {0, 1} /\ (r.success /\ remote.takesEOB => r.sentEOB = 1)

-----------------------------------------------------------------------------
(* FTP.  A line, trimmed before it is looked at, has a three-digit code, or "" *)
(* if it does not begin with one, and what follows the code: a space, nothing, *)
(* a dash, or something else. *)
EndsReply(line) == line.code # "" /\ line.after \in {" ", ""}

(* readFullFTPResponse: the last code of a reply that may lack its end. *)
ReadReply(lines) ==
    LET ends == {i \in DOMAIN lines : EndsReply(lines[i])}
        n == IF ends = {} THEN Len(lines) ELSE Min(ends)
        coded == {i \in 1..n : lines[i].code # ""}
    IN [code |-> IF coded = {} THEN "" ELSE lines[Max(coded)].code,
        rest |-> SubSeq(lines, n + 1, Len(lines))]

TryAnonymousLogin(lines) ==
    LET user == ReadReply(lines)
        pass == ReadReply(user.rest)
    IN [tested |-> user.code # "",
        login |-> user.code = "230" \/ (user.code = "331" /\ pass.code = "230")]

FtpTest(lines) ==
    LET banner == ReadReply(lines)
        anonymous == TryAnonymousLogin(banner.rest)
        success == banner.code = "220"
    IN [success |-> success, tested |-> success /\ anonymous.tested,
        login |-> success /\ anonymous.login]

(* A reply none of whose lines looks like the last before the last does. *)
EndsOnce(reply) ==
    /\ Len(reply) > 0 /\ EndsReply(reply[Len(reply)])
    /\ \A i \in 1..(Len(reply) - 1) : ~EndsReply(reply[i])

(* Every command is judged by its own reply, of however many lines, if each   *)
(* reply ends once.  A line within a reply that begins with a code and a space *)
(* ends it for the reader, also when the server has padded it so that it does  *)
(* not (RFC 959), and the rest is taken for the next reply.  Even then no     *)
(* banner is accepted, and no login believed, without the code that says so,  *)
(* the login's after the banner's.  [readFullFTPResponse, tryAnonymousLogin]  *)
JudgedByItsReply(replies, r) ==
    LET Code(i) == IF i <= Len(replies) THEN Last(replies[i]).code ELSE ""
        lines == FlattenSeq(replies)
        Says(i, code) == i \in DOMAIN lines /\ lines[i].code = code
    IN /\ (\A i \in 1..Len(replies) : EndsOnce(replies[i])) =>
            /\ r.success = (Code(1) = "220")
            /\ r.tested = (r.success /\ Code(2) # "")
            /\ r.login = (r.success /\ (Code(2) = "230" \/ (Code(2) = "331" /\ Code(3) = "230")))
       /\ r.success => \E i \in DOMAIN lines : Says(i, "220")
       /\ r.tested => r.success
       /\ r.login => r.tested /\ \E i, j \in DOMAIN lines : i < j /\ Says(i, "220") /\ Says(j, "230")
-----------------------------------------------------------------------------
(* An EMSI handshake over a connection: whether it fails, and what is known   *)
(* of the remote afterwards: nothing, a product name guessed from a banner,   *)
(* or what its EMSI_DAT says; mailer: whether a product is named.             *)
EmsiInfo == {"none", "banner", "dat"}

(* IfcicoTester.Test.  The name is that of the system, or the library's       *)
(* placeholder for a banner, or one that says that no data came. *)
IfcicoTest(up, emsi, expected) ==
    IF ~up \/ emsi.fails
    THEN [success |-> FALSE, name |-> "", source |-> "", valid |-> FALSE]
    ELSE [success |-> TRUE,
          name |-> CASE emsi.info = "none" -> "no data" [] emsi.info = "banner" -> "placeholder"
                     [] OTHER -> "announced",
          source |-> CASE emsi.info = "none" -> "" [] emsi.info = "banner" -> "banner"
                       [] OTHER -> "emsi_dat",
          valid |-> emsi.info # "none" /\ expected \in emsi.addresses]

(* emsiOver: what is copied into the result, and the note on the outcome. *)
EmsiOver(res, emsi, expected) ==
    LET announced == emsi.info = "dat" IN
    [res EXCEPT
        !.software = @ \/ (emsi.info # "none" /\ emsi.mailer),
        !.identity = announced,
        !.valid = announced /\ expected \in emsi.addresses,
        !.note = CASE announced -> IF emsi.fails THEN "read, then failed" ELSE ""
                   [] emsi.info = "banner" -> "guessed"
                   [] emsi.info = "none" /\ emsi.fails -> "failed"
                   [] OTHER -> "none sent"]

(* Of one and the same handshake that ends well, both testers find the same   *)
(* address valid, one that was announced.  The VModem tester stores a name    *)
(* only if one was announced; the ifcico tester always stores one, also the   *)
(* placeholder that is never a system name (vmodem_tester.go:482), and of its  *)
(* names the announced are known by the source. [IfcicoTester.Test, emsiOver] *)
TestersAgree(up, emsi, expected, r) ==
    LET vmodem == EmsiOver([software |-> FALSE, identity |-> FALSE, valid |-> FALSE, note |-> ""],
                           emsi, expected)
    IN /\ r.success = (up /\ ~emsi.fails)
       /\ r.success =>
            /\ r.valid = vmodem.valid /\ (r.valid => vmodem.identity)
            /\ r.name # "" /\ (r.name = "announced") = vmodem.identity
            /\ (r.source = "emsi_dat") = (r.name = "announced")

-----------------------------------------------------------------------------
(* The VModem tester.  A peer: whether it can be reached, the first and the   *)
(* second time; when it speaks: at once, later, only when nudged with an      *)
(* EMSI_INQ, or never; over telnet or not; what its opening bytes and its     *)
(* answer to a nudge contain; what becomes of a call placed to it; and how an *)
(* EMSI handshake with it ends.                                               *)
Speaks == {"at once", "later", "nudged", "never"}
Replies == {"REQ", "MD5"}       \* containsEMSIReply
Markers == {"REQ", "HBT"}       \* hasEMSIMarker, without EMSI_INQ

(* sniff: what was heard, and whether the peer was nudged for it. *)
Sniff(peer, greeted) ==
    LET silent == ~greeted /\ peer.speaks \in {"nudged", "never"}
        nudged == silent \/ (peer.speaks # "never" /\ peer.telnet /\ peer.opening \cap Replies = {})
    IN IF peer.speaks = "never" THEN [app |-> {}, telnet |-> FALSE, nudged |-> TRUE]
       ELSE [app |-> peer.opening \cup (IF nudged /\ peer.telnet THEN peer.answer ELSE {}),
             telnet |-> peer.telnet, nudged |-> nudged]

HasEMSIMarker(heard) ==
    heard.app \cap Markers # {} \/ (~heard.nudged /\ "INQ" \in heard.app)

NoResult == [success |-> FALSE, variant |-> "", conformant |-> FALSE, software |-> FALSE,
             identity |-> FALSE, valid |-> FALSE, note |-> "", outcome |-> "", called |-> FALSE,
             left |-> 0]
Down(res) == [res EXCEPT !.variant = "down"]
Is(res, variant) == [res EXCEPT !.success = TRUE, !.variant = variant]

(* emsiIdentity, on a connection of its own. *)
EmsiIdentity(res, peer, expected) ==
    IF peer.upAgain THEN [EmsiOver(res, peer.emsi, expected) EXCEPT !.note = ""] ELSE res

(* classify *)
Classify(res, peer, heard, expected) ==
    CASE "VMP" \in heard.app ->
            [Is(res, "vmp") EXCEPT !.conformant = TRUE, !.software = TRUE]
      [] "VMP" \notin heard.app /\ HasEMSIMarker(heard) ->
            LET r == EmsiIdentity(Is(res, IF heard.telnet THEN "emsi-telnet" ELSE "emsi-raw"), peer, expected)
            IN [r EXCEPT !.software = @ \/ "product" \in heard.app]
      [] "VMP" \notin heard.app /\ ~HasEMSIMarker(heard) /\ "NUL" \in heard.app -> Is(res, "binkp")
      [] heard.app \cap {"VMP", "NUL"} = {} /\ ~HasEMSIMarker(heard) ->
            CASE heard.telnet /\ "product" \in heard.app ->
                   [EmsiIdentity(Is(res, "emsi-telnet"), peer, expected) EXCEPT !.software = TRUE]
              [] ~(heard.telnet /\ "product" \in heard.app) /\ "banner" \in heard.app -> Is(res, "banner")
              [] heard.telnet /\ heard.app \cap {"product", "banner"} = {} -> Is(res, "telnet-login")
              [] OTHER -> [res EXCEPT !.variant = "unknown"]

(* placeVMPCall, on the first connection, which the library closes; a call    *)
(* given up while waiting for the port leaves it open. *)
PlaceVMPCall(res, peer, expected) ==
    LET vmp == [Is(res, "vmp") EXCEPT !.conformant = TRUE, !.software = TRUE, !.called = TRUE,
                                      !.outcome = peer.call]
    IN CASE peer.call = "no-local-port" ->
              [res EXCEPT !.variant = "vmp", !.outcome = peer.call]
         [] peer.call = "connected" -> EmsiOver(vmp, peer.emsi, expected)
         [] peer.call = "no answer" -> vmp
         [] peer.call = "cancelled" -> [res EXCEPT !.left = 1]
         [] OTHER -> res     \* an error, or no VMODEM: silent, or something else

IsVMODEM(call) == call \in {"no-local-port", "connected", "no answer"}

(* A fresh connection after the call, or the first one. *)
Fallback(res, peer, expected, greeted) ==
    LET r == Classify(res, peer, Sniff(peer, greeted), expected) IN
    IF peer.call = "silent" /\ ~greeted /\ res.called /\ r.variant = "unknown"
    THEN [r EXCEPT !.outcome = "no-reply"] ELSE r

(* test: mayCall is FALSE once the node's mailer has been rung. *)
VModemTest(peer, enabled, mayCall, expected) ==
    LET calls == enabled /\ mayCall /\ peer.speaks # "at once"
        tried == PlaceVMPCall([NoResult EXCEPT !.called = peer.call # "cancelled"], peer, expected)
    IN CASE ~peer.up -> Down(NoResult)
         [] peer.up /\ ~calls -> Fallback(NoResult, peer, expected, peer.speaks = "at once")
         [] peer.up /\ calls /\ IsVMODEM(peer.call) -> tried
         [] peer.up /\ calls /\ ~IsVMODEM(peer.call) ->
              IF ~peer.upAgain THEN Down(tried) ELSE Fallback(tried, peer, expected, FALSE)

(* Nobody is called who greets, or who has been called for this node before;  *)
(* a peer passes for a VMODEM only by what it proved itself; a node counts as *)
(* a failure only if it cannot be reached, or nobody can tell what it is, or  *)
(* we had no port for the call; an identity is one that was announced, never  *)
(* a guess, nor our own EMSI_INQ sent back; and no connection stays open but  *)
(* that of a call given up while it waits for the port, which is not closed   *)
(* although the comment at vmodem_tester.go:224 says that it has been.        *)
(* [test, placeVMPCall, classify, hasEMSIMarker, emsiOver]                    *)
VModemSound(peer, enabled, mayCall, r) ==
    /\ r.called => enabled /\ mayCall /\ peer.speaks # "at once"
    /\ r.conformant => \/ r.called /\ peer.call \in {"connected", "no answer"}
                       \/ "VMP" \in peer.opening \cup peer.answer
    /\ ~r.success => \/ r.variant \in {"down", "unknown"}
                     \/ r.variant = "vmp" /\ r.outcome = "no-local-port"
    /\ r.identity => peer.emsi.info = "dat"
    /\ r.valid => r.identity
    /\ r.variant \in {"emsi-raw", "emsi-telnet"} =>
            \/ (peer.opening \cup peer.answer) \cap {"REQ", "HBT", "product"} # {}
            \/ "INQ" \in peer.opening /\ peer.speaks \in {"at once", "later"}
    /\ r.left = 0 \/ (r.called = FALSE /\ peer.call = "cancelled")
=============================================================================
