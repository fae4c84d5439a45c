---------------------------- MODULE TesterCalls -----------------------------
(***************************************************************************)
(* Calls to the protocol clients: what a peer does, and the answer to it.  *)
(***************************************************************************)
EXTENDS Integers, Sequences, FiniteSets, SequencesExt

Client == INSTANCE ProtocolClients

CONSTANTS
    Calls,      \* bound: a sequence of sets of calls, each with the name op of what is called
    NoCall, Pending

VARIABLES
    group,     \* which of the sets is called from
    call, answer

machine == <<group, call, answer>>

Idle(f) == group = f /\ call = NoCall /\ answer = Pending

Testers == {"ReadStream", "TelnetTest", "BinkpTest", "FtpTest", "IfcicoTest", "VModemTest"}

-----------------------------------------------------------------------------
(* What a peer can do, and the code can see of it: the types of the calls.   *)

Byte == STRING \cup Client!Printable \cup Client!Commands

ReplyLines == [code : STRING, after : STRING]

Handshake(emsi) ==
    /\ emsi.info \in Client!EmsiInfo /\ emsi.fails \in BOOLEAN /\ emsi.mailer \in BOOLEAN
    /\ emsi.info # "dat" => emsi.addresses = {}

Outcomes == {"no-local-port", "connected", "no answer", "cancelled", "silent", "error"}

IsPeer(peer) ==
    /\ peer.up \in BOOLEAN /\ peer.upAgain \in BOOLEAN /\ peer.telnet \in BOOLEAN
    /\ peer.speaks \in Client!Speaks /\ peer.call \in Outcomes
    /\ Handshake(peer.emsi)

Arguments(c) ==
    /\ c.op = "ReadStream" => c.chunks \in Seq(Seq(Byte))
    /\ c.op = "TelnetTest" =>
          c.up \in BOOLEAN /\ c.inTime \in BOOLEAN /\ c.pieces \in Seq(Seq(Byte))
    /\ c.op = "BinkpTest" =>
          Len(c.remote.frames) \in Nat /\ c.maxFrames \in Nat /\ c.remote.takesInfo \in BOOLEAN
    /\ c.op = "FtpTest" => c.replies \in Seq(Seq(ReplyLines))
    /\ c.op = "IfcicoTest" => c.up \in BOOLEAN /\ Handshake(c.emsi)
    /\ c.op = "VModemTest" =>
          IsPeer(c.peer) /\ c.enabled \in BOOLEAN /\ c.mayCall \in BOOLEAN

ASSUME TesterArguments ==
    \A f \in DOMAIN Calls : \A c \in Calls[f] : c.op \in Testers => Arguments(c)

AnswerOfTester(c) ==
    CASE c.op = "ReadStream"     -> Client!ReadStream(c.chunks)
      [] c.op = "TelnetTest"     -> Client!TelnetTest(c.up, c.inTime, FlattenSeq(c.pieces))
      [] c.op = "BinkpTest"      -> Client!BinkpTest(c.remote, c.expected, c.maxFrames)
      [] c.op = "FtpTest"        -> Client!FtpTest(FlattenSeq(c.replies))
      [] c.op = "IfcicoTest"     -> Client!IfcicoTest(c.up, c.emsi, c.expected)
      [] c.op = "VModemTest"     -> Client!VModemTest(c.peer, c.enabled, c.mayCall, c.expected)

CallTester ==
    /\ call = NoCall /\ group \in DOMAIN Calls
    /\ \E c \in Calls[group] :
          c.op \in Testers /\ call' = c /\ answer' = AnswerOfTester(c)
    /\ UNCHANGED group

TesterSpec == (\E f \in DOMAIN Calls : Idle(f)) /\ [][CallTester]_machine

Answered(op) == call # NoCall /\ call.op = op

-----------------------------------------------------------------------------
(* What a peer says reaches the reader of the telnet layer, and a BinkP       *)
(* session, however the network cuts it.  The telnet tester shows its first    *)
(* read without the negotiations if they are of three bytes and whole, and    *)
(* else loses at most the two bytes after an IAC; the FTP tester judges by    *)
(* replies that end once, and never without a code.  The VModem tester calls  *)
(* nobody who greets or was called for this node, and says no more of a peer  *)
(* than it has shown; a name that was not announced is stored by the ifcico   *)
(* tester alone.                                                              *)
(* [telnetBinaryConn.Read, receiveRemoteInfo, readFullFTPResponse, classify]  *)
PeersUnderstood ==
    /\ Answered("ReadStream") => Client!StreamAsSent(call.chunks, answer)
    /\ Answered("TelnetTest") => Client!BannerAsShown(call.up, call.inTime, call.pieces, answer)
    /\ Answered("BinkpTest") => Client!BinkpSound(call.remote, call.expected, call.maxFrames, answer)
    /\ Answered("FtpTest") => Client!JudgedByItsReply(call.replies, answer)
    /\ Answered("IfcicoTest") => Client!TestersAgree(call.up, call.emsi, call.expected, answer)
    /\ Answered("VModemTest") => Client!VModemSound(call.peer, call.enabled, call.mayCall, answer)
=============================================================================
