-------------------------- MODULE TcpConnectionMgr --------------------------
(***************************************************************************)
(* The two ends of a TCP bearer (net/tunnel/TcpConnectionMgr.cc, with      *)
(* utils/LockedQueue.h): each keeps a queue of messages to send and a      *)
(* queue of messages received, a manager thread that connects (or accepts) *)
(* and sends, and while connected a receive thread.  When the connection   *)
(* fails the manager makes another one and sends the message that failed   *)
(* again.                                                                  *)
(*                                                                         *)
(* A message on the wire is three units: its header "H" (the length), its  *)
(* data "D" (that many bytes) and its tail "T" (the eight bytes of the     *)
(* packet number, which the length does not count); "h" is a header cut    *)
(* short.  TCP is modelled from how the code uses it: a connection keeps   *)
(* the order of units and loses none while both ends have it open; what is *)
(* sent to an end that has gone is lost, and answered by a reset.          *)
(***************************************************************************)
EXTENDS Integers, SequencesExt

CONSTANTS
  OutLen, InLen,   \* OUTGOING_MSG_QUEUE_LEN, INBOUND_MSG_QUEUE_LEN
  MaxMsg,          \* bound: messages handed to the two ends together
  MaxConn,         \* bound: connections made
  MaxFault         \* bound: failures of the network

ASSUME BoundAssumption ==
  /\ OutLen \in Nat \ {0} /\ InLen \in Nat \ {0}
  /\ MaxMsg \in Nat /\ MaxConn \in Nat /\ MaxFault \in Nat

End == {"client", "server"}
Other(e) == IF e = "client" THEN "server" ELSE "client"
Conn == 1 .. MaxConn

VARIABLES
  handed,      \* handed[e]: messages 1 .. handed[e] were handed to sendMessage
  outq, inq,   \* _outgoingMessageQueue, _inboundMessageQueue
  retry,       \* retryQueue
  connected,   \* _connected
  mgr,         \* runConnectionManagerThread: [pc, buf]
  rcv,         \* runRecv: [pc, msg]
  sock,        \* _connectionSocket: the connection, or 0
  backlog,     \* connections the server has not accepted yet
  half,        \* half[c][e]: what e's side of connection c has come to
  pipe,        \* pipe[c][e]: units on their way to e
  faults,      \* faults[c]: failures of the network so far on connection c
  got,         \* what recvMessage has returned
  sentOn,      \* auxiliary: the messages e sent whole on connection c
  readOn       \* auxiliary: the messages e read whole on connection c

vars == <<handed, outq, inq, retry, connected, mgr, rcv, sock, backlog, half,
          pipe, faults, got, sentOn, readOn>>

ends == <<handed, outq, inq, retry, connected, mgr, rcv, sock, got>>
wire == <<backlog, half, pipe, faults, sentOn, readOn>>

\* The network fails connection c once more.
Fault(c) == /\ FoldFunction(+, 0, faults) < MaxFault
            /\ faults' = [faults EXCEPT ![c] = @ + 1]

\* A side of a connection is "none" before it is made, "open", "void" when what it
\* has sent went nowhere and it does not know, "reset" when an error waits to be
\* reported, "dead" when it has been, and "closed" by its end.
Gone == {"reset", "dead", "closed"}

Unit(k, m) == [kind |-> k, msg |-> m]
OnWire(m) == <<Unit("H", m), Unit("D", m), Unit("T", m)>>

Init ==
  /\ handed = [e \in End |-> 0]
  /\ outq = [e \in End |-> << >>] /\ inq = [e \in End |-> << >>]
  /\ retry = [e \in End |-> << >>]
  /\ connected = [e \in End |-> FALSE]
  /\ mgr = [e \in End |-> [pc |-> "open", buf |-> 0]]
  /\ rcv = [e \in End |-> [pc |-> "none", msg |-> 0]]
  /\ sock = [e \in End |-> 0]
  /\ backlog = << >>
  /\ half = [c \in Conn |-> [e \in End |-> "none"]]
  /\ pipe = [c \in Conn |-> [e \in End |-> << >>]]
  /\ faults = [c \in Conn |-> 0]
  /\ got = [e \in End |-> << >>]
  /\ sentOn = [c \in Conn |-> [e \in End |-> << >>]]
  /\ readOn = [c \in Conn |-> [e \in End |-> << >>]]

-----------------------------------------------------------------------------
(***************************************************************************)
(* The tunnel's threads.  A message pushed to a full queue is dropped.     *)
(***************************************************************************)
\* Mutant: the size is compared off by one.
PushOneMore(q, max, x) == IF Len(q) <= max THEN Append(q, x) ELSE q

Push(q, max, x) == IF Len(q) < max THEN Append(q, x) ELSE q

SendMessage(e) ==
  /\ handed["client"] + handed["server"] < MaxMsg
  /\ handed' = [handed EXCEPT ![e] = @ + 1]
  /\ outq' = [outq EXCEPT ![e] = Push(@, OutLen, handed[e] + 1)]
  /\ UNCHANGED <<inq, retry, connected, mgr, rcv, sock, got, wire>>

RecvMessage(e) ==
  /\ inq[e] # << >>
  /\ got' = [got EXCEPT ![e] = Append(@, Head(inq[e]))]
  /\ inq' = [inq EXCEPT ![e] = Tail(@)]
  /\ UNCHANGED <<handed, outq, retry, connected, mgr, rcv, sock, wire>>

-----------------------------------------------------------------------------
(***************************************************************************)
(* runConnectionManagerThread.                                             *)
(***************************************************************************)
Connected(e, c) ==
  /\ sock' = [sock EXCEPT ![e] = c]
  /\ connected' = [connected EXCEPT ![e] = TRUE]
  /\ rcv' = [rcv EXCEPT ![e].pc = "header"]
  /\ mgr' = [mgr EXCEPT ![e].pc = "loop"]
  /\ UNCHANGED <<handed, outq, inq, retry, got, pipe, faults, sentOn, readOn>>

\* bind and connect, which are repeated until they succeed.  The listener's
\* queue takes the connection whatever the server is doing; the client's port
\* is the configured one, so the server's side of an earlier connection that is
\* still open is reset.
Connect == \E c \in Conn :
  /\ mgr["client"].pc = "open"
  /\ half[c]["client"] = "none" /\ \A d \in 1 .. c - 1 : half[d]["client"] # "none"
  /\ half' = [d \in Conn |->
                CASE d = c -> [e \in End |-> "open"]
                  [] d # c /\ half[d]["server"] \in {"open", "void"} ->
                       [half[d] EXCEPT !["server"] = "reset"]
                  [] OTHER -> half[d]]
  /\ backlog' = Append(backlog, c)
  /\ Connected("client", c)

Accept ==
  /\ mgr["server"].pc = "open"
  /\ backlog # << >>
  /\ backlog' = Tail(backlog)
  /\ Connected("server", Head(backlog))
  /\ UNCHANGED half

mgrUnchanged == UNCHANGED <<handed, inq, rcv, sock, got, backlog, readOn>>

Loop(e) ==
  /\ mgr[e].pc = "loop"
  /\ mgr' = [mgr EXCEPT ![e].pc = IF connected[e] THEN "take" ELSE "join"]
  /\ mgrUnchanged
  /\ UNCHANGED <<outq, retry, connected, half, pipe, faults, sentOn>>

\* The message that failed goes first, and stays in retryQueue; else pop waits
\* for one.  Its condition ends the wait when the connection is gone, but a
\* message that is there is taken nevertheless.
Take(e) ==
  /\ mgr[e].pc = "take"
  /\ \/ /\ retry[e] # << >>
        /\ mgr' = [mgr EXCEPT ![e] = [pc |-> "send", buf |-> Head(retry[e])]]
        /\ UNCHANGED outq
     \/ /\ retry[e] = << >> /\ outq[e] # << >>
        /\ mgr' = [mgr EXCEPT ![e] = [pc |-> "send", buf |-> Head(outq[e])]]
        /\ outq' = [outq EXCEPT ![e] = Tail(@)]
     \/ /\ retry[e] = << >> /\ outq[e] = << >>
        /\ mgr' = [mgr EXCEPT ![e].pc = IF connected[e] THEN "loop" ELSE "join"]
        /\ UNCHANGED outq
  /\ mgrUnchanged
  /\ UNCHANGED <<retry, connected, half, pipe, faults, sentOn>>

\* Mutant: a message that was sent again stays in retryQueue.
SendKeepsRetry(e) ==
  LET c == sock[e]  o == Other(e)  m == mgr[e].buf IN
  /\ mgr[e].pc = "send"
  /\ half[c][e] \in {"open", "void"}
  /\ IF half[c][o] \in Gone
     THEN half' = [half EXCEPT ![c][e] = "void"] /\ UNCHANGED pipe
     ELSE pipe' = [pipe EXCEPT ![c][o] = @ \o OnWire(m)] /\ UNCHANGED half
  /\ sentOn' = [sentOn EXCEPT ![c][e] = Append(@, m)]
  /\ mgr' = [mgr EXCEPT ![e] = [pc |-> "loop", buf |-> 0]]
  /\ mgrUnchanged /\ UNCHANGED <<outq, retry, connected, faults>>

\* The socket takes all the bytes; if the other end has gone they are lost, and
\* a reset is on its way back.
SendWhole(e) ==
  LET c == sock[e]  o == Other(e)  m == mgr[e].buf IN
  /\ mgr[e].pc = "send"
  /\ half[c][e] \in {"open", "void"}
  /\ IF half[c][o] \in Gone
     THEN half' = [half EXCEPT ![c][e] = "void"] /\ UNCHANGED pipe
     ELSE pipe' = [pipe EXCEPT ![c][o] = @ \o OnWire(m)] /\ UNCHANGED half
  /\ sentOn' = [sentOn EXCEPT ![c][e] = Append(@, m)]
  /\ retry' = [retry EXCEPT ![e] = << >>]
  /\ mgr' = [mgr EXCEPT ![e] = [pc |-> "loop", buf |-> 0]]
  /\ mgrUnchanged /\ UNCHANGED <<outq, connected, faults>>

\* The error of a connection is reported once, by send or by recv.
Report(e) == half' = [half EXCEPT ![sock[e]][e] = "dead"]

\* Mutant: the receive thread is not told.
SendFailsSilently(e) ==
  /\ retry' = [retry EXCEPT ![e] = <<mgr[e].buf>>]
  /\ mgr' = [mgr EXCEPT ![e] = [pc |-> "join", buf |-> 0]]
  /\ mgrUnchanged /\ UNCHANGED <<outq, connected, sentOn>>

\* Mutant: the message that failed goes back behind the others.
SendFailedLast(e) ==
  /\ outq' = [outq EXCEPT ![e] = Append(@, mgr[e].buf)]
  /\ connected' = [connected EXCEPT ![e] = FALSE]
  /\ mgr' = [mgr EXCEPT ![e] = [pc |-> "join", buf |-> 0]]
  /\ mgrUnchanged /\ UNCHANGED <<retry, sentOn>>

SendFailed(e) ==
  /\ retry' = [retry EXCEPT ![e] = <<mgr[e].buf>>]
  /\ connected' = [connected EXCEPT ![e] = FALSE]
  /\ mgr' = [mgr EXCEPT ![e] = [pc |-> "join", buf |-> 0]]
  /\ mgrUnchanged /\ UNCHANGED <<outq, sentOn>>

SendFails(e) ==
  /\ mgr[e].pc = "send"
  /\ half[sock[e]][e] \in {"reset", "dead"}
  /\ Report(e)
  /\ SendFailed(e)
  /\ UNCHANGED <<pipe, faults>>

\* The connection fails after some of the bytes have been taken.
SendPartial(e) ==
  LET c == sock[e]  o == Other(e)  m == mgr[e].buf IN
  /\ mgr[e].pc = "send"
  /\ half[c][e] = "open" /\ half[c][o] = "open"
  /\ Fault(c)
  /\ Report(e)
  /\ \E part \in {<<Unit("h", m)>>, <<Unit("H", m)>>,
                  <<Unit("H", m), Unit("D", m)>>} :
       pipe' = [pipe EXCEPT ![c][o] = @ \o part]
  /\ SendFailed(e)

\* The receive thread is joined, the socket is shut down and closed.  Closing
\* it with data unread resets the connection; otherwise the other end is told
\* that there is nothing more to come.
Join(e) ==
  LET c == sock[e]  o == Other(e) IN
  /\ mgr[e].pc = "join" /\ rcv[e].pc = "none"
  /\ half' = [half EXCEPT
                ![c][e] = "closed",
                ![c][o] = IF pipe[c][e] # << >> /\ @ \in {"open", "void"}
                          THEN "reset" ELSE @]
  /\ pipe' = [pipe EXCEPT ![c][e] = << >>]
  /\ sock' = [sock EXCEPT ![e] = 0]
  /\ mgr' = [mgr EXCEPT ![e].pc = "open"]
  /\ UNCHANGED <<handed, outq, inq, retry, connected, rcv, got, backlog, faults,
                 sentOn, readOn>>

-----------------------------------------------------------------------------
(***************************************************************************)
(* runRecv.  It reads a header and then len + 8 bytes; recv may return     *)
(* fewer, because of a timeout or because the other end has closed, or -1. *)
(* A header of no bytes is no error, so that the end of the stream is not  *)
(* noticed here; -1 for the data is compared as a large unsigned number,   *)
(* so that what is in the buffer is taken for a message.                   *)
(***************************************************************************)
rcvUnchanged == UNCHANGED <<handed, outq, retry, mgr, sock, got, backlog, sentOn>>

\* The loop's test after something was read.
Onward(e) == [pc |-> IF connected[e] THEN "header" ELSE "none", msg |-> 0]

Deliver(e, form, m) ==
  inq' = [inq EXCEPT ![e] = Push(@, InLen, [form |-> form, msg |-> m])]

Incoming(e) == pipe[sock[e]][e]
Reads(e, k) == pipe' = [pipe EXCEPT ![sock[e]][e] = SubSeq(@, k + 1, Len(@))]

RecvHeader(e) ==
  /\ rcv[e].pc = "header"
  /\ Incoming(e) # << >> /\ Incoming(e)[1].kind = "H"
  /\ rcv' = [rcv EXCEPT ![e] = [pc |-> "data", msg |-> Incoming(e)[1].msg]]
  /\ Reads(e, 1)
  /\ rcvUnchanged /\ UNCHANGED <<half, inq, connected, faults, readOn>>

\* Mutant: len bytes are read, and the tail is left.
RecvDataAlone(e) ==
  /\ rcv[e].pc = "data"
  /\ Incoming(e) # << >> /\ Incoming(e)[1].kind = "D"
  /\ Reads(e, 1)
  /\ Deliver(e, "whole", rcv[e].msg)
  /\ readOn' = [readOn EXCEPT ![sock[e]][e] = Append(@, rcv[e].msg)]
  /\ rcv' = [rcv EXCEPT ![e] = Onward(e)]
  /\ rcvUnchanged /\ UNCHANGED <<half, connected, faults>>

RecvData(e) ==
  /\ rcv[e].pc = "data"
  /\ Incoming(e) # << >> /\ Incoming(e)[1].kind = "D"
  /\ rcv' = [rcv EXCEPT ![e].pc = "tail"]
  /\ Reads(e, 1)
  /\ rcvUnchanged /\ UNCHANGED <<half, inq, connected, faults, readOn>>

RecvTail(e) ==
  /\ rcv[e].pc = "tail"
  /\ Incoming(e) # << >> /\ Incoming(e)[1].kind = "T"
  /\ Reads(e, 1)
  /\ Deliver(e, "whole", rcv[e].msg)
  /\ readOn' = [readOn EXCEPT ![sock[e]][e] = Append(@, rcv[e].msg)]
  /\ rcv' = [rcv EXCEPT ![e] = Onward(e)]
  /\ rcvUnchanged /\ UNCHANGED <<half, connected, faults>>

\* The thread ends: it has found the connection lost, or been told so.
Disconnect(e) ==
  /\ connected' = [connected EXCEPT ![e] = FALSE]
  /\ rcv' = [rcv EXCEPT ![e] = [pc |-> "none", msg |-> 0]]

\* No byte of a header, and the manager has given up the connection.
RecvStops(e) ==
  /\ rcv[e].pc = "header" /\ ~connected[e]
  /\ rcv' = [rcv EXCEPT ![e].pc = "none"]
  /\ rcvUnchanged /\ UNCHANGED <<half, inq, connected, pipe, faults, readOn>>

\* -1 instead of a header leaves a length of 0, which is wrong.
RecvHeaderFails(e) ==
  /\ rcv[e].pc = "header"
  /\ Incoming(e) = << >> /\ half[sock[e]][e] = "reset"
  /\ Report(e)
  /\ Disconnect(e)
  /\ rcvUnchanged /\ UNCHANGED <<inq, pipe, faults, readOn>>

\* A header cut short: the rest is read with a wrong length and may, when recv
\* fails, be taken for a message; the connection is given up.
RecvCutHeader(e) ==
  /\ rcv[e].pc = "header"
  /\ Incoming(e) # << >>
  /\ \/ Incoming(e)[1].kind = "h" /\ UNCHANGED faults
     \/ Incoming(e)[1].kind = "H" /\ Fault(sock[e])  \* its last bytes are late
  /\ Reads(e, 1)
  /\ Deliver(e, "garbage", 0) \/ UNCHANGED inq
  /\ Disconnect(e)
  /\ rcvUnchanged /\ UNCHANGED <<half, readOn>>

\* No more bytes come: the other end has gone, the error of this one has been
\* reported, or the network is late.
Starved(e) ==
  LET c == sock[e] IN
  \/ /\ pipe[c][e] = << >>
     /\ half[c][Other(e)] \in Gone \/ half[c][e] = "dead"
     /\ UNCHANGED faults
  \/ Fault(c)

\* Fewer bytes than the length: the connection is given up.
RecvDataShort(e) ==
  /\ rcv[e].pc = "data" /\ Starved(e)
  /\ Disconnect(e)
  /\ rcvUnchanged /\ UNCHANGED <<half, inq, pipe, readOn>>

\* All of the data and not all of the tail: it passes for a message.
RecvTailShort(e) ==
  /\ rcv[e].pc = "tail" /\ Starved(e)
  /\ Deliver(e, "cut", rcv[e].msg)
  /\ rcv' = [rcv EXCEPT ![e] = Onward(e)]
  /\ rcvUnchanged /\ UNCHANGED <<half, connected, pipe, readOn>>

\* -1 instead of the data or of the tail.
RecvBodyFails(e) ==
  /\ rcv[e].pc \in {"data", "tail"}
  /\ Incoming(e) = << >> /\ half[sock[e]][e] = "reset"
  /\ Report(e)
  /\ IF rcv[e].pc = "tail" THEN Deliver(e, "cut", rcv[e].msg)
                           ELSE Deliver(e, "garbage", 0)
  /\ rcv' = [rcv EXCEPT ![e] = Onward(e)]
  /\ rcvUnchanged /\ UNCHANGED <<connected, pipe, faults, readOn>>

\* Out of step with the stream, the bytes of a tail are taken for a length: a
\* wrong one, or one that makes a message of what follows.
RecvMisread(e) ==
  /\ rcv[e].pc = "header"
  /\ Incoming(e) # << >> /\ Incoming(e)[1].kind \in {"D", "T"}
  /\ \E k \in 1 .. Len(Incoming(e)) :
       /\ Reads(e, k)
       /\ \/ Disconnect(e) /\ UNCHANGED inq
          \/ /\ Deliver(e, "garbage", 0)
             /\ rcv' = [rcv EXCEPT ![e] = Onward(e)]
             /\ UNCHANGED connected
  /\ rcvUnchanged /\ UNCHANGED <<half, faults, readOn>>

-----------------------------------------------------------------------------
\* The reset that answers what was sent to an end that has gone.  After the end
\* of the stream recv reports no error.
Reset(c, e) ==
  /\ half[c][e] = "void"
  /\ half' = [half EXCEPT ![c][e] =
                IF half[c][Other(e)] = "closed" THEN "dead" ELSE "reset"]
  /\ UNCHANGED <<ends, backlog, pipe, faults, sentOn, readOn>>

\* The network fails e's side of a connection, and the last units in flight are
\* lost; the other side is not told.
Break(c, e) ==
  /\ half[c][e] = "open"
  /\ Fault(c)
  /\ half' = [half EXCEPT ![c][e] = "reset"]
  /\ \E i \in 0 .. Len(pipe[c]["client"]), j \in 0 .. Len(pipe[c]["server"]) :
       pipe' = [pipe EXCEPT ![c]["client"] = SubSeq(@, 1, i),
                            ![c]["server"] = SubSeq(@, 1, j)]
  /\ UNCHANGED <<ends, backlog, sentOn, readOn>>

Opens(e) == (e = "client" /\ Connect) \/ (e = "server" /\ Accept)

Manager(e) == \/ Opens(e) \/ Loop(e) \/ Take(e) \/ SendWhole(e)
              \/ SendFails(e) \/ SendPartial(e) \/ Join(e)

Receiver(e) == \/ RecvHeader(e) \/ RecvData(e) \/ RecvTail(e)
               \/ RecvStops(e) \/ RecvHeaderFails(e) \/ RecvCutHeader(e)
               \/ RecvDataShort(e) \/ RecvTailShort(e) \/ RecvBodyFails(e)
               \/ RecvMisread(e)

Next == \/ \E e \in End : \/ SendMessage(e) \/ RecvMessage(e)
                          \/ Manager(e) \/ Receiver(e)
        \/ \E c \in Conn, e \in End : Reset(c, e) \/ Break(c, e)

Spec == Init /\ [][Next]_vars

\* The two threads of each end are scheduled, and a reset on its way arrives.
Fairness == /\ \A e \in End : WF_vars(Manager(e)) /\ WF_vars(Receiver(e))
            /\ \A c \in Conn, e \in End : WF_vars(Reset(c, e))

FairSpec == Spec /\ Fairness

-----------------------------------------------------------------------------
(***************************************************************************)
(* Properties.                                                             *)
(***************************************************************************)
Received == [form: {"whole", "cut", "garbage"}, msg: Nat]

\* The type invariant; the length of the queues is within their limits.
TypeOK ==
  /\ handed \in [End -> Nat]
  /\ outq \in [End -> Seq(Nat)] /\ \A e \in End : Len(outq[e]) <= OutLen
  /\ inq \in [End -> Seq(Received)] /\ \A e \in End : Len(inq[e]) <= InLen
  /\ retry \in [End -> Seq(Nat)]
  /\ connected \in [End -> BOOLEAN]
  /\ mgr \in [End -> [pc: {"open", "loop", "take", "send", "join"}, buf: Nat]]
  /\ rcv \in [End -> [pc: {"none", "header", "data", "tail"}, msg: Nat]]
  /\ sock \in [End -> {0} \cup Conn]
  /\ backlog \in Seq(Conn)
  /\ half \in [Conn -> [End -> {"none", "open", "void"} \cup Gone]]
  /\ pipe \in [Conn -> [End -> Seq([kind: {"h", "H", "D", "T"}, msg: Nat])]]
  /\ faults \in [Conn -> Nat]
  /\ got \in [End -> Seq(Received)]

\* Sending a message again after a failure neither duplicates nor reorders: the
\* messages that an end receives whole, over all its connections, are messages
\* of the other end in the order in which they were handed over, each once
\* (lines 261-298).
InOrderOnce ==
  \A e \in End :
    LET s == got[e] \o inq[e] IN
    \A i, j \in DOMAIN s :
      i < j /\ s[i].form = "whole" /\ s[j].form = "whole" => s[i].msg < s[j].msg

Queued(e, m) == \/ m \in ToSet(outq[e]) \/ m \in ToSet(retry[e])
                \/ mgr[e].pc = "send" /\ mgr[e].buf = m

\* The messages that e has begun to read on connection c, and the headers of the
\* others on their way to it.
Begun(c, e) ==
  IF sock[e] = c /\ rcv[e].pc \in {"data", "tail"}
  THEN Append(readOn[c][e], rcv[e].msg) ELSE readOn[c][e]

Heads(c, e) == {i \in DOMAIN pipe[c][e] : pipe[c][e][i].kind = "H"}

\* On a connection that the network has not failed, whatever failed before, and
\* that both ends have open, the framing loses nothing: every message sent has
\* been read, or is being read, or is on its way, in order (lines 149-184, 275-283).
Lossless ==
  \A c \in Conn, e \in End :
    faults[c] = 0 /\ half[c][e] = "open" /\ half[c][Other(e)] = "open" =>
      LET sent == sentOn[c][Other(e)]
          ahead == Len(Begun(c, e)) + 1 .. Len(sent) IN
      /\ IsPrefix(Begun(c, e), sent)
      /\ \E at \in [ahead -> Heads(c, e)] :
           /\ \A i, j \in ahead : i < j => at[i] < at[j]
           /\ \A h \in Heads(c, e) : \E i \in ahead : at[i] = h
           /\ \A i \in ahead : pipe[c][e][at[i]].msg = sent[i]

\* The client gets rid of its messages: whatever happens to a connection, it
\* notices, makes another one, and goes on sending.
ClientDrains ==
  \A m \in 1 .. MaxMsg : Queued("client", m) ~> ~Queued("client", m)

-----------------------------------------------------------------------------
Channel == INSTANCE MessageChannel WITH returned <- got

\* A bearer keeps the promise of MessageChannel with what recvMessage returns: only
\* messages handed to the other end's sendMessage, in their order and none twice whole,
\* a cut one before its whole, whatever queues, retries and connections do in between
\* (TcpConnectionMgr.cc:149-184, 261-298; TcpConnectionMgr.h:73-84).
ChannelSpec == Channel!Spec
=============================================================================
