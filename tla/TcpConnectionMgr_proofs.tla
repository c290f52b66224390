----------------------- MODULE TcpConnectionMgr_proofs -----------------------
(***************************************************************************)
(* Proofs about TcpConnectionMgr, for queues, numbers of messages,         *)
(* connections and failures of any size.                                   *)
(*                                                                         *)
(* 1. Its type invariant, and that the messages an end receives whole are  *)
(* in order and none is there twice.  A message is received whole when its *)
(* tail is read.  So the invariant IInv follows the tails: those on their  *)
(* way are behind what has been received, in the order of their            *)
(* connections (PipeOrder), and what the sender still has is behind them   *)
(* all (SenderOrder, Ahead); a tail that is read where one is expected is  *)
(* that of the message being read (Framed, Reading), since nothing is sent *)
(* after a message that was cut (Sealed); and connections are used one     *)
(* after the other (Places).                                               *)
(*                                                                         *)
(* 2. It loses nothing on a connection that has not failed (Lossless),     *)
(* whatever failed before it.  While a connection is clear (Clear), what   *)
(* is on its way in a direction is exactly the rest of the message being   *)
(* read, followed by whole messages: those sent after the ones begun, in   *)
(* order (Carries, Leads).  A failure, an end that closes or one that      *)
(* fails to send takes the connection out of that condition for good, so   *)
(* that nothing has to be said of what is left in its pipe (Aside,         *)
(* LInvKept); a new connection starts with nothing sent and nothing read   *)
(* (Fresh).                                                                *)
(*                                                                         *)
(* 3. It implements MessageChannel (ChannelSpec).  The invariant CInv puts *)
(* everything that is of a message in one order: what was received, then   *)
(* the message being read, then the units on their way, then the messages  *)
(* that the sender still has.  Between two of these the number of the      *)
(* message may stay the same only as long as it has not been read whole.   *)
(***************************************************************************)
EXTENDS TcpConnectionMgr, SequenceTheorems, TLAPS

-----------------------------------------------------------------------------
\* Where the ends are: the client on the connection made last, the server on an
\* earlier one or the same, with the ones between in the backlog.
ClientPlace ==
  /\ mgr["client"].pc = "open" <=> sock["client"] = 0
  /\ rcv["client"].pc # "none" => sock["client"] # 0
  /\ \A c \in Conn : /\ half[c]["client"] \notin {"none", "closed"} => c = sock["client"]
                     /\ pipe[c]["client"] # << >> => c = sock["client"]
                     /\ c = sock["client"] => half[c]["client"] \notin {"none", "closed"}

ServerPlace ==
  /\ mgr["server"].pc = "open" <=> sock["server"] = 0
  /\ rcv["server"].pc # "none" => sock["server"] # 0
  /\ sock["server"] # 0 => half[sock["server"]]["client"] # "none"
  /\ \A i \in DOMAIN backlog : /\ half[backlog[i]]["client"] # "none"
                               /\ sock["server"] < backlog[i]
                               /\ \A j \in DOMAIN backlog : i < j => backlog[i] < backlog[j]
  /\ \A c \in Conn : pipe[c]["server"] # << >> \/ half[c]["server"] \notin {"none", "closed"} =>
       c = sock["server"] \/ \E i \in DOMAIN backlog : c = backlog[i]

ConnPlace ==
  \A c \in Conn :
    /\ half[c]["client"] = "none" => \A e \in End : half[c][e] = "none" /\ pipe[c][e] = << >>
    /\ half[c]["client"] # "none" =>
         /\ half[c]["server"] # "none"
         /\ \A d \in Conn : d < c => half[d]["client"] # "none"
         /\ sock["client"] # 0 => c <= sock["client"]

Places == ClientPlace /\ ServerPlace /\ ConnPlace

\* A message, its header sent, is followed by its own data and tail.
InFrames(p) ==
  \A i \in DOMAIN p : i + 1 \in DOMAIN p =>
    /\ p[i].kind = "H" => p[i + 1] = Unit("D", p[i].msg)
    /\ p[i].kind = "D" => p[i + 1] = Unit("T", p[i].msg)
    /\ p[i].kind # "h"

Framed == \A c \in Conn, e \in End : InFrames(pipe[c][e])

\* Nothing will be sent to e on connection c any more.
Sealed(c, e) == half[c][Other(e)] \notin {"open", "void"} \/ half[c][e] \in Gone

\* The last message to e on connection c is not there as a whole.
CutShort(c, e) ==
  LET p == pipe[c][e] IN
  \/ p # << >> /\ p[Len(p)].kind # "T"
  \/ p = << >> /\ sock[e] = c /\ rcv[e].pc \in {"data", "tail"}

SealedAfterCut == \A c \in Conn, e \in End : CutShort(c, e) => Sealed(c, e)

Reading ==
  \A e \in End : \A c \in Conn :
    c = sock[e] /\ pipe[c][e] # << >> =>
      /\ rcv[e].pc = "data" => pipe[c][e][1] = Unit("D", rcv[e].msg)
      /\ rcv[e].pc = "tail" => pipe[c][e][1] = Unit("T", rcv[e].msg)

Tails(c, e) == {i \in DOMAIN pipe[c][e] : pipe[c][e][i].kind = "T"}
Before(c, i, d, j) == c < d \/ (c = d /\ i < j)

PipeOrder ==
  \A e \in End : \A c, d \in Conn : \A i \in Tails(c, e), j \in Tails(d, e) :
    Before(c, i, d, j) => pipe[c][e][i].msg < pipe[d][e][j].msg

\* What e has received, and what e still has to send.
Taken(e) == got[e] \o inq[e]

InLine(e) ==
  /\ \A i \in DOMAIN outq[e] :
       /\ outq[e][i] <= handed[e]
       /\ \A j \in DOMAIN outq[e] : i < j => outq[e][i] < outq[e][j]
  /\ retry[e] # << >> =>
       /\ Len(retry[e]) = 1 /\ retry[e][1] <= handed[e]
       /\ mgr[e].pc = "send" => mgr[e].buf = retry[e][1]
       /\ \A i \in DOMAIN outq[e] : retry[e][1] < outq[e][i]
  /\ mgr[e].pc = "send" =>
       /\ mgr[e].buf <= handed[e]
       /\ \A i \in DOMAIN outq[e] : mgr[e].buf < outq[e][i]

SenderOrder == \A e \in End : InLine(e)

\* m is behind all that the sender of m still has.
Sent(e, m) ==
  /\ m <= handed[e]
  /\ \A i \in DOMAIN outq[e] : m < outq[e][i]
  /\ retry[e] # << >> => m < retry[e][1]
  /\ mgr[e].pc = "send" => m < mgr[e].buf

Ahead ==
  \A e \in End :
    /\ \A n \in DOMAIN Taken(e) : Taken(e)[n].form = "whole" =>
         /\ Sent(Other(e), Taken(e)[n].msg)
         /\ \A c \in Conn : \A i \in Tails(c, e) : Taken(e)[n].msg < pipe[c][e][i].msg
    /\ \A c \in Conn : \A i \in Tails(c, e) : Sent(Other(e), pipe[c][e][i].msg)

IInv == TypeOK /\ Places /\ Framed /\ SealedAfterCut /\ Reading /\ PipeOrder
        /\ SenderOrder /\ Ahead /\ InOrderOnce

-----------------------------------------------------------------------------
UnitType == [kind: {"h", "H", "D", "T"}, msg: Nat]
MgrThread == [pc: {"open", "loop", "take", "send", "join"}, buf: Nat]
RcvThread == [pc: {"none", "header", "data", "tail"}, msg: Nat]
Half == {"none", "open", "void"} \cup Gone

QueueType ==
  /\ handed \in [End -> Nat]
  /\ outq \in [End -> Seq(Nat)] /\ \A e \in End : Len(outq[e]) <= OutLen
  /\ inq \in [End -> Seq(Received)] /\ \A e \in End : Len(inq[e]) <= InLen
  /\ retry \in [End -> Seq(Nat)]
  /\ got \in [End -> Seq(Received)]

ThreadType ==
  /\ connected \in [End -> BOOLEAN]
  /\ mgr \in [End -> MgrThread]
  /\ rcv \in [End -> RcvThread]
  /\ sock \in [End -> {0} \cup Conn]

WireType ==
  /\ backlog \in Seq(Conn)
  /\ half \in [Conn -> [End -> Half]]
  /\ pipe \in [Conn -> [End -> Seq(UnitType)]]
  /\ faults \in [Conn -> Nat]

\* The type invariant, by the kind of variable.
LEMMA TypeParts == TypeOK <=> QueueType /\ ThreadType /\ WireType
BY DEF TypeOK, QueueType, ThreadType, WireType, MgrThread, RcvThread, Half, UnitType

LEMMA Ends ==
  /\ "client" \in End /\ "server" \in End /\ \A e \in End : e = "client" \/ e = "server"
  /\ \A e \in End : Other(e) \in End /\ Other(e) # e /\ Other(Other(e)) = e
  /\ Conn \subseteq Nat \ {0}
BY BoundAssumption DEF End, Other, Conn

-----------------------------------------------------------------------------
\* Sequences.
LEMMA Pushed ==
  ASSUME NEW S, NEW q \in Seq(S), NEW n \in Nat, Len(q) <= n, NEW x \in S
  PROVE  /\ Push(q, n, x) \in Seq(S) /\ Len(Push(q, n, x)) <= n
         /\ Push(q, n, x) = q \/ Push(q, n, x) = Append(q, x)
BY DEF Push

\* q is a part of p.
Part(q, p) == \E a \in Nat : /\ Len(q) + a <= Len(p)
                             /\ \A i \in 1 .. Len(q) : q[i] = p[i + a]

LEMMA CutFront ==
  ASSUME NEW S, NEW p \in Seq(S), NEW k \in 0 .. Len(p)
  PROVE  LET q == SubSeq(p, k + 1, Len(p)) IN
         /\ q \in Seq(S) /\ Len(q) = Len(p) - k
         /\ \A i \in 1 .. Len(q) : q[i] = p[i + k]
         /\ Part(q, p)
<1> DEFINE q == SubSeq(p, k + 1, Len(p))
<1>1. q \in Seq(S) /\ Len(q) = Len(p) - k /\ \A i \in 1 .. Len(q) : q[i] = p[i + k]
  OBVIOUS
<1> HIDE DEF q
<1>2. k \in Nat /\ Len(q) + k <= Len(p) BY <1>1
<1>3. Part(q, p) BY <1>1, <1>2, Zenon DEF Part
<1> QED BY <1>1, <1>3 DEF q

LEMMA CutBack ==
  ASSUME NEW S, NEW p \in Seq(S), NEW k \in 0 .. Len(p)
  PROVE  LET q == SubSeq(p, 1, k) IN
         /\ q \in Seq(S) /\ Len(q) = k
         /\ \A i \in 1 .. Len(q) : q[i] = p[i]
         /\ Part(q, p)
<1> DEFINE q == SubSeq(p, 1, k)
<1>1. q \in Seq(S) /\ Len(q) = k /\ \A i \in 1 .. Len(q) : q[i] = p[i]
  OBVIOUS
<1> HIDE DEF q
<1>2. 0 \in Nat /\ Len(q) + 0 <= Len(p) /\ \A i \in 1 .. Len(q) : q[i] = p[i + 0]
  BY <1>1
<1>3. Part(q, p) BY <1>2, Zenon DEF Part
<1> QED BY <1>1, <1>3 DEF q

LEMMA PartSelf == ASSUME NEW S, NEW p \in Seq(S) PROVE Part(p, p) /\ Part(<< >>, p)
<1>1. Len(p) + 0 <= Len(p) /\ \A i \in 1 .. Len(p) : p[i] = p[i + 0] OBVIOUS
<1>2. Len(<< >>) + 0 <= Len(p) /\ \A i \in 1 .. Len(<< >>) : << >>[i] = p[i + 0] OBVIOUS
<1> QED BY <1>1, <1>2 DEF Part

-----------------------------------------------------------------------------
\* What a step of e's receive thread does: it takes k units from its pipe, may
\* report an error, goes on, and may deliver a message, which is whole only if
\* it was read to its tail, and has a number only if its header was read.
Takes(e, c, k) ==
  pipe' = [pipe EXCEPT ![c][e] = SubSeq(pipe[c][e], k + 1, Len(pipe[c][e]))]

GoesOn(e, c, k, t) ==
  /\ rcv' = [rcv EXCEPT ![e] = t]
  /\ t.pc \in {"data", "tail"} =>
       /\ k = 1 /\ Len(pipe[c][e]) >= 1
       /\ t.pc = "data" => pipe[c][e][1].kind = "H" /\ t.msg = pipe[c][e][1].msg
       /\ t.pc = "tail" => /\ rcv[e].pc = "data" /\ t.msg = rcv[e].msg
                           /\ pipe[c][e][1].kind = "D"

Genuine(e, c, k, r) ==
  /\ r.form = "whole" => /\ rcv[e].pc = "tail" /\ r.msg = rcv[e].msg
                         /\ k = 1 /\ Len(pipe[c][e]) >= 1 /\ pipe[c][e][1].kind = "T"
  /\ r.form = "cut" => rcv[e].pc = "tail" /\ r.msg = rcv[e].msg /\ k = 0
  /\ r.form = "garbage" => r.msg = 0

Gives(e, c, k) ==
  \/ inq' = inq
  \/ \E r \in Received : /\ inq' = [inq EXCEPT ![e] = Push(inq[e], InLen, r)]
                         /\ Genuine(e, c, k, r)

Reports(e, c) ==
  \/ half' = half
  \/ half[c][e] = "reset" /\ half' = [half EXCEPT ![c][e] = "dead"]

\* Every step of a receive thread takes k units off its pipe, goes on, delivers at most
\* one message, whole only when it takes a tail, and reports at most one error.
LEMMA ReceiverStep ==
  ASSUME TypeOK, Places, NEW e \in End, Receiver(e)
  PROVE  LET c == sock[e] IN
         /\ c \in Conn /\ rcv[e].pc # "none"
         /\ rcvUnchanged /\ connected' \in [End -> BOOLEAN] /\ faults' \in [Conn -> Nat]
         /\ \E k \in 0 .. Len(pipe[c][e]), t \in RcvThread :
              Takes(e, c, k) /\ GoesOn(e, c, k, t) /\ Gives(e, c, k) /\ Reports(e, c)
<1> DEFINE c == sock[e]  p == pipe[c][e]
<1>t. QueueType /\ ThreadType /\ WireType BY TypeParts
<1>1. rcv[e].pc # "none"
  BY DEF Receiver, RecvHeader, RecvData, RecvTail, RecvStops, RecvHeaderFails, RecvCutHeader,
         RecvDataShort, RecvTailShort, RecvBodyFails, RecvMisread
<1>2. c \in Conn
  BY <1>1, <1>t, Ends DEF Places, ClientPlace, ServerPlace, ThreadType
<1>3. p \in Seq(UnitType) /\ pipe \in [Conn -> [End -> Seq(UnitType)]] /\ rcv \in [End -> RcvThread]
      /\ rcv[e].msg \in Nat /\ inq[e] \in Seq(Received)
  BY <1>2, <1>t DEF WireType, ThreadType, RcvThread, QueueType
<1>4. rcvUnchanged
  BY DEF Receiver, RecvHeader, RecvData, RecvTail, RecvStops, RecvHeaderFails, RecvCutHeader,
         RecvDataShort, RecvTailShort, RecvBodyFails, RecvMisread
<1>f. ASSUME NEW d \in Conn, Fault(d) PROVE faults' \in [Conn -> Nat]
  <2>1. faults' = [faults EXCEPT ![d] = @ + 1] BY <1>f, Zenon DEF Fault
  <2> QED BY <2>1, <1>t DEF WireType
<1>5. faults' \in [Conn -> Nat]
  BY <1>2, <1>f, <1>t DEF Receiver, RecvHeader, RecvData, RecvTail, RecvStops, RecvHeaderFails,
     RecvCutHeader, RecvDataShort, RecvTailShort, RecvBodyFails, RecvMisread, Starved, WireType
<1>6. connected' \in [End -> BOOLEAN]
  BY <1>t DEF Receiver, RecvHeader, RecvData, RecvTail, RecvStops, RecvHeaderFails,
     RecvCutHeader, RecvDataShort, RecvTailShort, RecvBodyFails, RecvMisread, Disconnect, ThreadType
<1>o. Onward(e) \in RcvThread /\ Onward(e).pc \in {"header", "none"}
  BY DEF Onward, RcvThread
<1>d. ASSUME Disconnect(e)
      PROVE  /\ [pc |-> "none", msg |-> 0] \in RcvThread
             /\ rcv' = [rcv EXCEPT ![e] = [pc |-> "none", msg |-> 0]]
  BY <1>d DEF Disconnect, RcvThread
<1>n. ASSUME NEW t, t.pc \in {"header", "none"}, rcv' = [rcv EXCEPT ![e] = t], NEW k
      PROVE  GoesOn(e, c, k, t)
  BY <1>n DEF GoesOn
<1>m. rcv' = [rcv EXCEPT ![e] = Onward(e)] => \A k : GoesOn(e, c, k, Onward(e))
  BY <1>o DEF GoesOn
<1>z. 0 \in 0 .. Len(p) /\ (UNCHANGED pipe => Takes(e, c, 0))
  <2>1. SubSeq(p, 0 + 1, Len(p)) = p /\ 0 \in 0 .. Len(p) BY <1>3
  <2>2. pipe = [pipe EXCEPT ![c][e] = p] BY <1>2, <1>3
  <2>3. pipe = [pipe EXCEPT ![c][e] = SubSeq(p, 0 + 1, Len(p))] BY <2>1, <2>2
  <2> QED BY <2>1, <2>3, Zenon DEF Takes
<1>y. ASSUME NEW k, Reads(e, k) PROVE Takes(e, c, k)
  BY <1>y DEF Reads, Takes
<1>g. ASSUME NEW f \in {"whole", "cut", "garbage"}, NEW m \in Nat, Deliver(e, f, m), NEW k,
             Genuine(e, c, k, [form |-> f, msg |-> m])
      PROVE  Gives(e, c, k)
  <2> DEFINE r == [form |-> f, msg |-> m]
  <2>1. r \in Received BY DEF Received
  <2>2. inq' = [inq EXCEPT ![e] = Push(inq[e], InLen, r)] /\ Genuine(e, c, k, r)
    BY <1>g DEF Deliver
  <2> HIDE DEF r
  <2> QED BY <2>1, <2>2 DEF Gives
<1>v. ASSUME NEW k, Deliver(e, "garbage", 0) PROVE Gives(e, c, k)
  <2>1. Genuine(e, c, k, [form |-> "garbage", msg |-> 0]) BY DEF Genuine
  <2> QED BY <1>g, <1>v, <2>1
<1>x. ASSUME rcv[e].pc = "tail", Deliver(e, "cut", rcv[e].msg) PROVE Gives(e, c, 0)
  <2>1. Genuine(e, c, 0, [form |-> "cut", msg |-> rcv[e].msg]) BY <1>x DEF Genuine
  <2> QED BY <1>3, <1>g, <1>x, <2>1
<1>h. UNCHANGED inq => \A k : Gives(e, c, k)
  BY DEF Gives
<1>r. /\ UNCHANGED half => Reports(e, c)
      /\ half[c][e] = "reset" /\ Report(e) => Reports(e, c)
  BY DEF Reports, Report
<1> DEFINE Goal == \E k \in 0 .. Len(p), t \in RcvThread :
              Takes(e, c, k) /\ GoesOn(e, c, k, t) /\ Gives(e, c, k) /\ Reports(e, c)
<1>l. p # << >> => Len(p) >= 1 /\ 1 \in 0 .. Len(p) /\ p[1] \in UnitType
  BY <1>3
<1> SUFFICES Goal BY <1>1, <1>2, <1>4, <1>5, <1>6 DEF c, p
<1> HIDE DEF c, p
<1>11. CASE RecvHeader(e)
  <2> DEFINE t == [pc |-> "data", msg |-> p[1].msg]
  <2>1. p # << >> /\ p[1].kind = "H" /\ rcv' = [rcv EXCEPT ![e] = t] /\ Reads(e, 1)
    BY <1>11 DEF RecvHeader, Incoming, c, p
  <2>2. t \in RcvThread /\ t.pc = "data" /\ t.msg = p[1].msg
    BY <1>l, <2>1 DEF RcvThread, UnitType
  <2> HIDE DEF t
  <2>3. GoesOn(e, c, 1, t)
    BY <1>l, <2>1, <2>2 DEF GoesOn, p
  <2>4. UNCHANGED <<inq, half>> BY <1>11 DEF RecvHeader
  <2> QED BY <1>l, <1>y, <1>h, <1>r, <2>1, <2>2, <2>3, <2>4
<1>12. CASE RecvData(e)
  <2> DEFINE t == [rcv[e] EXCEPT !.pc = "tail"]
  <2>1. /\ rcv[e].pc = "data" /\ p # << >> /\ p[1].kind = "D"
        /\ rcv' = [rcv EXCEPT ![e] = t] /\ Reads(e, 1)
    BY <1>12 DEF RecvData, Incoming, c, p
  <2>2. t \in RcvThread /\ t.pc = "tail" /\ t.msg = rcv[e].msg
    BY <1>3 DEF RcvThread
  <2> HIDE DEF t
  <2>3. GoesOn(e, c, 1, t)
    BY <1>l, <2>1, <2>2 DEF GoesOn, p
  <2>4. UNCHANGED <<inq, half>> BY <1>12 DEF RecvData
  <2> QED BY <1>l, <1>y, <1>h, <1>r, <2>1, <2>2, <2>3, <2>4
<1>13. CASE RecvTail(e)
  <2>1. /\ rcv[e].pc = "tail" /\ p # << >> /\ p[1].kind = "T"
        /\ rcv' = [rcv EXCEPT ![e] = Onward(e)] /\ Reads(e, 1)
        /\ Deliver(e, "whole", rcv[e].msg)
    BY <1>13 DEF RecvTail, Incoming, c, p
  <2>2. Gives(e, c, 1)
    <3>1. Genuine(e, c, 1, [form |-> "whole", msg |-> rcv[e].msg])
      BY <1>l, <2>1 DEF Genuine, p
    <3> QED BY <1>3, <1>g, <2>1, <3>1
  <2>3. UNCHANGED half BY <1>13 DEF RecvTail
  <2> QED BY <1>l, <1>y, <1>m, <1>o, <1>r, <2>1, <2>2, <2>3
<1>14. CASE RecvStops(e)
  <2> DEFINE t == [rcv[e] EXCEPT !.pc = "none"]
  <2>1. rcv' = [rcv EXCEPT ![e] = t] /\ UNCHANGED <<half, inq, pipe>>
    BY <1>14 DEF RecvStops
  <2>2. t \in RcvThread /\ t.pc = "none"
    BY <1>3 DEF RcvThread
  <2> HIDE DEF t
  <2>3. GoesOn(e, c, 0, t) BY <2>1, <2>2 DEF GoesOn
  <2> QED BY <2>3, <1>z, <1>h, <1>r, <2>1, <2>2
<1>15. CASE RecvHeaderFails(e)
  <2>1. half[c][e] = "reset" /\ Report(e) /\ Disconnect(e) /\ UNCHANGED <<inq, pipe>>
    BY <1>15 DEF RecvHeaderFails, c
  <2> QED BY <1>d, <1>n, <1>z, <1>h, <1>r, <2>1
<1>16. CASE RecvCutHeader(e)
  <2>1. /\ p # << >> /\ Reads(e, 1) /\ Disconnect(e) /\ UNCHANGED half
        /\ Deliver(e, "garbage", 0) \/ UNCHANGED inq
    BY <1>16 DEF RecvCutHeader, Incoming, c, p
  <2>2. Gives(e, c, 1) BY <1>v, <1>h, <2>1
  <2> QED BY <1>l, <1>d, <1>n, <1>y, <1>r, <2>1, <2>2
<1>17. CASE RecvDataShort(e)
  <2>1. Disconnect(e) /\ UNCHANGED <<half, inq, pipe>>
    BY <1>17 DEF RecvDataShort
  <2> QED BY <1>d, <1>n, <1>z, <1>h, <1>r, <2>1
<1>18. CASE RecvTailShort(e)
  <2>1. /\ rcv[e].pc = "tail" /\ Deliver(e, "cut", rcv[e].msg)
        /\ rcv' = [rcv EXCEPT ![e] = Onward(e)] /\ UNCHANGED <<half, pipe>>
    BY <1>18 DEF RecvTailShort
  <2>2. Gives(e, c, 0) BY <1>x, <2>1
  <2> QED BY <2>2, <1>m, <1>o, <1>z, <1>r, <2>1
<1>19. CASE RecvBodyFails(e)
  <2>1. /\ half[c][e] = "reset" /\ Report(e) /\ UNCHANGED pipe
        /\ rcv' = [rcv EXCEPT ![e] = Onward(e)]
        /\ \/ rcv[e].pc = "tail" /\ Deliver(e, "cut", rcv[e].msg)
           \/ Deliver(e, "garbage", 0)
    BY <1>19 DEF RecvBodyFails, c
  <2>2. Gives(e, c, 0) BY <1>v, <1>x, <2>1
  <2> QED BY <1>m, <1>o, <1>z, <1>r, <2>1, <2>2
<1>20. CASE RecvMisread(e)
  <2>1. PICK k \in 1 .. Len(p) :
          /\ Reads(e, k)
          /\ \/ Disconnect(e) /\ UNCHANGED inq
             \/ Deliver(e, "garbage", 0) /\ rcv' = [rcv EXCEPT ![e] = Onward(e)]
    BY <1>20 DEF RecvMisread, Incoming, c, p
  <2>2. UNCHANGED half BY <1>20 DEF RecvMisread
  <2>3. k \in 0 .. Len(p) /\ Takes(e, c, k) BY <1>y, <2>1
  <2>4. CASE Disconnect(e) /\ UNCHANGED inq
    BY <1>d, <1>n, <1>h, <1>r, <2>2, <2>3, <2>4
  <2>6. Deliver(e, "garbage", 0) => Gives(e, c, k) BY <1>v
  <2>5. CASE Deliver(e, "garbage", 0) /\ rcv' = [rcv EXCEPT ![e] = Onward(e)]
    BY <1>m, <1>o, <2>6, <1>r, <2>2, <2>3, <2>5
  <2> QED BY <2>1, <2>4, <2>5
<1> QED
  BY <1>11, <1>12, <1>13, <1>14, <1>15, <1>16, <1>17, <1>18, <1>19, <1>20 DEF Receiver

-----------------------------------------------------------------------------
\* Types.
LEMMA OnConn ==
  ASSUME TypeOK, Places, NEW e \in End
  PROVE  /\ mgr[e].pc # "open" => sock[e] \in Conn
         /\ rcv[e].pc # "none" => sock[e] \in Conn
BY TypeParts, Ends DEF ThreadType, Places, ClientPlace, ServerPlace

LEMMA FaultStep == ASSUME NEW c, Fault(c) PROVE faults' = [faults EXCEPT ![c] = @ + 1]
BY Zenon DEF Fault

LEMMA UnitTypes ==
  ASSUME NEW m \in Nat
  PROVE  /\ OnWire(m) \in Seq(UnitType) /\ Len(OnWire(m)) = 3
         /\ OnWire(m)[1] = Unit("H", m) /\ OnWire(m)[2] = Unit("D", m) /\ OnWire(m)[3] = Unit("T", m)
         /\ \A k \in {"h", "H", "D", "T"} : Unit(k, m) \in UnitType
BY DEF OnWire, Unit, UnitType

\* One entry of a table of tables, one of a table of records.
LEMMA Update2 ==
  ASSUME NEW S, NEW f \in [Conn -> [End -> S]], NEW c \in Conn, NEW e \in End, NEW x \in S
  PROVE  LET g == [f EXCEPT ![c][e] = x] IN
         /\ g \in [Conn -> [End -> S]] /\ g[c][e] = x
         /\ \A d \in Conn, b \in End : d # c \/ b # e => g[d][b] = f[d][b]
OBVIOUS

\* The type is preserved, action by action.
LEMMA MgrAt ==
  ASSUME ThreadType, NEW e \in End, NEW k \in {"open", "loop", "take", "send", "join"}
  PROVE  /\ [mgr EXCEPT ![e].pc = k] \in [End -> MgrThread]
         /\ \A b \in Nat : [mgr EXCEPT ![e] = [pc |-> k, buf |-> b]] \in [End -> MgrThread]
BY DEF ThreadType, MgrThread

LEMMA TypeSendMessage ==
  ASSUME TypeOK, NEW e \in End, SendMessage(e)
  PROVE  TypeOK'
<1>1. QueueType /\ ThreadType /\ WireType BY TypeParts
<1>2. handed[e] + 1 \in Nat /\ OutLen \in Nat BY <1>1, BoundAssumption DEF QueueType
<1>3. /\ Push(outq[e], OutLen, handed[e] + 1) \in Seq(Nat)
      /\ Len(Push(outq[e], OutLen, handed[e] + 1)) <= OutLen
  BY <1>1, <1>2, Pushed DEF QueueType
<1>4. QueueType' BY <1>1, <1>2, <1>3 DEF QueueType, SendMessage
<1>5. ThreadType' /\ WireType' BY <1>1 DEF ThreadType, WireType, SendMessage, wire
<1> QED BY <1>4, <1>5, TypeParts, PTL

\* What recvMessage returns leaves the queue for the messages returned.
LEMMA Moved ==
  ASSUME NEW S, NEW g \in Seq(S), NEW q \in Seq(S), q # << >>
  PROVE  /\ Append(g, Head(q)) \in Seq(S) /\ Tail(q) \in Seq(S) /\ Len(Tail(q)) = Len(q) - 1
         /\ Append(g, Head(q)) \o Tail(q) = g \o q
<1>1. Head(q) \in S /\ Head(q) = q[1] /\ Tail(q) \in Seq(S) /\ Len(Tail(q)) = Len(q) - 1
      /\ \A i \in 1 .. Len(Tail(q)) : Tail(q)[i] = q[i + 1]
  BY HeadTailProperties
<1>2. Append(g, Head(q)) = g \o <<Head(q)>> BY <1>1
<1>3. <<Head(q)>> \o Tail(q) = q
  <2>1. SubSeq(q, 1, Len(q)) = <<q[1]>> \o SubSeq(q, 1 + 1, Len(q)) /\ SubSeq(q, 1, Len(q)) = q
    <3>1. 1 \in 1 .. Len(q) /\ Len(q) \in 1 .. Len(q) BY EmptySeq
    <3> QED BY <3>1, SubSeqRecursiveFirst, SubSeqFull
  <2>2. Tail(q) = SubSeq(q, 2, Len(q)) /\ 1 + 1 = 2 BY TailIsSubSeq
  <2> QED BY <1>1, <2>1, <2>2
<1>4. (g \o <<Head(q)>>) \o Tail(q) = g \o (<<Head(q)>> \o Tail(q))
  BY <1>1, ConcatAssociative
<1> QED BY <1>1, <1>2, <1>3, <1>4

LEMMA TypeRecvMessage ==
  ASSUME TypeOK, NEW e \in End, RecvMessage(e)
  PROVE  /\ TypeOK'
         /\ got[e]' \o inq[e]' = got[e] \o inq[e]
         /\ \A d \in End \ {e} : got[d]' = got[d] /\ inq[d]' = inq[d]
<1>1. QueueType /\ ThreadType /\ WireType BY TypeParts
<1> DEFINE g == got[e]  q == inq[e]
<1>2. g \in Seq(Received) /\ q \in Seq(Received) /\ q # << >> /\ Len(q) <= InLen /\ InLen \in Nat
  BY <1>1, BoundAssumption DEF QueueType, RecvMessage
<1>3. Tail(q) \in Seq(Received) /\ Len(Tail(q)) <= InLen /\ Append(g, Head(q)) \in Seq(Received)
      /\ Append(g, Head(q)) \o Tail(q) = g \o q
  <2> HIDE DEF g, q
  <2>1. /\ Append(g, Head(q)) \in Seq(Received) /\ Tail(q) \in Seq(Received)
        /\ Len(Tail(q)) = Len(q) - 1 /\ Append(g, Head(q)) \o Tail(q) = g \o q
    BY <1>2, Moved, Zenon
  <2>2. Len(q) \in Nat BY <1>2
  <2>3. Len(Tail(q)) <= InLen BY <1>2, <2>1, <2>2, SMTT(20)
  <2> QED BY <2>1, <2>3
<1>4. got' = [got EXCEPT ![e] = Append(g, Head(q))] /\ inq' = [inq EXCEPT ![e] = Tail(q)]
  BY DEF RecvMessage
<1> HIDE DEF g, q
<1>5. QueueType' BY <1>1, <1>3, <1>4 DEF QueueType, RecvMessage
<1>6. ThreadType' /\ WireType' BY <1>1 DEF ThreadType, WireType, RecvMessage, wire
<1>7. /\ got[e]' \o inq[e]' = g \o q
      /\ \A d \in End \ {e} : got[d]' = got[d] /\ inq[d]' = inq[d]
  <2>1. got[e]' = Append(g, Head(q)) /\ inq[e]' = Tail(q)
    BY <1>1, <1>4 DEF QueueType
  <2>2. \A d \in End \ {e} : got[d]' = got[d] /\ inq[d]' = inq[d]
    BY <1>1, <1>4 DEF QueueType
  <2> QED BY <1>3, <2>1, <2>2
<1> QED BY <1>5, <1>6, <1>7, TypeParts, PTL DEF g, q

LEMMA TypeConnected ==
  ASSUME ThreadType, NEW e \in End, NEW c \in Conn, Connected(e, c)
  PROVE  ThreadType'
<1>1. connected' \in [End -> BOOLEAN] /\ sock' \in [End -> {0} \cup Conn]
  BY DEF ThreadType, Connected
<1>2. rcv' \in [End -> RcvThread] BY DEF ThreadType, Connected, RcvThread
<1>3. mgr' \in [End -> MgrThread] BY MgrAt DEF Connected
<1> QED BY <1>1, <1>2, <1>3 DEF ThreadType

LEMMA TypeConnect ==
  ASSUME TypeOK, Connect
  PROVE  TypeOK'
<1>1. QueueType /\ ThreadType /\ WireType BY TypeParts
<1>2. PICK c \in Conn :
        /\ half' = [d \in Conn |->
                CASE d = c -> [e \in End |-> "open"]
                  [] d # c /\ half[d]["server"] \in {"open", "void"} ->
                       [half[d] EXCEPT !["server"] = "reset"]
                  [] OTHER -> half[d]]
        /\ backlog' = Append(backlog, c)
        /\ Connected("client", c)
  BY DEF Connect
<1>3. QueueType' BY <1>1, <1>2 DEF QueueType, Connected
<1>4. ThreadType' BY <1>1, <1>2, Ends, TypeConnected
<1>5. half' \in [Conn -> [End -> Half]]
  <2>1. \A d \in Conn : half[d] \in [End -> Half] BY <1>1 DEF WireType
  <2>2. /\ [e \in End |-> "open"] \in [End -> Half]
        /\ \A d \in Conn : [half[d] EXCEPT !["server"] = "reset"] \in [End -> Half]
    BY <2>1 DEF Half, Gone
  <2> QED BY <1>2, <2>1, <2>2
<1>6. WireType' BY <1>1, <1>2, <1>5 DEF WireType, Connected
<1> QED BY <1>3, <1>4, <1>6, TypeParts, PTL

LEMMA TypeAccept ==
  ASSUME TypeOK, Accept
  PROVE  TypeOK'
<1>1. QueueType /\ ThreadType /\ WireType BY TypeParts
<1>2. Head(backlog) \in Conn /\ Tail(backlog) \in Seq(Conn)
  BY <1>1, HeadTailProperties DEF WireType, Accept
<1>3. QueueType' BY <1>1 DEF QueueType, Accept, Connected
<1>4. ThreadType' BY <1>1, <1>2, Ends, TypeConnected DEF Accept
<1>6. WireType' BY <1>1, <1>2 DEF WireType, Accept, Connected
<1> QED BY <1>3, <1>4, <1>6, TypeParts, PTL

LEMMA TypeLoop ==
  ASSUME TypeOK, NEW e \in End, Loop(e)
  PROVE  TypeOK'
<1>1. QueueType /\ ThreadType /\ WireType BY TypeParts
<1>3. QueueType' BY <1>1 DEF QueueType, Loop, mgrUnchanged
<1>4. ThreadType' BY <1>1 DEF ThreadType, Loop, mgrUnchanged, MgrThread
<1>6. WireType' BY <1>1 DEF WireType, Loop, mgrUnchanged
<1> QED BY <1>3, <1>4, <1>6, TypeParts, PTL

LEMMA TypeTake ==
  ASSUME TypeOK, NEW e \in End, Take(e)
  PROVE  TypeOK'
<1>1. QueueType /\ ThreadType /\ WireType BY TypeParts
<1>2. /\ retry[e] # << >> => Head(retry[e]) \in Nat
      /\ outq[e] # << >> => /\ Head(outq[e]) \in Nat /\ Tail(outq[e]) \in Seq(Nat)
                            /\ Len(Tail(outq[e])) <= OutLen
  <2>1. outq[e] \in Seq(Nat) /\ retry[e] \in Seq(Nat) /\ Len(outq[e]) <= OutLen /\ OutLen \in Nat
    BY <1>1, BoundAssumption DEF QueueType
  <2> QED BY <2>1, HeadTailProperties
<1>3. QueueType' BY <1>1, <1>2 DEF QueueType, Take, mgrUnchanged
<1>4. mgr' \in [End -> MgrThread]
  <2>1. \A k \in {"loop", "join"} : [mgr EXCEPT ![e].pc = k] \in [End -> MgrThread]
    BY <1>1, MgrAt
  <2>2. \A b \in Nat : [pc |-> "send", buf |-> b] \in MgrThread BY DEF MgrThread
  <2>3. ASSUME NEW b \in Nat
        PROVE  [mgr EXCEPT ![e] = [pc |-> "send", buf |-> b]] \in [End -> MgrThread]
    BY <1>1, <2>2 DEF ThreadType
  <2> QED BY <1>2, <2>1, <2>3 DEF Take
<1>5. ThreadType' BY <1>1, <1>4 DEF ThreadType, Take, mgrUnchanged
<1>6. WireType' BY <1>1 DEF WireType, Take, mgrUnchanged
<1> QED BY <1>3, <1>5, <1>6, TypeParts, PTL

LEMMA TypeSendWhole ==
  ASSUME TypeOK, Places, NEW e \in End, SendWhole(e)
  PROVE  TypeOK'
<1>1. QueueType /\ ThreadType /\ WireType BY TypeParts
<1> DEFINE c == sock[e]  o == Other(e)  m == mgr[e].buf
<1>2. c \in Conn /\ o \in End /\ m \in Nat
  BY <1>1, OnConn, Ends DEF SendWhole, ThreadType, MgrThread
<1>3. QueueType'
  BY <1>1 DEF QueueType, SendWhole, mgrUnchanged
<1>4. ThreadType'
  BY <1>1 DEF ThreadType, SendWhole, mgrUnchanged, MgrThread
<1>5. half' \in [Conn -> [End -> Half]]
  <2>1. half' = half \/ half' = [half EXCEPT ![c][e] = "void"] BY DEF SendWhole
  <2> HIDE DEF c
  <2>2. half \in [Conn -> [End -> Half]] /\ "void" \in Half BY <1>1 DEF WireType, Half
  <2>3. [half EXCEPT ![c][e] = "void"] \in [Conn -> [End -> Half]] BY <1>2, <2>2, Update2
  <2> QED BY <2>1, <2>2, <2>3
<1>6. pipe[c][o] \o OnWire(m) \in Seq(UnitType)
  BY <1>1, <1>2, UnitTypes, ConcatProperties DEF WireType
<1>7. pipe' = pipe \/ pipe' = [pipe EXCEPT ![c][o] = pipe[c][o] \o OnWire(m)]
  BY DEF SendWhole
<1>8. pipe' \in [Conn -> [End -> Seq(UnitType)]]
  <2> HIDE DEF c, o, m
  <2>1. pipe \in [Conn -> [End -> Seq(UnitType)]] BY <1>1 DEF WireType
  <2>2. [pipe EXCEPT ![c][o] = pipe[c][o] \o OnWire(m)] \in [Conn -> [End -> Seq(UnitType)]]
    BY <1>2, <1>6, <2>1, Update2
  <2> QED BY <1>7, <2>1, <2>2
<1>9. WireType' BY <1>1, <1>5, <1>8 DEF WireType, SendWhole, mgrUnchanged
<1> QED BY <1>3, <1>4, <1>9, TypeParts, PTL

LEMMA TypeSendFailed ==
  ASSUME TypeOK, NEW e \in End, SendFailed(e)
  PROVE  QueueType' /\ ThreadType' /\ UNCHANGED backlog
<1>1. QueueType /\ ThreadType /\ WireType BY TypeParts
<1>2. mgr[e].buf \in Nat /\ <<mgr[e].buf>> \in Seq(Nat) BY <1>1 DEF ThreadType, MgrThread
<1>3. QueueType' BY <1>1, <1>2 DEF QueueType, SendFailed, mgrUnchanged
<1>4. ThreadType' BY <1>1 DEF ThreadType, SendFailed, mgrUnchanged, MgrThread
<1> QED BY <1>3, <1>4 DEF SendFailed, mgrUnchanged

LEMMA TypeSendFails ==
  ASSUME TypeOK, Places, NEW e \in End, SendFails(e)
  PROVE  TypeOK'
<1>1. QueueType /\ ThreadType /\ WireType BY TypeParts
<1>2. QueueType' /\ ThreadType' /\ UNCHANGED backlog BY TypeSendFailed DEF SendFails
<1>3. WireType' BY <1>1, <1>2 DEF WireType, SendFails, Report, Half, Gone
<1> QED BY <1>2, <1>3, TypeParts, PTL

LEMMA TypeSendPartial ==
  ASSUME TypeOK, Places, NEW e \in End, SendPartial(e)
  PROVE  TypeOK'
<1>1. QueueType /\ ThreadType /\ WireType BY TypeParts
<1> DEFINE c == sock[e]  o == Other(e)  m == mgr[e].buf
<1>2. c \in Conn /\ o \in End /\ m \in Nat
  BY <1>1, OnConn, Ends DEF SendPartial, ThreadType, MgrThread
<1>3. QueueType' /\ ThreadType' /\ UNCHANGED backlog BY TypeSendFailed DEF SendPartial
<1>4. PICK part \in {<<Unit("h", m)>>, <<Unit("H", m)>>, <<Unit("H", m), Unit("D", m)>>} :
        pipe' = [pipe EXCEPT ![c][o] = pipe[c][o] \o part]
  BY DEF SendPartial
<1>5. part \in Seq(UnitType)
  <2>1. \A k \in {"h", "H", "D", "T"} : Unit(k, m) \in UnitType BY <1>2, UnitTypes
  <2> HIDE DEF m
  <2>2. /\ <<Unit("h", m)>> \in Seq(UnitType) /\ <<Unit("H", m)>> \in Seq(UnitType)
        /\ <<Unit("H", m), Unit("D", m)>> \in Seq(UnitType)
    BY <2>1
  <2> QED BY <1>4, <2>2
<1>6. pipe[c][o] \o part \in Seq(UnitType)
  BY <1>1, <1>2, <1>5, ConcatProperties DEF WireType
<1>7. half' \in [Conn -> [End -> Half]]
  BY <1>1, <1>2 DEF WireType, SendPartial, Report, Half, Gone
<1>8. faults' \in [Conn -> Nat]
  <2>1. faults' = [faults EXCEPT ![c] = @ + 1] BY FaultStep DEF SendPartial
  <2> QED BY <1>1, <1>2, <2>1 DEF WireType
<1>9. pipe' \in [Conn -> [End -> Seq(UnitType)]]
  <2> HIDE DEF c, o, m
  <2> QED BY <1>1, <1>2, <1>4, <1>6, Update2 DEF WireType
<1>10. WireType' BY <1>1, <1>3, <1>7, <1>8, <1>9 DEF WireType
<1> QED BY <1>3, <1>10, TypeParts, PTL

LEMMA TypeJoin ==
  ASSUME TypeOK, Places, NEW e \in End, Join(e)
  PROVE  TypeOK'
<1>1. QueueType /\ ThreadType /\ WireType BY TypeParts
<1>2. sock[e] \in Conn /\ Other(e) \in End /\ Other(e) # e BY OnConn, Ends DEF Join
<1>3. QueueType' BY <1>1 DEF QueueType, Join
<1>4. mgr' \in [End -> MgrThread] BY <1>1, MgrAt DEF Join
<1>5. ThreadType' BY <1>1, <1>4 DEF ThreadType, Join
<1>6. half' \in [Conn -> [End -> Half]]
  BY <1>1, <1>2 DEF WireType, Join, Half, Gone
<1>7. pipe' \in [Conn -> [End -> Seq(UnitType)]]
  BY <1>1, <1>2 DEF WireType, Join
<1>8. WireType' BY <1>1, <1>6, <1>7 DEF WireType, Join
<1> QED BY <1>3, <1>5, <1>8, TypeParts, PTL

LEMMA TypeReceiver ==
  ASSUME TypeOK, Places, NEW e \in End, Receiver(e)
  PROVE  TypeOK'
<1>1. QueueType /\ ThreadType /\ WireType BY TypeParts
<1> DEFINE c == sock[e]
<1>2. /\ c \in Conn /\ rcvUnchanged /\ connected' \in [End -> BOOLEAN] /\ faults' \in [Conn -> Nat]
  BY ReceiverStep
<1>3. PICK k \in 0 .. Len(pipe[c][e]), t \in RcvThread :
        Takes(e, c, k) /\ GoesOn(e, c, k, t) /\ Gives(e, c, k) /\ Reports(e, c)
  BY ReceiverStep
<1> HIDE DEF c
<1>4. inq' \in [End -> Seq(Received)] /\ \A d \in End : Len(inq'[d]) <= InLen
  <2>1. /\ inq[e] \in Seq(Received) /\ Len(inq[e]) <= InLen /\ InLen \in Nat
        /\ inq \in [End -> Seq(Received)] /\ \A d \in End : Len(inq[d]) <= InLen
    BY <1>1, BoundAssumption DEF QueueType
  <2>2. CASE inq' = inq BY <2>1, <2>2
  <2>3. CASE \E r \in Received : inq' = [inq EXCEPT ![e] = Push(inq[e], InLen, r)]
    <3>1. PICK r \in Received : inq' = [inq EXCEPT ![e] = Push(inq[e], InLen, r)]
      BY <2>3
    <3>2. Push(inq[e], InLen, r) \in Seq(Received) /\ Len(Push(inq[e], InLen, r)) <= InLen
      BY <2>1, Pushed
    <3> QED BY <2>1, <3>1, <3>2
  <2> QED BY <1>3, <2>2, <2>3 DEF Gives
<1>5. QueueType' BY <1>1, <1>2, <1>4 DEF QueueType, rcvUnchanged
<1>6. ThreadType' BY <1>1, <1>2, <1>3 DEF ThreadType, rcvUnchanged, GoesOn
<1>7. half' \in [Conn -> [End -> Half]]
  <2>1. half \in [Conn -> [End -> Half]] /\ "dead" \in Half BY <1>1 DEF WireType, Half, Gone
  <2>2. [half EXCEPT ![c][e] = "dead"] \in [Conn -> [End -> Half]] BY <1>2, <2>1, Update2
  <2> QED BY <1>3, <2>1, <2>2 DEF Reports
<1>8. pipe' \in [Conn -> [End -> Seq(UnitType)]]
  <2>1. pipe \in [Conn -> [End -> Seq(UnitType)]] /\ pipe[c][e] \in Seq(UnitType) BY <1>1, <1>2 DEF WireType
  <2>2. SubSeq(pipe[c][e], k + 1, Len(pipe[c][e])) \in Seq(UnitType) BY <2>1, CutFront
  <2>3. pipe' = [pipe EXCEPT ![c][e] = SubSeq(pipe[c][e], k + 1, Len(pipe[c][e]))]
    BY <1>3 DEF Takes
  <2> QED BY <1>2, <2>1, <2>2, <2>3, Update2
<1>9. WireType' BY <1>1, <1>2, <1>7, <1>8 DEF WireType, rcvUnchanged
<1> QED BY <1>5, <1>6, <1>9, TypeParts, PTL

LEMMA TypeReset ==
  ASSUME TypeOK, NEW c \in Conn, NEW e \in End, Reset(c, e)
  PROVE  TypeOK'
<1>1. QueueType /\ ThreadType /\ WireType BY TypeParts
<1>2. QueueType' /\ ThreadType' BY <1>1 DEF QueueType, ThreadType, Reset, ends
<1>3. half' \in [Conn -> [End -> Half]]
  BY <1>1 DEF WireType, Reset, Half, Gone
<1>4. WireType' BY <1>1, <1>3 DEF WireType, Reset
<1> QED BY <1>2, <1>4, TypeParts, PTL

\* What is left of a connection that breaks.
LEMMA BreakStep ==
  ASSUME TypeOK, NEW c \in Conn, NEW e \in End, Break(c, e)
  PROVE  /\ pipe' \in [Conn -> [End -> Seq(UnitType)]]
         /\ \A d \in Conn, b \in End : d # c => pipe'[d][b] = pipe[d][b]
         /\ \A b \in End : \E i \in 0 .. Len(pipe[c][b]) : pipe'[c][b] = SubSeq(pipe[c][b], 1, i)
<1>1. pipe \in [Conn -> [End -> Seq(UnitType)]] BY TypeParts DEF WireType
<1>2. PICK i \in 0 .. Len(pipe[c]["client"]), j \in 0 .. Len(pipe[c]["server"]) :
        pipe' = [pipe EXCEPT ![c]["client"] = SubSeq(@, 1, i), ![c]["server"] = SubSeq(@, 1, j)]
  BY DEF Break
<1> DEFINE p == SubSeq(pipe[c]["client"], 1, i)  q == SubSeq(pipe[c]["server"], 1, j)
<1>3. p \in Seq(UnitType) /\ q \in Seq(UnitType)
  <2>1. pipe[c]["client"] \in Seq(UnitType) /\ pipe[c]["server"] \in Seq(UnitType) BY <1>1, Ends
  <2> QED BY <2>1, CutBack
<1>4. pipe' = [d \in Conn |-> IF d = c THEN [pipe[c] EXCEPT !["client"] = p, !["server"] = q]
                                        ELSE pipe[d]]
  BY <1>1, <1>2, Ends
<1> HIDE DEF p, q
<1>5. [pipe[c] EXCEPT !["client"] = p, !["server"] = q] \in [End -> Seq(UnitType)]
      /\ [pipe[c] EXCEPT !["client"] = p, !["server"] = q]["client"] = p
      /\ [pipe[c] EXCEPT !["client"] = p, !["server"] = q]["server"] = q
  BY <1>1, <1>3, Ends
<1>6. pipe' \in [Conn -> [End -> Seq(UnitType)]]
      /\ \A d \in Conn, b \in End : d # c => pipe'[d][b] = pipe[d][b]
  BY <1>1, <1>4, <1>5
<1>7. pipe'[c]["client"] = p /\ pipe'[c]["server"] = q BY <1>4, <1>5
<1> QED BY <1>2, <1>6, <1>7, Ends DEF p, q

LEMMA TypeBreak ==
  ASSUME TypeOK, NEW c \in Conn, NEW e \in End, Break(c, e)
  PROVE  TypeOK'
<1>1. QueueType /\ ThreadType /\ WireType BY TypeParts
<1>2. QueueType' /\ ThreadType' BY <1>1 DEF QueueType, ThreadType, Break, ends
<1>3. half' \in [Conn -> [End -> Half]]
  BY <1>1 DEF WireType, Break, Half, Gone
<1>4. faults' = [faults EXCEPT ![c] = @ + 1] BY FaultStep DEF Break
<1>5. faults' \in [Conn -> Nat] BY <1>1, <1>4 DEF WireType
<1>6. WireType' BY <1>1, <1>3, <1>5, BreakStep DEF WireType, Break
<1> QED BY <1>2, <1>6, TypeParts, PTL

-----------------------------------------------------------------------------
\* Pipes.
Pipes == [Conn -> [End -> Seq(UnitType)]]

LEMMA PipeType ==
  ASSUME TypeOK, NEW c \in Conn, NEW e \in End
  PROVE  pipe \in Pipes /\ pipe[c][e] \in Seq(UnitType) /\ DOMAIN pipe[c][e] = 1 .. Len(pipe[c][e])
BY TypeParts DEF WireType, Pipes

\* A part of a pipe in frames is in frames, and so is one to which another is added.
LEMMA PartInFrames ==
  ASSUME NEW p \in Seq(UnitType), NEW q \in Seq(UnitType), Part(q, p), InFrames(p)
  PROVE  InFrames(q)
<1>1. PICK a \in Nat : Len(q) + a <= Len(p) /\ \A i \in 1 .. Len(q) : q[i] = p[i + a]
  BY DEF Part
<1> SUFFICES ASSUME NEW i \in 1 .. Len(q), i + 1 \in 1 .. Len(q)
             PROVE  /\ q[i].kind = "H" => q[i + 1] = Unit("D", q[i].msg)
                    /\ q[i].kind = "D" => q[i + 1] = Unit("T", q[i].msg)
                    /\ q[i].kind # "h"
  BY DEF InFrames
<1>2. i + a \in DOMAIN p /\ (i + a) + 1 \in DOMAIN p /\ q[i] = p[i + a] /\ q[i + 1] = p[(i + a) + 1]
  BY <1>1
<1> QED BY <1>2 DEF InFrames

LEMMA JoinInFrames ==
  ASSUME NEW p \in Seq(UnitType), NEW x \in Seq(UnitType), InFrames(p), InFrames(x),
         p = << >> \/ p[Len(p)].kind = "T"
  PROVE  InFrames(p \o x)
<1> DEFINE q == p \o x
<1>1. q \in Seq(UnitType) /\ Len(q) = Len(p) + Len(x) /\ Len(p) \in Nat /\ Len(x) \in Nat
      /\ \A i \in 1 .. Len(p) + Len(x) : q[i] = IF i <= Len(p) THEN p[i] ELSE x[i - Len(p)]
  BY ConcatProperties
<1> HIDE DEF q
<1> SUFFICES InFrames(q) BY DEF q
<1>d. DOMAIN q = 1 .. Len(q) BY <1>1
<1> SUFFICES ASSUME NEW i \in 1 .. Len(q), i + 1 \in 1 .. Len(q)
             PROVE  /\ q[i].kind = "H" => q[i + 1] = Unit("D", q[i].msg)
                    /\ q[i].kind = "D" => q[i + 1] = Unit("T", q[i].msg)
                    /\ q[i].kind # "h"
  BY <1>d DEF InFrames
<1>2. CASE i < Len(p)
  <2>1. i \in DOMAIN p /\ i + 1 \in DOMAIN p /\ q[i] = p[i] /\ q[i + 1] = p[i + 1]
    BY <1>1, <1>2
  <2> QED BY <2>1 DEF InFrames
<1>3. CASE i = Len(p)
  <2>1. q[i] = p[Len(p)] /\ p # << >> BY <1>1, <1>3
  <2> QED BY <2>1
<1>4. CASE i > Len(p)
  <2> DEFINE n == i - Len(p)
  <2>0. i \in Int /\ i >= 1 /\ i + 1 <= Len(p) + Len(x) /\ Len(p) \in Int /\ Len(p) >= 0 BY <1>1
  <2>1. /\ n \in 1 .. Len(x) /\ n + 1 \in 1 .. Len(x) /\ (i + 1) - Len(p) = n + 1
        /\ i \in 1 .. Len(p) + Len(x) /\ i + 1 \in 1 .. Len(p) + Len(x)
        /\ ~(i <= Len(p)) /\ ~(i + 1 <= Len(p))
    BY <1>1, <1>4, <2>0
  <2>2. q[i] = x[n] /\ q[i + 1] = x[n + 1]
    <3>1. q[i] = x[i - Len(p)] /\ q[i + 1] = x[(i + 1) - Len(p)] BY <1>1, <2>1, Zenon
    <3> QED BY <2>1, <3>1
  <2>3. n \in DOMAIN x /\ n + 1 \in DOMAIN x BY <2>1
  <2> HIDE DEF n
  <2> QED BY <2>2, <2>3 DEF InFrames
<1> QED BY <1>1, <1>2, <1>3, <1>4

\* When units only leave the pipes, they stay in frames and in order.
Shrinks == \A c \in Conn, e \in End : Part(pipe'[c][e], pipe[c][e])

OldTails == \A e \in End : \A c \in Conn : \A j \in Tails(c, e)' :
              \E i \in Tails(c, e) : pipe'[c][e][j].msg = pipe[c][e][i].msg

\* A step that only takes units away leaves the frames and the order of the tails.
LEMMA Shrink ==
  ASSUME pipe \in Pipes, pipe' \in Pipes, Shrinks
  PROVE  (Framed => Framed') /\ (PipeOrder => PipeOrder') /\ OldTails
<1>1. ASSUME NEW c \in Conn, NEW e \in End
      PROVE  pipe[c][e] \in Seq(UnitType) /\ pipe'[c][e] \in Seq(UnitType)
             /\ Part(pipe'[c][e], pipe[c][e])
  BY DEF Pipes, Shrinks
<1>2. Framed => Framed' BY <1>1, PartInFrames DEF Framed
<1>3. ASSUME NEW c \in Conn, NEW e \in End
      PROVE  \E a \in Nat : \A j \in Tails(c, e)' :
               j \in Nat /\ j + a \in Tails(c, e) /\ pipe'[c][e][j] = pipe[c][e][j + a]
  <2>1. PICK a \in Nat : /\ Len(pipe'[c][e]) + a <= Len(pipe[c][e])
                         /\ \A i \in 1 .. Len(pipe'[c][e]) : pipe'[c][e][i] = pipe[c][e][i + a]
    BY <1>1 DEF Part
  <2>2. ASSUME NEW j \in Tails(c, e)'
        PROVE  j \in Nat /\ j + a \in Tails(c, e) /\ pipe'[c][e][j] = pipe[c][e][j + a]
    <3>1. j \in 1 .. Len(pipe'[c][e]) /\ pipe'[c][e][j].kind = "T" BY <1>1 DEF Tails
    <3>2. j + a \in DOMAIN pipe[c][e] /\ pipe'[c][e][j] = pipe[c][e][j + a] BY <1>1, <2>1, <3>1
    <3> QED BY <3>1, <3>2 DEF Tails
  <2> QED BY <2>2
<1>4. ASSUME PipeOrder, NEW e \in End, NEW c \in Conn, NEW d \in Conn,
             NEW i \in Tails(c, e)', NEW j \in Tails(d, e)', Before(c, i, d, j)
      PROVE  pipe'[c][e][i].msg < pipe'[d][e][j].msg
  <2>1. PICK a \in Nat : \A n \in Tails(c, e)' :
          n \in Nat /\ n + a \in Tails(c, e) /\ pipe'[c][e][n] = pipe[c][e][n + a]
    BY <1>3
  <2>2. PICK b \in Nat : \A n \in Tails(d, e)' :
          n \in Nat /\ n + b \in Tails(d, e) /\ pipe'[d][e][n] = pipe[d][e][n + b]
    BY <1>3
  <2>3. CASE c < d
    <3>1. Before(c, i + a, d, j + b) BY <2>3 DEF Before
    <3> QED BY <1>4, <2>1, <2>2, <3>1 DEF PipeOrder
  <2>4. CASE c = d /\ i < j
    <3>1. j + a \in Tails(d, e) /\ pipe'[d][e][j] = pipe[d][e][j + a] /\ i + a < j + a
      BY <2>1, <2>4
    <3>2. Before(c, i + a, d, j + a) BY <2>4, <3>1 DEF Before
    <3> QED BY <1>4, <2>1, <3>1, <3>2 DEF PipeOrder
  <2> QED BY <1>4, <2>3, <2>4 DEF Before
<1>5. PipeOrder => PipeOrder' BY <1>4 DEF PipeOrder, Before
<1>6. OldTails BY <1>3 DEF OldTails
<1> QED BY <1>2, <1>5, <1>6

-----------------------------------------------------------------------------
\* The sender's side: what it still has is in order, and what is behind it stays so.
SenderKeeps == \A e \in End, m \in Nat : Sent(e, m) => Sent(e, m)'

LEMMA SenderType ==
  ASSUME TypeOK, NEW e \in End
  PROVE  /\ handed[e] \in Nat /\ mgr[e].buf \in Nat
         /\ outq[e] \in Seq(Nat) /\ retry[e] \in Seq(Nat)
         /\ handed \in [End -> Nat] /\ mgr \in [End -> MgrThread]
         /\ outq \in [End -> Seq(Nat)] /\ retry \in [End -> Seq(Nat)]
BY TypeParts DEF QueueType, ThreadType, MgrThread

\* An end whose queues and manager did not move keeps its line.
LEMMA LineKept ==
  ASSUME NEW d \in End, InLine(d), handed'[d] = handed[d], outq'[d] = outq[d],
         retry'[d] = retry[d], mgr'[d] = mgr[d]
  PROVE  InLine(d)' /\ \A m \in Nat : Sent(d, m) => Sent(d, m)'
BY DEF InLine, Sent

\* A number behind a queue is behind what is pushed to it.
LEMMA BehindAll ==
  ASSUME NEW h \in Nat, NEW m \in Nat, m <= h, NEW q, NEW r,
         \A i \in DOMAIN q : m < q[i],
         \A i \in DOMAIN r : (i \in DOMAIN q /\ r[i] = q[i]) \/ r[i] = h + 1
  PROVE  m <= h + 1 /\ \A i \in DOMAIN r : m < r[i]
<1>1. ASSUME NEW i \in DOMAIN r PROVE m < r[i]
  <2>1. CASE i \in DOMAIN q /\ r[i] = q[i] BY <2>1
  <2>2. CASE r[i] = h + 1 BY <2>2
  <2> QED BY <2>1, <2>2
<1> QED BY <1>1

\* The line of a sender is kept by each step of its manager and by sendMessage.
LEMMA SenderIdle ==
  ASSUME SenderOrder, UNCHANGED <<handed, outq, retry>>,
         \A e \in End : mgr'[e] = mgr[e] \/ mgr'[e].pc # "send"
  PROVE  SenderOrder' /\ SenderKeeps
<1>1. SenderOrder' BY DEF SenderOrder, InLine
<1>2. SenderKeeps BY DEF SenderKeeps, Sent
<1> QED BY <1>1, <1>2

LEMMA SenderHanded ==
  ASSUME TypeOK, SenderOrder, NEW e \in End, SendMessage(e)
  PROVE  SenderOrder' /\ SenderKeeps
<1> DEFINE h == handed[e]  q == outq[e]
<1>1. h \in Nat /\ q \in Seq(Nat) /\ handed \in [End -> Nat] /\ outq \in [End -> Seq(Nat)]
  BY SenderType
<1>2. /\ handed' = [handed EXCEPT ![e] = h + 1] /\ UNCHANGED <<retry, mgr>>
      /\ outq' = [outq EXCEPT ![e] = Push(q, OutLen, h + 1)]
  BY DEF SendMessage
<1>3. handed'[e] = h + 1 /\ (outq'[e] = q \/ outq'[e] = Append(q, h + 1))
      /\ \A d \in End \ {e} : handed'[d] = handed[d] /\ outq'[d] = outq[d]
  BY <1>1, <1>2 DEF Push
<1>4. /\ \A i \in DOMAIN outq'[e] : (i \in DOMAIN q /\ outq'[e][i] = q[i]) \/ outq'[e][i] = h + 1
      /\ \A i, j \in DOMAIN outq'[e] : i < j => i \in DOMAIN q /\ outq'[e][i] = q[i]
  <2>1. CASE outq'[e] = q
    <3>1. \A i \in DOMAIN q : outq'[e][i] = q[i] BY <2>1
    <3> QED BY <2>1, <3>1
  <2>2. CASE outq'[e] = Append(q, h + 1)
    <3> DEFINE r == Append(q, h + 1)
    <3>1. DOMAIN r = 1 .. Len(q) + 1 /\ DOMAIN q = 1 .. Len(q) /\ Len(q) \in Nat
          /\ r[Len(q) + 1] = h + 1 /\ \A i \in 1 .. Len(q) : r[i] = q[i]
      BY <1>1
    <3> HIDE DEF r
    <3>2. \A i \in 1 .. Len(q) + 1 : i \in 1 .. Len(q) \/ i = Len(q) + 1 BY <3>1
    <3>3. \A i, j \in 1 .. Len(q) + 1 : i < j => i \in 1 .. Len(q) BY <3>1
    <3> QED BY <2>2, <3>1, <3>2, <3>3 DEF r
  <2> QED BY <1>3, <2>1, <2>2
<1> HIDE DEF h, q
<1>5. \A i \in DOMAIN q : q[i] \in Nat /\ q[i] <= h BY <1>1 DEF SenderOrder, InLine, h, q
<1>6. mgr[e].buf \in Nat /\ retry[e] \in Seq(Nat) BY SenderType
<1>7. SenderOrder'
  <2> SUFFICES ASSUME NEW d \in End PROVE InLine(d)' BY DEF SenderOrder
  <2>1. CASE d # e
    <3>1. /\ InLine(d) /\ handed'[d] = handed[d] /\ outq'[d] = outq[d]
          /\ retry'[d] = retry[d] /\ mgr'[d] = mgr[d]
      BY <1>2, <1>3, <2>1 DEF SenderOrder
    <3> QED BY <3>1, LineKept
  <2>2. CASE d = e
    <3>1. ASSUME NEW i \in DOMAIN outq'[e] PROVE outq'[e][i] <= h + 1
      <4>1. CASE i \in DOMAIN q /\ outq'[e][i] = q[i] BY <1>1, <1>5, <4>1
      <4>2. CASE outq'[e][i] = h + 1 BY <1>1, <4>2
      <4> QED BY <1>4, <4>1, <4>2
    <3>2. \A i, j \in DOMAIN outq'[e] : i < j => outq'[e][i] < outq'[e][j]
      <4> SUFFICES ASSUME NEW i \in DOMAIN outq'[e], NEW j \in DOMAIN outq'[e], i < j
                   PROVE  outq'[e][i] < outq'[e][j]
        OBVIOUS
      <4>1. i \in DOMAIN q /\ outq'[e][i] = q[i] BY <1>4
      <4>2. CASE j \in DOMAIN q /\ outq'[e][j] = q[j] BY <4>1, <4>2 DEF SenderOrder, InLine, q
      <4>3. CASE outq'[e][j] = h + 1 BY <1>1, <1>5, <4>1, <4>3
      <4> QED BY <1>4, <4>2, <4>3
    <3>3. retry[e] # << >> =>
            /\ Len(retry[e]) = 1 /\ retry[e][1] <= h /\ retry[e][1] \in Nat
            /\ mgr[e].pc = "send" => mgr[e].buf = retry[e][1]
            /\ \A i \in DOMAIN q : retry[e][1] < q[i]
      BY <1>6 DEF SenderOrder, InLine, h, q
    <3>4. mgr[e].pc = "send" => mgr[e].buf <= h /\ \A i \in DOMAIN q : mgr[e].buf < q[i]
      BY DEF SenderOrder, InLine, h, q
    <3>5. retry[e] # << >> =>
            /\ retry[e][1] <= h + 1
            /\ \A i \in DOMAIN outq'[e] : retry[e][1] < outq'[e][i]
      <4>1. \A i \in DOMAIN outq'[e] : (i \in DOMAIN q /\ outq'[e][i] = q[i]) \/ outq'[e][i] = h + 1
        BY <1>4
      <4> QED BY <1>1, <3>3, <4>1, BehindAll
    <3>6. mgr[e].pc = "send" =>
            /\ mgr[e].buf <= h + 1
            /\ \A i \in DOMAIN outq'[e] : mgr[e].buf < outq'[e][i]
      <4>1. \A i \in DOMAIN outq'[e] : (i \in DOMAIN q /\ outq'[e][i] = q[i]) \/ outq'[e][i] = h + 1
        BY <1>4
      <4> QED BY <1>1, <1>6, <3>4, <4>1, BehindAll
    <3>7. handed'[e] = h + 1 /\ retry'[e] = retry[e] /\ mgr'[e] = mgr[e] BY <1>2, <1>3
    <3> QED BY <2>2, <3>1, <3>2, <3>3, <3>5, <3>6, <3>7 DEF InLine
  <2> QED BY <2>1, <2>2
<1>8. SenderKeeps
  <2> SUFFICES ASSUME NEW d \in End, NEW m \in Nat, Sent(d, m) PROVE Sent(d, m)'
    BY DEF SenderKeeps
  <2>1. CASE d # e
    <3>1. /\ InLine(d) /\ handed'[d] = handed[d] /\ outq'[d] = outq[d]
          /\ retry'[d] = retry[d] /\ mgr'[d] = mgr[d]
      BY <1>2, <1>3, <2>1 DEF SenderOrder
    <3> QED BY <3>1, LineKept
  <2>2. CASE d = e
    <3>1. m <= h /\ \A i \in DOMAIN q : m < q[i] BY <2>2 DEF Sent, h, q
    <3>2. m <= h + 1 /\ \A i \in DOMAIN outq'[e] : m < outq'[e][i]
      <4>1. \A i \in DOMAIN outq'[e] : (i \in DOMAIN q /\ outq'[e][i] = q[i]) \/ outq'[e][i] = h + 1
        BY <1>4
      <4> QED BY <1>1, <3>1, <4>1, BehindAll
    <3>3. handed'[e] = h + 1 /\ retry'[e] = retry[e] /\ mgr'[e] = mgr[e] BY <1>2, <1>3
    <3> QED BY <2>2, <3>2, <3>3 DEF Sent
  <2> QED BY <2>1, <2>2
<1> QED BY <1>7, <1>8

LEMMA SenderTakes ==
  ASSUME TypeOK, SenderOrder, NEW e \in End, Take(e)
  PROVE  SenderOrder' /\ SenderKeeps
<1>1. /\ outq[e] \in Seq(Nat) /\ retry[e] \in Seq(Nat)
      /\ mgr \in [End -> MgrThread] /\ outq \in [End -> Seq(Nat)]
  BY SenderType
<1>2. UNCHANGED <<handed, retry>> BY DEF Take, mgrUnchanged
<1>3. CASE UNCHANGED outq /\ mgr'[e].pc # "send" /\ \A d \in End \ {e} : mgr'[d] = mgr[d]
  BY <1>2, <1>3, SenderIdle
<1>4. CASE retry[e] # << >> /\ UNCHANGED outq
           /\ mgr' = [mgr EXCEPT ![e] = [pc |-> "send", buf |-> Head(retry[e])]]
  <2>1. mgr'[e] = [pc |-> "send", buf |-> retry[e][1]] /\ \A d \in End \ {e} : mgr'[d] = mgr[d]
    BY <1>1, <1>4
  <2>2. SenderOrder' BY <1>2, <1>4, <2>1 DEF SenderOrder, InLine
  <2>3. SenderKeeps BY <1>2, <1>4, <2>1 DEF SenderKeeps, Sent
  <2> QED BY <2>2, <2>3
<1>5. CASE /\ retry[e] = << >> /\ outq[e] # << >>
           /\ mgr' = [mgr EXCEPT ![e] = [pc |-> "send", buf |-> Head(outq[e])]]
           /\ outq' = [outq EXCEPT ![e] = Tail(outq[e])]
  <2> DEFINE q == outq[e]
  <2>1. /\ mgr'[e] = [pc |-> "send", buf |-> q[1]] /\ outq'[e] = Tail(q)
        /\ \A d \in End \ {e} : mgr'[d] = mgr[d] /\ outq'[d] = outq[d]
    BY <1>1, <1>5
  <2>2. /\ 1 \in DOMAIN q /\ DOMAIN Tail(q) = 1 .. Len(q) - 1 /\ DOMAIN q = 1 .. Len(q)
        /\ Len(q) \in Nat /\ \A i \in DOMAIN Tail(q) : Tail(q)[i] = q[i + 1]
    BY <1>1, <1>5
  <2> HIDE DEF q
  <2>3. \A i \in DOMAIN Tail(q) : /\ i + 1 \in DOMAIN q /\ Tail(q)[i] = q[i + 1] /\ 1 < i + 1
                                  /\ \A j \in DOMAIN Tail(q) : i < j => i + 1 < j + 1
    BY <2>2
  <2>4. \A i \in DOMAIN q : /\ q[i] <= handed[e]
                            /\ \A j \in DOMAIN q : i < j => q[i] < q[j]
    BY DEF SenderOrder, InLine, q
  <2>5. SenderOrder'
    <3>1. /\ \A i \in DOMAIN Tail(q) :
               /\ Tail(q)[i] <= handed[e] /\ q[1] < Tail(q)[i]
               /\ \A j \in DOMAIN Tail(q) : i < j => Tail(q)[i] < Tail(q)[j]
          /\ q[1] <= handed[e]
      BY <2>2, <2>3, <2>4
    <3>2. InLine(e)'
      <4> DEFINE t == Tail(q)
      <4>1. handed'[e] = handed[e] /\ retry'[e] = << >> /\ outq'[e] = t /\ mgr'[e].buf = q[1]
        BY <1>2, <1>5, <2>1
      <4> HIDE DEF t
      <4>2. /\ \A i \in DOMAIN t : /\ t[i] <= handed[e] /\ q[1] < t[i]
                                   /\ \A j \in DOMAIN t : i < j => t[i] < t[j]
            /\ q[1] <= handed[e]
        BY <3>1 DEF t
      <4> QED BY <4>1, <4>2 DEF InLine
    <3>3. \A d \in End \ {e} : InLine(d)' BY <1>2, <2>1, LineKept DEF SenderOrder
    <3> QED BY <3>2, <3>3 DEF SenderOrder
  <2>6. SenderKeeps
    <3>1. ASSUME NEW m \in Nat, Sent(e, m)
          PROVE  m < q[1] /\ \A i \in DOMAIN Tail(q) : m < Tail(q)[i]
      <4>1. \A i \in DOMAIN q : m < q[i] BY <3>1 DEF Sent, q
      <4> QED BY <2>2, <2>3, <4>1
    <3>2. ASSUME NEW m \in Nat, Sent(e, m) PROVE Sent(e, m)'
      <4> DEFINE t == Tail(q)
      <4>1. handed'[e] = handed[e] /\ retry'[e] = << >> /\ outq'[e] = t /\ mgr'[e].buf = q[1]
        BY <1>2, <1>5, <2>1
      <4>2. m < q[1] /\ (\A i \in DOMAIN t : m < t[i]) /\ m <= handed[e]
        BY <3>1, <3>2 DEF Sent
      <4> HIDE DEF t
      <4> QED BY <4>1, <4>2 DEF Sent
    <3>3. \A d \in End \ {e} : \A m \in Nat : Sent(d, m) => Sent(d, m)'
      BY <1>2, <2>1, LineKept DEF SenderOrder
    <3> QED BY <3>2, <3>3 DEF SenderKeeps
  <2> QED BY <2>5, <2>6
<1>6. CASE /\ retry[e] = << >> /\ outq[e] = << >> /\ UNCHANGED outq
           /\ mgr' = [mgr EXCEPT ![e].pc = IF connected[e] THEN "loop" ELSE "join"]
  <2>1. mgr'[e].pc # "send" /\ \A d \in End \ {e} : mgr'[d] = mgr[d] BY <1>1, <1>6 DEF MgrThread
  <2> QED BY <1>3, <1>6, <2>1
<1> QED BY <1>4, <1>5, <1>6 DEF Take

\* The message that was sent is behind all that is left.
LEMMA SenderSent ==
  ASSUME TypeOK, SenderOrder, NEW e \in End, SendWhole(e)
  PROVE  SenderOrder' /\ SenderKeeps /\ \A m \in Nat : m = mgr[e].buf => Sent(e, m)'
<1>1. /\ retry' = [retry EXCEPT ![e] = << >>] /\ UNCHANGED <<handed, outq>>
      /\ mgr' = [mgr EXCEPT ![e] = [pc |-> "loop", buf |-> 0]] /\ mgr[e].pc = "send"
  BY DEF SendWhole, mgrUnchanged
<1>2. /\ retry'[e] = << >> /\ mgr'[e].pc = "loop"
      /\ \A d \in End \ {e} : retry'[d] = retry[d] /\ mgr'[d] = mgr[d]
  BY <1>1, SenderType
<1>3. SenderOrder' BY <1>1, <1>2 DEF SenderOrder, InLine
<1>4. SenderKeeps BY <1>1, <1>2 DEF SenderKeeps, Sent
<1>5. \A m \in Nat : m = mgr[e].buf => Sent(e, m)'
  BY <1>1, <1>2 DEF SenderOrder, InLine, Sent
<1> QED BY <1>3, <1>4, <1>5

\* The message that failed is the first of what is left.
LEMMA SenderFailed ==
  ASSUME TypeOK, SenderOrder, NEW e \in End, mgr[e].pc = "send", SendFailed(e)
  PROVE  SenderOrder' /\ SenderKeeps
<1>1. /\ retry' = [retry EXCEPT ![e] = <<mgr[e].buf>>] /\ UNCHANGED <<handed, outq>>
      /\ mgr' = [mgr EXCEPT ![e] = [pc |-> "join", buf |-> 0]]
  BY DEF SendFailed, mgrUnchanged
<1>2. /\ retry'[e] = <<mgr[e].buf>> /\ mgr'[e].pc = "join"
      /\ \A d \in End \ {e} : retry'[d] = retry[d] /\ mgr'[d] = mgr[d]
  BY <1>1, SenderType
<1>3. SenderOrder' BY <1>1, <1>2 DEF SenderOrder, InLine
<1>4. SenderKeeps BY <1>1, <1>2 DEF SenderKeeps, Sent
<1> QED BY <1>3, <1>4

-----------------------------------------------------------------------------
\* What has been received is behind what has not.
LEMMA TakenType ==
  ASSUME TypeOK, NEW e \in End
  PROVE  /\ Taken(e) \in Seq(Received) /\ got[e] \in Seq(Received) /\ inq[e] \in Seq(Received)
         /\ \A n \in DOMAIN Taken(e) : Taken(e)[n].msg \in Nat
         /\ \A c \in Conn : \A i \in Tails(c, e) : pipe[c][e][i].msg \in Nat
<1>1. got[e] \in Seq(Received) /\ inq[e] \in Seq(Received) BY TypeParts DEF QueueType
<1>2. Taken(e) \in Seq(Received) BY <1>1, ConcatProperties DEF Taken
<1>3. \A n \in DOMAIN Taken(e) : Taken(e)[n].msg \in Nat
  <2> DEFINE s == Taken(e)
  <2>1. \A n \in DOMAIN s : s[n] \in Received BY <1>2
  <2> HIDE DEF s
  <2>2. \A n \in DOMAIN s : s[n].msg \in Nat BY <2>1 DEF Received
  <2> QED BY <2>2 DEF s
<1>4. ASSUME NEW c \in Conn, NEW i \in Tails(c, e) PROVE pipe[c][e][i].msg \in Nat
  <2>1. pipe[c][e] \in Seq(UnitType) /\ i \in DOMAIN pipe[c][e] BY PipeType DEF Tails
  <2>2. pipe[c][e][i] \in UnitType BY <2>1
  <2> QED BY <2>2 DEF UnitType
<1> QED BY <1>1, <1>2, <1>3, <1>4

LEMMA InOrderTaken ==
  InOrderOnce <=> \A e \in End : \A i, j \in DOMAIN Taken(e) :
    i < j /\ Taken(e)[i].form = "whole" /\ Taken(e)[j].form = "whole"
      => Taken(e)[i].msg < Taken(e)[j].msg
BY DEF InOrderOnce, Taken

SameTaken == \A e \in End : Taken(e)' = Taken(e)

LEMMA InOrderKept == ASSUME InOrderOnce, SameTaken PROVE InOrderOnce'
<1>1. (\A e \in End : \A i, j \in DOMAIN Taken(e) :
        i < j /\ Taken(e)[i].form = "whole" /\ Taken(e)[j].form = "whole"
          => Taken(e)[i].msg < Taken(e)[j].msg)'
  BY InOrderTaken DEF SameTaken
<1> QED BY <1>1 DEF InOrderOnce, Taken

\* The tails in the pipes were there before, but for that of the message e sends.
NewTails(e, b) ==
  \A f \in End : \A c \in Conn : \A j \in Tails(c, f)' :
    \/ \E i \in Tails(c, f) : pipe'[c][f][j].msg = pipe[c][f][i].msg
    \/ b /\ f = Other(e) /\ pipe'[c][f][j].msg = mgr[e].buf

\* When nothing is delivered, it is enough that the tails in the pipes are old ones, or that
\* of the message that was sent.
LEMMA AheadKept ==
  ASSUME TypeOK, Ahead, SenderKeeps, SameTaken, NEW e \in End, NEW b \in BOOLEAN, NewTails(e, b),
         b => mgr[e].pc = "send" /\ \A m \in Nat : m = mgr[e].buf => Sent(e, m)'
  PROVE  Ahead'
<1> SUFFICES ASSUME NEW f \in End
    PROVE  /\ \A n \in DOMAIN Taken(f)' : Taken(f)'[n].form = "whole" =>
                /\ Sent(Other(f), Taken(f)[n].msg)'
                /\ \A c \in Conn : \A i \in Tails(c, f)' : Taken(f)'[n].msg < pipe'[c][f][i].msg
           /\ \A c \in Conn : \A i \in Tails(c, f)' : Sent(Other(f), pipe[c][f][i].msg)'
  BY DEF Ahead
<1>1. Other(f) \in End /\ (f = Other(e) => Other(f) = e) /\ mgr[e].buf \in Nat
  BY Ends, SenderType
<1>2. ASSUME NEW n \in DOMAIN Taken(f)', Taken(f)'[n].form = "whole"
      PROVE  /\ Sent(Other(f), Taken(f)[n].msg)'
             /\ \A c \in Conn : \A i \in Tails(c, f)' : Taken(f)'[n].msg < pipe'[c][f][i].msg
  <2> DEFINE m == Taken(f)[n].msg
  <2>1. Taken(f)' = Taken(f) BY DEF SameTaken
  <2>2. /\ m \in Nat /\ Sent(Other(f), m)
        /\ \A c \in Conn : \A i \in Tails(c, f) : m < pipe[c][f][i].msg
    BY <1>2, <2>1, TakenType DEF Ahead
  <2>3. m' = m BY <2>1
  <2> HIDE DEF m
  <2>4. \A k \in Nat : Sent(Other(f), k) => Sent(Other(f), k)' BY <1>1 DEF SenderKeeps
  <2>5. Sent(Other(f), m') <=> Sent(Other(f), m) BY <2>3
  <2>6. (Sent(Other(f), m))' BY <2>2, <2>3, <2>4 DEF Sent
  <2>7. ASSUME NEW c \in Conn, NEW i \in Tails(c, f)' PROVE m < pipe'[c][f][i].msg
    <3>1. CASE \E k \in Tails(c, f) : pipe'[c][f][i].msg = pipe[c][f][k].msg BY <2>2, <3>1
    <3>2. CASE b /\ f = Other(e) /\ pipe'[c][f][i].msg = mgr[e].buf
      BY <1>1, <2>2, <3>2 DEF Sent
    <3> QED BY <3>1, <3>2 DEF NewTails
  <2> QED BY <2>1, <2>6, <2>7 DEF m
<1>3. ASSUME NEW c \in Conn, NEW i \in Tails(c, f)'
      PROVE  Sent(Other(f), pipe[c][f][i].msg)'
  <2>1. CASE \E k \in Tails(c, f) : pipe'[c][f][i].msg = pipe[c][f][k].msg
    <3>1. PICK k \in Tails(c, f) : pipe'[c][f][i].msg = pipe[c][f][k].msg BY <2>1
    <3> DEFINE m == pipe[c][f][k].msg
    <3>2. m \in Nat /\ Sent(Other(f), m) BY TakenType DEF Ahead
    <3>3. pipe'[c][f][i].msg = m BY <3>1
    <3> HIDE DEF m
    <3>4. \A l \in Nat : Sent(Other(f), l) => Sent(Other(f), l)' BY <1>1 DEF SenderKeeps
    <3> QED BY <3>2, <3>3, <3>4 DEF Sent
  <2>2. CASE b /\ f = Other(e) /\ pipe'[c][f][i].msg = mgr[e].buf
    <3>1. \A m \in Nat : m = mgr[e].buf => Sent(e, m)' BY <2>2
    <3> QED BY <1>1, <2>2, <3>1 DEF Sent
  <2> QED BY <2>1, <2>2 DEF NewTails
<1> QED BY <1>2, <1>3

-----------------------------------------------------------------------------
\* What a sender adds to a pipe: a message, or the beginning of one.
Units(x, m) ==
  /\ x \in Seq(UnitType) /\ Len(x) >= 1 /\ InFrames(x)
  /\ \A i \in DOMAIN x : x[i].kind = "T" => i = Len(x) /\ x[i].msg = m

\* A message is whole only with its tail, its last unit.
LEMMA UnitsSent ==
  ASSUME NEW m \in Nat
  PROVE  /\ Units(OnWire(m), m) /\ OnWire(m)[Len(OnWire(m))].kind = "T"
         /\ \A x \in {<<Unit("h", m)>>, <<Unit("H", m)>>, <<Unit("H", m), Unit("D", m)>>} :
              Units(x, m) /\ \A i \in DOMAIN x : x[i].kind # "T"
<1>1. Units(OnWire(m), m) /\ OnWire(m)[Len(OnWire(m))].kind = "T"
  <2> DEFINE x == OnWire(m)
  <2>1. /\ x \in Seq(UnitType) /\ Len(x) = 3 /\ DOMAIN x = {1, 2, 3}
        /\ x[1] = Unit("H", m) /\ x[2] = Unit("D", m) /\ x[3] = Unit("T", m)
    BY UnitTypes
  <2> HIDE DEF x
  <2>2. InFrames(x) BY <2>1 DEF InFrames, Unit
  <2>3. \A i \in DOMAIN x : x[i].kind = "T" => i = Len(x) /\ x[i].msg = m
    BY <2>1 DEF Unit
  <2>4. Units(x, m) /\ x[Len(x)].kind = "T" BY <2>1, <2>2, <2>3 DEF Units, Unit
  <2> QED BY <2>4 DEF x
<1>2. ASSUME NEW k \in {"h", "H"}
      PROVE  Units(<<Unit(k, m)>>, m) /\ \A i \in DOMAIN <<Unit(k, m)>> : <<Unit(k, m)>>[i].kind # "T"
  <2> DEFINE x == <<Unit(k, m)>>
  <2>1. /\ x \in Seq(UnitType) /\ Len(x) = 1 /\ DOMAIN x = {1} /\ x[1] = Unit(k, m)
    BY UnitTypes
  <2> HIDE DEF x
  <2>2. InFrames(x) BY <2>1 DEF InFrames
  <2>3. \A i \in DOMAIN x : x[i].kind # "T" BY <2>1 DEF Unit
  <2>4. Units(x, m) BY <2>1, <2>2, <2>3 DEF Units
  <2> QED BY <2>3, <2>4 DEF x
<1>3. LET x == <<Unit("H", m), Unit("D", m)>> IN Units(x, m) /\ \A i \in DOMAIN x : x[i].kind # "T"
  <2> DEFINE x == <<Unit("H", m), Unit("D", m)>>
  <2>1. /\ x \in Seq(UnitType) /\ Len(x) = 2 /\ DOMAIN x = {1, 2}
        /\ x[1] = Unit("H", m) /\ x[2] = Unit("D", m)
    BY UnitTypes
  <2> HIDE DEF x
  <2>2. InFrames(x) BY <2>1 DEF InFrames, Unit
  <2>3. \A i \in DOMAIN x : x[i].kind # "T" BY <2>1 DEF Unit
  <2>4. Units(x, m) BY <2>1, <2>2, <2>3 DEF Units
  <2> QED BY <2>3, <2>4 DEF x
<1> QED BY <1>1, <1>2, <1>3

\* The connection e sends on is the last one that has anything for the other end.
LEMMA LastPipe ==
  ASSUME TypeOK, Places, NEW e \in End, mgr[e].pc = "send",
         half[sock[e]][e] \in {"open", "void"}, half[sock[e]][Other(e)] \notin Gone,
         NEW d \in Conn, pipe[d][Other(e)] # << >>
  PROVE  d <= sock[e]
<1>1. sock[e] \in Conn /\ \A n \in Conn : n \in Nat BY OnConn, Ends
<1>2. CASE e = "client"
  <2>1. half[d]["client"] # "none" /\ sock["client"] # 0
    BY <1>1, <1>2, Ends DEF Places, ConnPlace
  <2> QED BY <1>2, <2>1 DEF Places, ConnPlace
<1>3. CASE e = "server"
  <2>1. Other(e) = "client" BY <1>3 DEF Other
  <2>2. half[sock[e]]["client"] # "none"
    BY <1>1, <1>3, Ends DEF Places, ServerPlace
  <2>3. sock[e] = sock["client"] BY <1>1, <2>1, <2>2 DEF Places, ClientPlace, Gone
  <2>4. d = sock["client"] BY <2>1 DEF Places, ClientPlace
  <2> QED BY <1>1, <2>3, <2>4
<1> QED BY <1>2, <1>3, Ends

Grows(e, x) ==
  pipe' = [pipe EXCEPT ![sock[e]][Other(e)] = pipe[sock[e]][Other(e)] \o x]

\* A sender adds to a pipe that ends with a tail: its frames and the order of the tails are
\* kept.
LEMMA Grow ==
  ASSUME TypeOK, Places, Framed, SealedAfterCut, PipeOrder, Ahead,
         NEW e \in End, mgr[e].pc = "send",
         half[sock[e]][e] \in {"open", "void"}, half[sock[e]][Other(e)] \notin Gone,
         NEW x, Units(x, mgr[e].buf),
         Grows(e, x)
  PROVE  Framed' /\ PipeOrder' /\ NewTails(e, x[Len(x)].kind = "T")
<1> DEFINE c == sock[e]  o == Other(e)  m == mgr[e].buf  p == pipe[c][o]  q == p \o x
           b == x[Len(x)].kind = "T"
<1>1. c \in Conn /\ o \in End /\ Other(o) = e /\ m \in Nat
  BY OnConn, Ends, SenderType
<1>2. p \in Seq(UnitType) /\ x \in Seq(UnitType) /\ pipe \in Pipes BY <1>1, PipeType DEF Units
<1>3. /\ q \in Seq(UnitType) /\ Len(q) = Len(p) + Len(x)
      /\ Len(p) \in Nat /\ Len(x) \in Nat /\ Len(x) >= 1 /\ DOMAIN q = 1 .. Len(q)
      /\ \A i \in 1 .. Len(p) + Len(x) : q[i] = IF i <= Len(p) THEN p[i] ELSE x[i - Len(p)]
  BY <1>2, ConcatProperties DEF Units
<1> HIDE DEF q
<1>4. p = << >> \/ p[Len(p)].kind = "T"
  BY <1>1 DEF SealedAfterCut, CutShort, Sealed
<1>5. InFrames(q) BY <1>1, <1>2, <1>4, JoinInFrames DEF Framed, Units, q
<1>6. /\ pipe'[c][o] = q
      /\ \A d \in Conn, f \in End : d # c \/ f # o => pipe'[d][f] = pipe[d][f]
  <2> DEFINE g == [pipe EXCEPT ![c][o] = q]
  <2>1. pipe' = g BY DEF q, Grows
  <2>2. pipe \in [Conn -> [End -> Seq(UnitType)]] BY <1>2 DEF Pipes
  <2> HIDE DEF c, o, p
  <2>3. g[c][o] = q /\ \A d \in Conn, f \in End : d # c \/ f # o => g[d][f] = pipe[d][f]
    <3>1. q \in Seq(UnitType) BY <1>3
    <3> QED BY <1>1, <2>2, <3>1, Update2
  <2> HIDE DEF g
  <2> QED BY <2>1, <2>3
<1>7. Framed' BY <1>5, <1>6 DEF Framed
<1> DEFINE Old(d, f, j) == j \in Tails(d, f) /\ pipe'[d][f][j] = pipe[d][f][j]
           New(d, f, j) == d = c /\ f = o /\ j = Len(q) /\ pipe'[d][f][j].msg = m /\ b
<1>8. ASSUME NEW f \in End, NEW d \in Conn, NEW j \in Tails(d, f)'
      PROVE  Old(d, f, j) \/ New(d, f, j)
  <2>1. CASE d # c \/ f # o BY <1>6, <2>1 DEF Tails
  <2>2. CASE d = c /\ f = o
    <3>1. j \in 1 .. Len(q) /\ q[j].kind = "T" BY <1>3, <1>6, <2>2 DEF Tails
    <3>2. CASE j <= Len(p)
      <4>1. j \in DOMAIN p /\ q[j] = p[j] BY <1>2, <1>3, <3>1, <3>2
      <4> QED BY <1>6, <2>2, <3>1, <4>1 DEF Tails
    <3>3. CASE j > Len(p)
      <4> DEFINE i == j - Len(p)
      <4>0. j \in Int /\ j <= Len(p) + Len(x) /\ ~(j <= Len(p)) BY <1>3, <3>1, <3>3
      <4>1. i \in 1 .. Len(x) /\ q[j] = x[i]
        <5>1. q[j] = x[j - Len(p)] BY <1>3, <3>1, <4>0
        <5>2. i \in 1 .. Len(x)
          <6> HIDE DEF p
          <6> QED BY <1>3, <4>0
        <5> QED BY <5>1, <5>2
      <4>2. i \in DOMAIN x BY <1>2, <4>1
      <4> HIDE DEF i
      <4>3. i = Len(x) /\ x[i].msg = m
        <5>1. x[i].kind = "T" BY <3>1, <4>1
        <5> QED BY <4>2, <5>1 DEF Units
      <4>4. j = Len(q)
        <5> HIDE DEF p
        <5>1. i = Len(x) BY <4>3
        <5>2. j - Len(p) = Len(x) BY <5>1 DEF i
        <5>3. Len(q) = Len(p) + Len(x) /\ Len(p) \in Nat /\ Len(x) \in Nat /\ j \in Int
          BY <1>3, <4>0
        <5> QED BY <5>2, <5>3
      <4> QED BY <1>6, <2>2, <3>1, <4>1, <4>3, <4>4
    <3> QED BY <1>3, <3>1, <3>2, <3>3
  <2> QED BY <2>1, <2>2
<1>9. NewTails(e, b) BY <1>8 DEF NewTails
<1>10. ASSUME NEW d \in Conn, NEW j \in Tails(d, o) PROVE pipe[d][o][j].msg < m
  BY <1>1 DEF Ahead, Sent
<1>11. ASSUME NEW d \in Conn, Tails(d, o) # {} PROVE d <= c
  <2>1. pipe[d][o] # << >> BY <1>11 DEF Tails
  <2> QED BY <2>1, LastPipe
<1>12. PipeOrder'
  <2> SUFFICES ASSUME NEW f \in End, NEW d1 \in Conn, NEW d2 \in Conn,
                      NEW i \in Tails(d1, f)', NEW j \in Tails(d2, f)', Before(d1, i, d2, j)
               PROVE  pipe'[d1][f][i].msg < pipe'[d2][f][j].msg
    BY DEF PipeOrder, Before
  <2>0. d1 \in Nat /\ d2 \in Nat /\ c \in Nat /\ i \in Nat /\ j \in Nat /\ Len(q) \in Nat
    <3>1. i \in DOMAIN pipe'[d1][f] /\ j \in DOMAIN pipe'[d2][f] BY DEF Tails
    <3>2. DOMAIN pipe'[d1][f] \subseteq Nat /\ DOMAIN pipe'[d2][f] \subseteq Nat
      <4>1. \A d \in Conn : pipe'[d][f] = q \/ pipe'[d][f] = pipe[d][f] BY <1>6
      <4>2. \A d \in Conn : DOMAIN pipe[d][f] \subseteq Nat BY PipeType
      <4>3. DOMAIN q \subseteq Nat BY <1>3
      <4> QED BY <4>1, <4>2, <4>3
    <3>3. d1 \in Nat /\ d2 \in Nat /\ c \in Nat BY <1>1, Ends
    <3>4. i \in Nat /\ j \in Nat BY <3>1, <3>2
    <3> HIDE DEF c
    <3> QED BY <1>3, <3>3, <3>4
  <2>1. CASE Old(d1, f, i) /\ Old(d2, f, j)
    BY <2>1 DEF PipeOrder
  <2>2. CASE Old(d1, f, i) /\ New(d2, f, j)
    BY <1>10, <2>2
  <2>3. CASE New(d1, f, i) /\ Old(d2, f, j)
    <3>1. f = o /\ d1 = c /\ i = Len(q) /\ j \in Tails(d2, o) BY <2>3
    <3>2. d2 <= c BY <1>11, <3>1
    <3>3. d2 = c /\ Len(q) < j BY <2>0, <3>1, <3>2 DEF Before
    <3>4. j \in 1 .. Len(q) BY <1>3, <1>6, <3>1, <3>3 DEF Tails
    <3> QED BY <2>0, <3>3, <3>4
  <2>4. CASE New(d1, f, i) /\ New(d2, f, j)
    <3>1. d1 = c /\ d2 = c /\ i = Len(q) /\ j = Len(q) BY <2>4
    <3> HIDE DEF c, q, Old, New
    <3> QED BY <2>0, <3>1 DEF Before
  <2> QED BY <1>8, <2>1, <2>2, <2>3, <2>4
<1> QED BY <1>7, <1>9, <1>12

-----------------------------------------------------------------------------
\* What the receive thread takes is behind what is left, on any connection.
LEMMA FirstPipe ==
  ASSUME TypeOK, Places, NEW e \in End, sock[e] # 0, NEW d \in Conn, d # sock[e],
         pipe[d][e] # << >>
  PROVE  sock[e] < d
<1>1. CASE e = "client" BY <1>1 DEF Places, ClientPlace
<1>2. CASE e = "server"
  <2>1. PICK i \in DOMAIN backlog : d = backlog[i] BY <1>2 DEF Places, ServerPlace
  <2> QED BY <1>2, <2>1 DEF Places, ServerPlace
<1> QED BY <1>1, <1>2, Ends

\* A receive thread's step leaves a part of its pipe, and the others alone.
LEMMA ReceiverPipes ==
  ASSUME TypeOK, NEW e \in End, NEW c \in Conn, NEW k \in 0 .. Len(pipe[c][e]), Takes(e, c, k)
  PROVE  /\ pipe' \in Pipes /\ Shrinks
         /\ pipe'[c][e] \in Seq(UnitType) /\ Len(pipe'[c][e]) = Len(pipe[c][e]) - k
         /\ \A i \in 1 .. Len(pipe'[c][e]) : pipe'[c][e][i] = pipe[c][e][i + k]
         /\ \A d \in Conn, f \in End : d # c \/ f # e => pipe'[d][f] = pipe[d][f]
<1> DEFINE p == pipe[c][e]  q == SubSeq(p, k + 1, Len(p))  g == [pipe EXCEPT ![c][e] = q]
<1>1. p \in Seq(UnitType) /\ pipe \in [Conn -> [End -> Seq(UnitType)]] BY PipeType DEF Pipes
<1>2. /\ q \in Seq(UnitType) /\ Len(q) = Len(p) - k /\ Part(q, p)
      /\ \A i \in 1 .. Len(q) : q[i] = p[i + k]
  BY <1>1, CutFront
<1>3. pipe' = g BY DEF Takes
<1> HIDE DEF q
<1>4. /\ g \in [Conn -> [End -> Seq(UnitType)]] /\ g[c][e] = q
      /\ \A d \in Conn, f \in End : d # c \/ f # e => g[d][f] = pipe[d][f]
  BY <1>1, <1>2, Update2
<1> HIDE DEF g
<1>5. Shrinks
  <2> SUFFICES ASSUME NEW d \in Conn, NEW f \in End PROVE Part(pipe'[d][f], pipe[d][f])
    BY DEF Shrinks
  <2>1. CASE d = c /\ f = e BY <1>2, <1>3, <1>4, <2>1
  <2>2. CASE d # c \/ f # e
    <3>1. pipe[d][f] \in Seq(UnitType) /\ pipe'[d][f] = pipe[d][f] BY <1>3, <1>4, <2>2, PipeType
    <3> QED BY <3>1, PartSelf
  <2> QED BY <2>1, <2>2
<1> QED BY <1>2, <1>3, <1>4, <1>5 DEF Pipes

\* What it delivers, if anything, is one message more, which is whole only if its
\* tail was the first unit of the pipe.
LEMMA ReceiverTaken ==
  ASSUME TypeOK, Reading, NEW e \in End, NEW c \in Conn, c = sock[e],
         NEW k \in 0 .. Len(pipe[c][e]), Gives(e, c, k), UNCHANGED got
  PROVE  /\ \A f \in End \ {e} : Taken(f)' = Taken(f)
         /\ \/ Taken(e)' = Taken(e)
            \/ \E r \in Received :
                 /\ Taken(e)' = Append(Taken(e), r) /\ Genuine(e, c, k, r)
                 /\ r.form = "whole" => /\ k = 1 /\ 1 \in Tails(c, e)
                                        /\ r.msg = pipe[c][e][1].msg
<1>1. inq \in [End -> Seq(Received)] BY TypeParts DEF QueueType
<1>2. CASE inq' = inq BY <1>2 DEF Taken
<1>3. CASE \E r \in Received : /\ inq' = [inq EXCEPT ![e] = Push(inq[e], InLen, r)]
                               /\ Genuine(e, c, k, r)
  <2>1. PICK r \in Received : /\ inq' = [inq EXCEPT ![e] = Push(inq[e], InLen, r)]
                              /\ Genuine(e, c, k, r)
    BY <1>3
  <2>2. r \in Received OBVIOUS
  <2>3. inq' = [inq EXCEPT ![e] = Push(inq[e], InLen, r)] BY <2>1
  <2>4. inq'[e] = inq[e] \/ inq'[e] = Append(inq[e], r) BY <1>1, <2>3 DEF Push
  <2>5. \A f \in End \ {e} : inq'[f] = inq[f] BY <1>1, <2>3
  <2>6. \A f \in End \ {e} : Taken(f)' = Taken(f) BY <2>5 DEF Taken
  <2>7. Taken(e)' = Taken(e) \/ Taken(e)' = Append(Taken(e), r)
    <3> DEFINE g == got[e]  q == inq[e]
    <3>1. g \in Seq(Received) /\ q \in Seq(Received) BY TakenType
    <3> HIDE DEF g, q
    <3>2. g \o Append(q, r) = Append(g \o q, r)
      <4>1. g \o q \in Seq(Received) /\ <<r>> \in Seq(Received) BY <2>2, <3>1, ConcatProperties
      <4>2. Append(q, r) = q \o <<r>> /\ Append(g \o q, r) = (g \o q) \o <<r>>
        BY <2>2, <3>1, <4>1, AppendIsConcat, Zenon
      <4> QED BY <3>1, <4>1, <4>2, ConcatAssociative
    <3> QED BY <2>4, <3>2 DEF Taken, g, q
  <2>8. r.form = "whole" => k = 1 /\ 1 \in Tails(c, e) /\ r.msg = pipe[c][e][1].msg
    <3> SUFFICES ASSUME r.form = "whole"
                 PROVE  k = 1 /\ 1 \in Tails(c, e) /\ r.msg = pipe[c][e][1].msg
      OBVIOUS
    <3>0. /\ rcv[e].pc = "tail" /\ r.msg = rcv[e].msg
          /\ k = 1 /\ Len(pipe[c][e]) >= 1 /\ pipe[c][e][1].kind = "T"
      BY <2>1 DEF Genuine
    <3>1. pipe[c][e] \in Seq(UnitType) BY PipeType
    <3>2. 1 \in DOMAIN pipe[c][e] /\ pipe[c][e] # << >> BY <3>0, <3>1
    <3>3. pipe[c][e][1] = Unit("T", rcv[e].msg) BY <3>0, <3>2 DEF Reading
    <3> QED BY <3>0, <3>2, <3>3 DEF Tails, Unit
  <2> QED BY <2>1, <2>6, <2>7, <2>8
<1> QED BY <1>2, <1>3 DEF Gives

\* What a receive thread delivers is in order, and leaves the rest ahead of it.
LEMMA ReceiverOrder ==
  ASSUME TypeOK, Places, Reading, PipeOrder, Ahead, InOrderOnce, SenderOrder,
         NEW e \in End, Receiver(e)
  PROVE  Ahead' /\ InOrderOnce'
<1> DEFINE c == sock[e]
<1>1. c \in Conn /\ rcvUnchanged BY ReceiverStep
<1>2. PICK k \in 0 .. Len(pipe[c][e]) : Takes(e, c, k) /\ Gives(e, c, k) BY ReceiverStep
<1>3. SenderKeeps
  <2>1. UNCHANGED <<handed, outq, retry, mgr>> BY <1>1 DEF rcvUnchanged
  <2> QED BY <2>1, SenderIdle
<1>4. /\ pipe' \in Pipes /\ Shrinks
      /\ pipe'[c][e] \in Seq(UnitType) /\ Len(pipe'[c][e]) = Len(pipe[c][e]) - k
      /\ \A i \in 1 .. Len(pipe'[c][e]) : pipe'[c][e][i] = pipe[c][e][i + k]
      /\ \A d \in Conn, f \in End : d # c \/ f # e => pipe'[d][f] = pipe[d][f]
  BY <1>1, <1>2, ReceiverPipes
<1>5. OldTails
  <2>1. pipe \in Pipes BY <1>1, PipeType
  <2> QED BY <1>4, <2>1, Shrink
<1>6. NewTails(e, FALSE) BY <1>5 DEF NewTails, OldTails
<1>7. UNCHANGED got BY <1>1 DEF rcvUnchanged
<1>8. CASE SameTaken
  BY <1>3, <1>6, <1>8, AheadKept, InOrderKept
<1>9. CASE \E r \in Received :
             /\ Taken(e)' = Append(Taken(e), r) /\ \A f \in End \ {e} : Taken(f)' = Taken(f)
             /\ r.form = "whole" => k = 1 /\ 1 \in Tails(c, e) /\ r.msg = pipe[c][e][1].msg
  <2>1. PICK r \in Received :
             /\ Taken(e)' = Append(Taken(e), r) /\ \A f \in End \ {e} : Taken(f)' = Taken(f)
             /\ r.form = "whole" => k = 1 /\ 1 \in Tails(c, e) /\ r.msg = pipe[c][e][1].msg
    BY <1>9
  <2> DEFINE s == Taken(e)  n == Len(s)
  <2>2. s \in Seq(Received) BY TakenType
  <2>3. /\ n \in Nat /\ DOMAIN Taken(e)' = 1 .. n + 1 /\ DOMAIN s = 1 .. n
        /\ Taken(e)'[n + 1] = r /\ \A i \in 1 .. n : Taken(e)'[i] = s[i]
    <3>1. /\ n \in Nat /\ DOMAIN s = 1 .. n
      BY <2>2
    <3>2. /\ Append(s, r) \in Seq(Received) /\ Len(Append(s, r)) = n + 1
          /\ Append(s, r)[n + 1] = r /\ \A i \in 1 .. n : Append(s, r)[i] = s[i]
      BY <2>2, AppendProperties
    <3>3. DOMAIN Append(s, r) = 1 .. n + 1 BY <3>2, LenProperties
    <3> QED BY <2>1, <3>1, <3>2, <3>3, Zenon
  <2>4. r.form = "whole" =>
          /\ r.msg \in Nat /\ Sent(Other(e), r.msg)
          /\ \A i \in DOMAIN s : s[i].form = "whole" => s[i].msg < r.msg
          /\ \A d \in Conn : \A i \in Tails(d, e)' : r.msg < pipe'[d][e][i].msg
    <3> SUFFICES ASSUME r.form = "whole"
                 PROVE  /\ r.msg \in Nat /\ Sent(Other(e), r.msg)
                        /\ \A i \in DOMAIN s : s[i].form = "whole" => s[i].msg < r.msg
                        /\ \A d \in Conn : \A i \in Tails(d, e)' : r.msg < pipe'[d][e][i].msg
      OBVIOUS
    <3>1. k = 1 /\ 1 \in Tails(c, e) /\ r.msg = pipe[c][e][1].msg BY <2>1
    <3>2. r.msg \in Nat /\ Sent(Other(e), r.msg) BY <1>1, <3>1, TakenType DEF Ahead
    <3>3. \A i \in DOMAIN s : s[i].form = "whole" => s[i].msg < r.msg
      BY <1>1, <3>1 DEF Ahead
    <3>4. ASSUME NEW d \in Conn, NEW i \in Tails(d, e)' PROVE r.msg < pipe'[d][e][i].msg
      <4>1. CASE d = c
        <5>1. i \in 1 .. Len(pipe'[c][e]) /\ pipe'[c][e][i].kind = "T"
          BY <1>4, <4>1 DEF Tails
        <5>2. pipe'[c][e][i] = pipe[c][e][i + 1] /\ i + 1 \in 1 .. Len(pipe[c][e]) /\ 1 < i + 1
          <6>1. Len(pipe[c][e]) \in Nat BY <1>1, PipeType
          <6> QED BY <1>4, <3>1, <5>1, <6>1
        <5>3. i + 1 \in Tails(c, e) BY <1>1, <5>1, <5>2, PipeType DEF Tails
        <5>4. Before(c, 1, c, i + 1) BY <5>2 DEF Before
        <5> QED BY <1>1, <3>1, <4>1, <5>2, <5>3, <5>4 DEF PipeOrder
      <4>2. CASE d # c
        <5>1. i \in Tails(d, e) /\ pipe'[d][e] = pipe[d][e] BY <1>4, <4>2 DEF Tails
        <5>2. pipe[d][e] # << >> BY <5>1 DEF Tails
        <5>3. c # 0 BY <1>1, Ends
        <5>4. c < d BY <4>2, <5>2, <5>3, FirstPipe
        <5>5. Before(c, 1, d, i) BY <5>4 DEF Before
        <5> QED BY <1>1, <3>1, <5>1, <5>5 DEF PipeOrder
      <4> QED BY <4>1, <4>2
    <3> QED BY <3>2, <3>3, <3>4
  <2> HIDE DEF n
  <2>5. InOrderOnce'
    <3> SUFFICES ASSUME NEW f \in End, NEW i \in DOMAIN Taken(f)', NEW j \in DOMAIN Taken(f)',
                        i < j, Taken(f)'[i].form = "whole", Taken(f)'[j].form = "whole"
                 PROVE  Taken(f)'[i].msg < Taken(f)'[j].msg
      BY DEF InOrderOnce, Taken
    <3>1. CASE f # e
      <4>1. Taken(f)' = Taken(f) BY <2>1, <3>1
      <4> QED BY <4>1, InOrderTaken
    <3>2. CASE f = e
      <4>1. i \in 1 .. n /\ Taken(e)'[i] = s[i] BY <2>3, <3>2
      <4>2. CASE j \in 1 .. n
        <5>1. Taken(e)'[j] = s[j] BY <2>3, <4>2
        <5> QED BY <2>3, <3>2, <4>1, <4>2, <5>1, InOrderTaken
      <4>3. CASE j = n + 1
        <5>1. Taken(e)'[j] = r /\ r.form = "whole" BY <2>3, <3>2, <4>3
        <5> QED BY <2>3, <2>4, <3>2, <4>1, <5>1
      <4> QED BY <2>3, <3>2, <4>2, <4>3
    <3> QED BY <3>1, <3>2
  <2>6. Ahead'
    <3> SUFFICES ASSUME NEW f \in End
        PROVE  /\ \A i \in DOMAIN Taken(f)' : Taken(f)'[i].form = "whole" =>
                    /\ Sent(Other(f), Taken(f)[i].msg)'
                    /\ \A d \in Conn : \A j \in Tails(d, f)' : Taken(f)'[i].msg < pipe'[d][f][j].msg
               /\ \A d \in Conn : \A j \in Tails(d, f)' : Sent(Other(f), pipe[d][f][j].msg)'
      BY DEF Ahead
    <3>1. \A m \in Nat : Sent(Other(f), m) => Sent(Other(f), m)' BY <1>3, Ends DEF SenderKeeps
    <3>2. ASSUME NEW d \in Conn, NEW j \in Tails(d, f)' PROVE Sent(Other(f), pipe[d][f][j].msg)'
      <4>1. PICK l \in Tails(d, f) : pipe'[d][f][j].msg = pipe[d][f][l].msg BY <1>5 DEF OldTails
      <4> DEFINE m == pipe[d][f][l].msg
      <4>2. m \in Nat /\ Sent(Other(f), m) BY TakenType DEF Ahead
      <4>3. pipe'[d][f][j].msg = m BY <4>1
      <4> HIDE DEF m
      <4> QED BY <3>1, <4>2, <4>3 DEF Sent
    <3>3. ASSUME NEW i \in DOMAIN Taken(f)', Taken(f)'[i].form = "whole",
                 i \in DOMAIN Taken(f), Taken(f)'[i] = Taken(f)[i]
          PROVE  /\ Sent(Other(f), Taken(f)[i].msg)'
                 /\ \A d \in Conn : \A j \in Tails(d, f)' : Taken(f)'[i].msg < pipe'[d][f][j].msg
      <4> DEFINE m == Taken(f)[i].msg
      <4>1. m \in Nat /\ Sent(Other(f), m)
            /\ \A d \in Conn : \A j \in Tails(d, f) : m < pipe[d][f][j].msg
        BY <3>3, TakenType DEF Ahead
      <4>2. Taken(f)'[i].msg = m BY <3>3
      <4> HIDE DEF m
      <4>3. Sent(Other(f), Taken(f)[i].msg)' BY <3>1, <4>1, <4>2 DEF Sent
      <4>4. ASSUME NEW d \in Conn, NEW j \in Tails(d, f)' PROVE m < pipe'[d][f][j].msg
        BY <1>5, <4>1 DEF OldTails
      <4> QED BY <4>2, <4>3, <4>4
    <3>4. CASE f # e
      <4>1. Taken(f)' = Taken(f) BY <2>1, <3>4
      <4> QED BY <3>2, <3>3, <4>1
    <3>5. CASE f = e
      <4>1. ASSUME NEW i \in DOMAIN Taken(e)', Taken(e)'[i].form = "whole"
            PROVE  /\ Sent(Other(e), Taken(e)[i].msg)'
                   /\ \A d \in Conn : \A j \in Tails(d, e)' : Taken(e)'[i].msg < pipe'[d][e][j].msg
        <5>1. CASE i \in 1 .. n
          <6>1. i \in DOMAIN Taken(e) /\ Taken(e)'[i] = Taken(e)[i] BY <2>3, <5>1
          <6> QED BY <3>3, <3>5, <4>1, <6>1
        <5>2. CASE i = n + 1
          <6>1. Taken(e)'[i] = r /\ r.form = "whole" BY <2>3, <4>1, <5>2
          <6>2. Sent(Other(e), Taken(e)[i].msg)'
            <7> DEFINE m == r.msg
            <7>1. m \in Nat /\ Sent(Other(e), m) /\ Taken(e)'[i].msg = m BY <2>4, <6>1
            <7> HIDE DEF m
            <7> QED BY <3>1, <3>5, <7>1 DEF Sent
          <6> QED BY <2>4, <6>1, <6>2
        <5> QED BY <2>3, <5>1, <5>2
      <4> QED BY <3>2, <3>5, <4>1
    <3> QED BY <3>4, <3>5
  <2> QED BY <2>5, <2>6
<1> QED BY <1>1, <1>2, <1>7, <1>8, <1>9, ReceiverTaken DEF SameTaken

-----------------------------------------------------------------------------
\* A connection no more is sent on stays so, once it is made.
LEMMA SealedKept ==
  ASSUME NEW c \in Conn, NEW e \in End, Sealed(c, e),
         \A f \in End : \/ half'[c][f] = half[c][f]
                        \/ half[c][f] # "none" /\ half'[c][f] \in Gone
                        \/ half[c][f] = "open" /\ half'[c][f] = "void"
  PROVE  Sealed(c, e)'
<1>1. Other(e) \in End BY Ends
<1> QED BY <1>1 DEF Sealed, Gone

\* Where no one has begun to read a message, it is cut short only if it was.
LEMMA CutKept ==
  ASSUME NEW c \in Conn, NEW e \in End, pipe'[c][e] = pipe[c][e], CutShort(c, e)',
         \/ sock'[e] = sock[e] /\ rcv'[e] = rcv[e]
         \/ rcv'[e].pc \notin {"data", "tail"}
  PROVE  CutShort(c, e)
BY DEF CutShort

\* The parts of the invariant that a step leaves alone.
LEMMA SealedFrame ==
  ASSUME SealedAfterCut, UNCHANGED <<half, pipe, sock, rcv>>
  PROVE  SealedAfterCut'
BY DEF SealedAfterCut, Sealed, CutShort

LEMMA ReadingFrame ==
  ASSUME Reading, UNCHANGED pipe,
         \A e \in End : \/ sock'[e] = sock[e] /\ rcv'[e] = rcv[e]
                        \/ rcv'[e].pc \notin {"data", "tail"}
  PROVE  Reading'
BY DEF Reading

LEMMA PlacesFrame ==
  ASSUME Places, UNCHANGED <<half, pipe, sock, rcv, backlog>>,
         \A e \in End : mgr'[e].pc = "open" <=> mgr[e].pc = "open"
  PROVE  Places'
<1>1. ClientPlace' BY Ends DEF Places, ClientPlace
<1>2. ServerPlace' BY Ends DEF Places, ServerPlace
<1>3. ConnPlace' BY DEF Places, ConnPlace
<1> QED BY <1>1, <1>2, <1>3 DEF Places

LEMMA PipesFrame ==
  ASSUME UNCHANGED pipe
  PROVE  (Framed => Framed') /\ (PipeOrder => PipeOrder') /\ \A e \in End : NewTails(e, FALSE)
<1>1. Framed => Framed' BY DEF Framed
<1>2. PipeOrder => PipeOrder' BY DEF PipeOrder, Tails
<1>3. \A e \in End : NewTails(e, FALSE) BY DEF NewTails, Tails
<1> QED BY <1>1, <1>2, <1>3

\* A step that leaves the wires and the receivers alone.
LEMMA SenderOnly ==
  ASSUME IInv, TypeOK', UNCHANGED <<half, pipe, sock, rcv, backlog, got, inq>>,
         \A e \in End : mgr'[e].pc = "open" <=> mgr[e].pc = "open",
         SenderOrder', SenderKeeps
  PROVE  IInv'
<1>1. Places' BY PlacesFrame DEF IInv
<1>2. SealedAfterCut' BY SealedFrame DEF IInv
<1>3. Reading' BY ReadingFrame DEF IInv
<1>4. Framed' /\ PipeOrder' /\ NewTails("client", FALSE) BY PipesFrame, Ends DEF IInv
<1>5. SameTaken BY DEF SameTaken, Taken
<1>6. Ahead' BY <1>4, <1>5, AheadKept, Ends DEF IInv
<1>7. InOrderOnce' BY <1>5, InOrderKept DEF IInv
<1> QED BY <1>1, <1>2, <1>3, <1>4, <1>6, <1>7 DEF IInv

\* The steps of the tunnel's threads, and those of the manager that use no socket.
LEMMA SendMessageInv ==
  ASSUME IInv, NEW e \in End, SendMessage(e)
  PROVE  IInv'
<1>1. TypeOK' BY TypeSendMessage DEF IInv
<1>2. SenderOrder' /\ SenderKeeps BY SenderHanded DEF IInv
<1>3. UNCHANGED <<half, pipe, sock, rcv, backlog, got, inq, mgr>> BY DEF SendMessage, wire
<1> QED BY <1>1, <1>2, <1>3, SenderOnly

LEMMA LoopInv ==
  ASSUME IInv, NEW e \in End, Loop(e)
  PROVE  IInv'
<1>1. TypeOK' BY TypeLoop DEF IInv
<1>2. UNCHANGED <<half, pipe, sock, rcv, backlog, got, inq, handed, outq, retry>>
  BY DEF Loop, mgrUnchanged
<1>3. mgr[e].pc = "loop" /\ mgr'[e].pc \in {"take", "join"} /\ \A d \in End \ {e} : mgr'[d] = mgr[d]
  BY SenderType DEF Loop, IInv, MgrThread
<1>4. SenderOrder' /\ SenderKeeps BY <1>2, <1>3, SenderIdle DEF IInv
<1> QED BY <1>1, <1>2, <1>3, <1>4, SenderOnly

LEMMA TakeInv ==
  ASSUME IInv, NEW e \in End, Take(e)
  PROVE  IInv'
<1>1. TypeOK' BY TypeTake DEF IInv
<1>2. SenderOrder' /\ SenderKeeps BY SenderTakes DEF IInv
<1>3. UNCHANGED <<half, pipe, sock, rcv, backlog, got, inq>> BY DEF Take, mgrUnchanged
<1>4. mgr[e].pc = "take" /\ mgr'[e].pc # "open" /\ \A d \in End \ {e} : mgr'[d] = mgr[d]
  BY SenderType DEF Take, IInv, MgrThread
<1> QED BY <1>1, <1>2, <1>3, <1>4, SenderOnly

LEMMA RecvMessageInv ==
  ASSUME IInv, NEW e \in End, RecvMessage(e)
  PROVE  IInv'
<1>1. /\ TypeOK' /\ got[e]' \o inq[e]' = got[e] \o inq[e]
      /\ \A d \in End \ {e} : got[d]' = got[d] /\ inq[d]' = inq[d]
  BY TypeRecvMessage DEF IInv
<1>2. UNCHANGED <<half, pipe, sock, rcv, backlog, handed, outq, retry, mgr>>
  BY DEF RecvMessage, wire
<1>3. SameTaken
  <2>1. Taken(e)' = Taken(e) BY <1>1 DEF Taken
  <2>2. \A d \in End \ {e} : Taken(d)' = Taken(d) BY <1>1 DEF Taken
  <2> QED BY <2>1, <2>2 DEF SameTaken
<1>4. SenderOrder' /\ SenderKeeps BY <1>2, SenderIdle DEF IInv
<1>5. Places' BY <1>2, PlacesFrame DEF IInv
<1>6. SealedAfterCut' BY <1>2, SealedFrame DEF IInv
<1>7. Reading' BY <1>2, ReadingFrame DEF IInv
<1>8. Framed' /\ PipeOrder' /\ NewTails(e, FALSE) BY <1>2, PipesFrame DEF IInv
<1>9. Ahead' BY <1>3, <1>4, <1>8, AheadKept DEF IInv
<1>10. InOrderOnce' BY <1>3, InOrderKept DEF IInv
<1> QED BY <1>1, <1>4, <1>5, <1>6, <1>7, <1>8, <1>9, <1>10 DEF IInv

\* A connection is made on a number that was not used, and resets the server's side
\* of the one before.
LEMMA ConnectStep ==
  ASSUME TypeOK, Places, Connect
  PROVE  \E c \in Conn :
           /\ half[c]["client"] = "none" /\ Connected("client", c) /\ backlog' = Append(backlog, c)
           /\ sock["client"] = 0
           /\ \A e \in End : half[c][e] = "none" /\ half'[c][e] = "open" /\ pipe[c][e] = << >>
           /\ \A d \in Conn \ {c} : half'[d]["client"] = half[d]["client"]
           /\ \A d \in Conn \ {c} : \/ half'[d]["server"] = half[d]["server"]
                                    \/ half[d]["server"] \in {"open", "void"} /\ half'[d]["server"] = "reset"
           /\ \A d \in Conn : half[d]["client"] # "none" <=> d < c
<1>1. PICK c \in Conn :
        /\ mgr["client"].pc = "open"
        /\ half[c]["client"] = "none" /\ \A d \in 1 .. c - 1 : half[d]["client"] # "none"
        /\ half' = [d \in Conn |->
                CASE d = c -> [e \in End |-> "open"]
                  [] d # c /\ half[d]["server"] \in {"open", "void"} ->
                       [half[d] EXCEPT !["server"] = "reset"]
                  [] OTHER -> half[d]]
        /\ backlog' = Append(backlog, c)
        /\ Connected("client", c)
  BY DEF Connect
<1>2. half \in [Conn -> [End -> Half]] BY TypeParts DEF WireType
<1>3. sock["client"] = 0 BY <1>1 DEF Places, ClientPlace
<1>4. \A e \in End : half[c][e] = "none" /\ half'[c][e] = "open" /\ pipe[c][e] = << >>
  BY <1>1 DEF Places, ConnPlace
<1>5. ASSUME NEW d \in Conn \ {c}
      PROVE  /\ half'[d]["client"] = half[d]["client"]
             /\ \/ half'[d]["server"] = half[d]["server"]
                \/ half[d]["server"] \in {"open", "void"} /\ half'[d]["server"] = "reset"
  <2>1. CASE half[d]["server"] \in {"open", "void"}
    <3>1. half'[d] = [half[d] EXCEPT !["server"] = "reset"] BY <1>1, <2>1
    <3> QED BY <1>2, <2>1, <3>1, Ends
  <2>2. CASE half[d]["server"] \notin {"open", "void"}
    <3>1. half'[d] = half[d] BY <1>1, <2>2
    <3> QED BY <3>1
  <2> QED BY <2>1, <2>2
<1>6. ASSUME NEW d \in Conn PROVE half[d]["client"] # "none" <=> d < c
  <2>0. c \in Nat /\ d \in Nat /\ d # 0 BY Ends
  <2>1. CASE d < c
    <3>1. d \in 1 .. c - 1 BY <2>0, <2>1
    <3> QED BY <1>1, <2>1, <3>1
  <2>2. CASE d = c BY <1>1, <2>0, <2>2
  <2>3. CASE c < d BY <1>1, <2>0, <2>3 DEF Places, ConnPlace
  <2> QED BY <2>0, <2>1, <2>2, <2>3
<1> QED BY <1>1, <1>3, <1>4, <1>5, <1>6

\* An end that has just connected reads a header, and has sent nothing.
LEMMA ConnectedStep ==
  ASSUME IInv, TypeOK', NEW e \in End, NEW c \in Conn, Connected(e, c)
  PROVE  /\ sock'[e] = c /\ rcv'[e].pc = "header" /\ mgr'[e].pc = "loop"
         /\ \A d \in End \ {e} : sock'[d] = sock[d] /\ rcv'[d] = rcv[d] /\ mgr'[d] = mgr[d]
         /\ UNCHANGED pipe
         /\ Reading' /\ Framed' /\ PipeOrder' /\ SenderOrder' /\ Ahead' /\ InOrderOnce'
<1>1. QueueType /\ ThreadType BY TypeParts DEF IInv
<1>2. /\ sock'[e] = c /\ rcv'[e].pc = "header" /\ mgr'[e].pc = "loop"
      /\ \A d \in End \ {e} : sock'[d] = sock[d] /\ rcv'[d] = rcv[d] /\ mgr'[d] = mgr[d]
  BY <1>1 DEF Connected, ThreadType, RcvThread, MgrThread
<1>3. UNCHANGED <<handed, outq, inq, retry, got, pipe>> BY DEF Connected
<1>4. Reading' BY <1>2, <1>3, ReadingFrame DEF IInv
<1>5. Framed' /\ PipeOrder' /\ NewTails(e, FALSE) BY <1>3, PipesFrame DEF IInv
<1>6. SenderOrder' /\ SenderKeeps BY <1>2, <1>3, SenderIdle DEF IInv
<1>7. SameTaken BY <1>3 DEF SameTaken, Taken
<1>8. Ahead' BY <1>5, <1>6, <1>7, AheadKept DEF IInv
<1>9. InOrderOnce' BY <1>7, InOrderKept DEF IInv
<1> QED BY <1>2, <1>3, <1>4, <1>5, <1>6, <1>8, <1>9

\* The client is on the connection made last, and the backlog is in order.
LEMMA ConnectInv ==
  ASSUME IInv, Connect
  PROVE  IInv'
<1>1. PICK c \in Conn :
           /\ half[c]["client"] = "none" /\ Connected("client", c) /\ backlog' = Append(backlog, c)
           /\ sock["client"] = 0
           /\ \A e \in End : half[c][e] = "none" /\ half'[c][e] = "open" /\ pipe[c][e] = << >>
           /\ \A d \in Conn \ {c} : half'[d]["client"] = half[d]["client"]
           /\ \A d \in Conn \ {c} : \/ half'[d]["server"] = half[d]["server"]
                                    \/ half[d]["server"] \in {"open", "void"} /\ half'[d]["server"] = "reset"
           /\ \A d \in Conn : half[d]["client"] # "none" <=> d < c
  BY ConnectStep DEF IInv
<1>2. TypeOK' BY TypeConnect DEF IInv
<1>3. /\ sock'["client"] = c /\ rcv'["client"].pc = "header" /\ mgr'["client"].pc = "loop"
      /\ sock'["server"] = sock["server"] /\ rcv'["server"] = rcv["server"]
      /\ mgr'["server"] = mgr["server"] /\ pipe' = pipe
      /\ Reading' /\ Framed' /\ PipeOrder' /\ SenderOrder' /\ Ahead' /\ InOrderOnce'
  <2>1. "client" \in End /\ "server" \in End \ {"client"} BY Ends
  <2> QED BY <1>1, <1>2, <2>1, ConnectedStep
<1>4. c # 0 /\ c \in Nat /\ \A d \in Conn : d \in Nat /\ d # 0 BY Ends
<1>5. ClientPlace'
  <2>1. ASSUME NEW d \in Conn
        PROVE  /\ half'[d]["client"] \notin {"none", "closed"} <=> d = c
               /\ pipe'[d]["client"] = << >>
    <3>1. CASE d = c BY <1>1, <1>3, <3>1, Ends
    <3>2. CASE d # c
      <4>1. half'[d]["client"] = half[d]["client"] /\ d # sock["client"] BY <1>1, <1>4, <3>2
      <4>2. half[d]["client"] \in {"none", "closed"} /\ pipe[d]["client"] = << >>
        BY <4>1 DEF IInv, Places, ClientPlace
      <4> QED BY <1>3, <3>2, <4>1, <4>2
    <3> QED BY <3>1, <3>2
  <2> QED BY <1>3, <1>4, <2>1 DEF ClientPlace
<1>6. backlog \in Seq(Conn) BY TypeParts DEF IInv, WireType
<1>7. ServerPlace'
  <2>1. /\ DOMAIN backlog' = 1 .. Len(backlog) + 1 /\ DOMAIN backlog = 1 .. Len(backlog)
        /\ Len(backlog) \in Nat
        /\ backlog'[Len(backlog) + 1] = c /\ \A i \in DOMAIN backlog : backlog'[i] = backlog[i]
    BY <1>1, <1>6
  <2>2. \A d \in Conn : half[d]["client"] # "none" => d < c /\ half'[d]["client"] # "none"
    <3>1. \A d \in Conn : half[d]["client"] # "none" => d # c BY <1>1
    <3> QED BY <1>1, <3>1
  <2>3. half'[c]["client"] # "none" BY <1>1, Ends
  <2>4. \A i \in DOMAIN backlog : /\ backlog[i] \in Conn /\ half[backlog[i]]["client"] # "none"
                                  /\ sock["server"] < backlog[i] /\ backlog[i] < c
    BY <1>6, <2>2 DEF IInv, Places, ServerPlace
  <2>5. sock["server"] < c
    <3>1. sock["server"] \in {0} \cup Conn BY TypeParts, Ends DEF IInv, ThreadType
    <3>2. sock["server"] # 0 => half[sock["server"]]["client"] # "none"
      BY DEF IInv, Places, ServerPlace
    <3>3. CASE sock["server"] = 0 BY <1>4, <3>3
    <3>4. CASE sock["server"] \in Conn
      <4>1. sock["server"] # 0 BY <1>4, <3>4
      <4> QED BY <2>2, <3>2, <3>4, <4>1
    <3> QED BY <3>1, <3>3, <3>4
  <2>6. \A i \in DOMAIN backlog' : /\ half'[backlog'[i]]["client"] # "none"
                                   /\ sock["server"] < backlog'[i]
                                   /\ \A j \in DOMAIN backlog' : i < j => backlog'[i] < backlog'[j]
    <3> SUFFICES ASSUME NEW i \in DOMAIN backlog'
                 PROVE  /\ half'[backlog'[i]]["client"] # "none"
                        /\ sock["server"] < backlog'[i]
                        /\ \A j \in DOMAIN backlog' : i < j => backlog'[i] < backlog'[j]
      OBVIOUS
    <3>1. CASE i \in DOMAIN backlog
      <4>1. \A j \in DOMAIN backlog' : i < j => backlog'[i] < backlog'[j]
        <5> SUFFICES ASSUME NEW j \in DOMAIN backlog', i < j PROVE backlog'[i] < backlog'[j]
          OBVIOUS
        <5>1. CASE j \in DOMAIN backlog BY <2>1, <3>1, <5>1 DEF IInv, Places, ServerPlace
        <5>2. CASE j = Len(backlog) + 1 BY <2>1, <2>4, <3>1, <5>2
        <5> QED BY <2>1, <5>1, <5>2
      <4> QED BY <2>1, <2>2, <2>4, <3>1, <4>1
    <3>2. CASE i = Len(backlog) + 1
      <4>1. \A j \in DOMAIN backlog' : ~(i < j) BY <2>1, <3>2
      <4> QED BY <2>1, <2>3, <2>5, <3>2, <4>1
    <3> QED BY <2>1, <3>1, <3>2
  <2>7. ASSUME NEW d \in Conn, pipe[d]["server"] # << >> \/ half'[d]["server"] \notin {"none", "closed"}
        PROVE  d = sock["server"] \/ \E i \in DOMAIN backlog' : d = backlog'[i]
    <3>1. \A i \in DOMAIN backlog : i \in DOMAIN backlog' /\ backlog'[i] = backlog[i] BY <2>1
    <3>2. CASE d = c
      <4>1. Len(backlog) + 1 \in DOMAIN backlog' BY <2>1
      <4> QED BY <2>1, <3>2, <4>1
    <3>3. CASE d # c
      <4>1. pipe[d]["server"] # << >> \/ half[d]["server"] \notin {"none", "closed"}
        BY <1>1, <2>7, <3>3
      <4>2. d = sock["server"] \/ \E i \in DOMAIN backlog : d = backlog[i]
        BY <4>1 DEF IInv, Places, ServerPlace
      <4> QED BY <3>1, <4>2
    <3> QED BY <3>2, <3>3
  <2>8. sock["server"] # 0 => half'[sock["server"]]["client"] # "none"
    <3>1. sock["server"] \in {0} \cup Conn BY TypeParts, Ends DEF IInv, ThreadType
    <3> QED BY <2>2, <3>1 DEF IInv, Places, ServerPlace
  <2>9. mgr'["server"].pc = "open" <=> sock'["server"] = 0 BY <1>3 DEF IInv, Places, ServerPlace
  <2>10. rcv'["server"].pc # "none" => sock'["server"] # 0 BY <1>3 DEF IInv, Places, ServerPlace
  <2> QED BY <1>3, <2>6, <2>7, <2>8, <2>9, <2>10 DEF ServerPlace
<1>8. ConnPlace'
  <2> SUFFICES ASSUME NEW d \in Conn
        PROVE  /\ half'[d]["client"] = "none" => \A e \in End : half'[d][e] = "none" /\ pipe[d][e] = << >>
               /\ half'[d]["client"] # "none" =>
                    /\ half'[d]["server"] # "none"
                    /\ \A b \in Conn : b < d => half'[b]["client"] # "none"
                    /\ d <= c
    BY <1>3 DEF ConnPlace
  <2>1. CASE d = c
    <3>1. half'[d]["client"] # "none" /\ half'[d]["server"] # "none" BY <1>1, <2>1, Ends
    <3>2. \A b \in Conn : b < c => half'[b]["client"] # "none" BY <1>1, <1>4
    <3> QED BY <1>4, <2>1, <3>1, <3>2
  <2>2. CASE d # c
    <3>1. half'[d]["client"] = half[d]["client"] BY <1>1, <2>2
    <3>2. half'[d]["client"] = "none" => \A e \in End : half'[d][e] = "none" /\ pipe[d][e] = << >>
      <4> SUFFICES ASSUME half[d]["client"] = "none"
                   PROVE  \A e \in End : half'[d][e] = "none" /\ pipe[d][e] = << >>
        BY <3>1
      <4>1. \A e \in End : half[d][e] = "none" /\ pipe[d][e] = << >> BY DEF IInv, Places, ConnPlace
      <4>2. half'[d]["server"] = half[d]["server"] BY <1>1, <2>2, <4>1, Ends
      <4> QED BY <3>1, <4>1, <4>2, Ends
    <3>3. half'[d]["client"] # "none" => d < c /\ \A b \in Conn : b < d => half'[b]["client"] # "none"
      <4> SUFFICES ASSUME half[d]["client"] # "none"
                   PROVE  d < c /\ \A b \in Conn : b < d => half'[b]["client"] # "none"
        BY <3>1
      <4>1. d < c BY <1>1
      <4>2. ASSUME NEW b \in Conn, b < d PROVE half'[b]["client"] # "none"
        <5>1. b < c BY <1>4, <4>1, <4>2
        <5>2. b # c BY <1>4, <5>1
        <5> QED BY <1>1, <5>1, <5>2
      <4> QED BY <4>1, <4>2
    <3>4. d < c => d <= c BY <1>4
    <3>5. half'[d]["client"] # "none" => half'[d]["server"] # "none"
      <4> SUFFICES ASSUME half[d]["client"] # "none" PROVE half'[d]["server"] # "none" BY <3>1
      <4>1. half[d]["server"] # "none" BY DEF IInv, Places, ConnPlace
      <4> QED BY <1>1, <2>2, <4>1
    <3> QED BY <3>2, <3>3, <3>4, <3>5
  <2> QED BY <2>1, <2>2
<1>9. SealedAfterCut'
  <2> SUFFICES ASSUME NEW d \in Conn, NEW e \in End, CutShort(d, e)' PROVE Sealed(d, e)'
    BY DEF SealedAfterCut
  <2>1. CASE d = c
    <3>1. pipe'[c][e] = << >> BY <1>1, <1>3
    <3>2. sock'[e] = c /\ rcv'[e].pc \in {"data", "tail"} BY <2>1, <3>1 DEF CutShort
    <3>3. e = "server" /\ sock["server"] = c BY <1>3, <3>2, Ends
    <3>4. half[c]["client"] # "none" BY <1>4, <3>3 DEF IInv, Places, ServerPlace
    <3> QED BY <1>1, <3>4
  <2>2. CASE d # c
    <3>1. CutShort(d, e)
      <4>1. \/ sock'[e] = sock[e] /\ rcv'[e] = rcv[e]
            \/ rcv'[e].pc \notin {"data", "tail"}
        BY <1>3, Ends
      <4> QED BY <1>3, <4>1, CutKept
    <3>2. Sealed(d, e) BY <3>1 DEF IInv, SealedAfterCut
    <3>3. \A f \in End : \/ half'[d][f] = half[d][f]
                         \/ half[d][f] # "none" /\ half'[d][f] \in Gone
      BY <1>1, <2>2, Ends DEF Gone
    <3> QED BY <3>2, <3>3, SealedKept
  <2> QED BY <2>1, <2>2
<1> QED BY <1>2, <1>3, <1>5, <1>7, <1>8, <1>9 DEF IInv, Places

\* The server takes the first connection of the backlog.
LEMMA AcceptInv ==
  ASSUME IInv, Accept
  PROVE  IInv'
<1> DEFINE c == Head(backlog)
<1>1. backlog \in Seq(Conn) /\ backlog # << >> /\ Connected("server", c)
      /\ backlog' = Tail(backlog) /\ half' = half
  BY TypeParts DEF IInv, WireType, Accept
<1>2. /\ c \in Conn /\ c = backlog[1] /\ 1 \in DOMAIN backlog
      /\ DOMAIN backlog = 1 .. Len(backlog) /\ Len(backlog) \in Nat
      /\ DOMAIN backlog' = 1 .. Len(backlog) - 1
      /\ \A i \in DOMAIN backlog' : backlog'[i] = backlog[i + 1]
  BY <1>1
<1>3. TypeOK' BY TypeAccept DEF IInv
<1>4. /\ sock'["server"] = c /\ rcv'["server"].pc = "header" /\ mgr'["server"].pc = "loop"
      /\ sock'["client"] = sock["client"] /\ rcv'["client"] = rcv["client"]
      /\ mgr'["client"] = mgr["client"] /\ pipe' = pipe
      /\ Reading' /\ Framed' /\ PipeOrder' /\ SenderOrder' /\ Ahead' /\ InOrderOnce'
  <2>1. "server" \in End /\ "client" \in End \ {"server"} BY Ends
  <2>2. Connected("server", c) /\ c \in Conn BY <1>1, <1>2
  <2> HIDE DEF c
  <2> QED BY <1>3, <2>1, <2>2, ConnectedStep
<1> HIDE DEF c
<1>5. c # 0 BY <1>2, Ends
<1>6. sock["server"] = 0 BY DEF IInv, Places, ServerPlace, Accept
<1>7. ClientPlace' BY <1>1, <1>4 DEF IInv, Places, ClientPlace
<1>8. ServerPlace'
  <2>1. \A i \in DOMAIN backlog' : /\ i + 1 \in DOMAIN backlog /\ backlog'[i] = backlog[i + 1]
                                   /\ 1 < i + 1
                                   /\ \A j \in DOMAIN backlog' : i < j => i + 1 < j + 1
    BY <1>2
  <2>2. \A i \in DOMAIN backlog : /\ half[backlog[i]]["client"] # "none"
                                  /\ \A j \in DOMAIN backlog : i < j => backlog[i] < backlog[j]
    BY DEF IInv, Places, ServerPlace
  <2>3. \A i \in DOMAIN backlog' : /\ half[backlog'[i]]["client"] # "none"
                                   /\ c < backlog'[i]
                                   /\ \A j \in DOMAIN backlog' : i < j => backlog'[i] < backlog'[j]
    BY <1>2, <2>1, <2>2
  <2>4. ASSUME NEW d \in Conn, pipe[d]["server"] # << >> \/ half[d]["server"] \notin {"none", "closed"}
        PROVE  d = c \/ \E i \in DOMAIN backlog' : d = backlog'[i]
    <3>1. d # sock["server"] BY <1>6, Ends
    <3>2. PICK i \in DOMAIN backlog : d = backlog[i] BY <2>4, <3>1 DEF IInv, Places, ServerPlace
    <3>3. CASE i = 1 BY <1>2, <3>2, <3>3
    <3>4. CASE i # 1
      <4>1. i - 1 \in DOMAIN backlog' /\ (i - 1) + 1 = i BY <1>2, <3>4
      <4>2. backlog'[i - 1] = backlog[i] BY <1>2, <4>1
      <4> QED BY <3>2, <4>1, <4>2
    <3> QED BY <3>3, <3>4
  <2>5. half[c]["client"] # "none" BY <1>2, <2>2
  <2> QED BY <1>1, <1>4, <1>5, <2>3, <2>4, <2>5 DEF ServerPlace
<1>9. ConnPlace' BY <1>1, <1>4 DEF IInv, Places, ConnPlace
<1>10. SealedAfterCut'
  <2> SUFFICES ASSUME NEW d \in Conn, NEW e \in End, CutShort(d, e)' PROVE Sealed(d, e)'
    BY DEF SealedAfterCut
  <2>1. \/ sock'[e] = sock[e] /\ rcv'[e] = rcv[e]
        \/ rcv'[e].pc \notin {"data", "tail"}
    BY <1>4, Ends
  <2>2. CutShort(d, e) BY <1>4, <2>1, CutKept
  <2>3. Sealed(d, e) BY <2>2 DEF IInv, SealedAfterCut
  <2> QED BY <1>1, <2>3 DEF Sealed
<1> QED BY <1>3, <1>4, <1>7, <1>8, <1>9, <1>10 DEF IInv, Places

\* A step of one end, or of the network, on connection c, that leaves the ends where
\* they are.
Moves(c) ==
  /\ \A d \in Conn, e \in End : d # c => half'[d][e] = half[d][e]
  /\ \A e \in End : \/ half'[c][e] = half[c][e]
                    \/ half[c][e] \notin {"none", "closed"} /\ half'[c][e] \in {"reset", "dead"}
                    \/ half[c][e] = "open" /\ half'[c][e] = "void"
  /\ \A e \in End : mgr'[e].pc = "open" <=> mgr[e].pc = "open"
  /\ \A e \in End : rcv'[e].pc # "none" => rcv[e].pc # "none"
  /\ \A d \in Conn, e \in End : pipe'[d][e] # << >> =>
       pipe[d][e] # << >> \/ half[d][e] \notin {"none", "closed"}
  /\ UNCHANGED <<sock, backlog>>

\* The ends stay where they are.
LEMMA PlacesKept ==
  ASSUME TypeOK, Places, NEW c \in Conn, Moves(c)
  PROVE  Places'
<1>1. ASSUME NEW d \in Conn, NEW e \in End
      PROVE  /\ half'[d][e] = "none" <=> half[d][e] = "none"
             /\ half'[d][e] = "closed" <=> half[d][e] = "closed"
  <2>1. CASE d # c BY <2>1 DEF Moves
  <2>2. CASE d = c BY <2>2 DEF Moves
  <2> QED BY <2>1, <2>2
<1>2. /\ \A e \in End : (mgr'[e].pc = "open" <=> mgr[e].pc = "open")
                        /\ (rcv'[e].pc # "none" => rcv[e].pc # "none")
      /\ sock' = sock /\ backlog' = backlog
  BY DEF Moves
<1>3. ASSUME NEW d \in Conn, NEW e \in End, pipe'[d][e] # << >>
      PROVE  pipe[d][e] # << >> \/ half[d][e] \notin {"none", "closed"}
  BY <1>3 DEF Moves
<1>4. ClientPlace'
  <2>1. ASSUME NEW d \in Conn
        PROVE  /\ half'[d]["client"] \notin {"none", "closed"} <=> half[d]["client"] \notin {"none", "closed"}
               /\ pipe'[d]["client"] # << >> =>
                    pipe[d]["client"] # << >> \/ half[d]["client"] \notin {"none", "closed"}
    BY <1>1, <1>3, Ends
  <2>2. /\ (mgr'["client"].pc = "open" <=> mgr["client"].pc = "open")
        /\ (rcv'["client"].pc # "none" => rcv["client"].pc # "none")
    BY <1>2, Ends
  <2> QED BY <1>2, <2>1, <2>2 DEF Places, ClientPlace
<1>5. ServerPlace'
  <2>1. ASSUME NEW d \in Conn
        PROVE  /\ half'[d]["client"] = "none" <=> half[d]["client"] = "none"
               /\ half'[d]["server"] \notin {"none", "closed"} <=> half[d]["server"] \notin {"none", "closed"}
               /\ pipe'[d]["server"] # << >> =>
                    pipe[d]["server"] # << >> \/ half[d]["server"] \notin {"none", "closed"}
    BY <1>1, <1>3, Ends
  <2>2. /\ (mgr'["server"].pc = "open" <=> mgr["server"].pc = "open")
        /\ (rcv'["server"].pc # "none" => rcv["server"].pc # "none")
    BY <1>2, Ends
  <2>3. sock["server"] \in {0} \cup Conn /\ \A i \in DOMAIN backlog : backlog[i] \in Conn
    <3>1. backlog \in Seq(Conn) /\ sock \in [End -> {0} \cup Conn]
      BY TypeParts DEF ThreadType, WireType
    <3> QED BY <3>1, Ends
  <2> QED BY <1>2, <2>1, <2>2, <2>3 DEF Places, ServerPlace
<1>6. ConnPlace'
  <2>1. ASSUME NEW d \in Conn, half'[d]["client"] = "none"
        PROVE  \A e \in End : half'[d][e] = "none" /\ pipe'[d][e] = << >>
    <3>1. half[d]["client"] = "none" BY <1>1, <2>1, Ends
    <3>2. \A e \in End : half[d][e] = "none" /\ pipe[d][e] = << >> BY <3>1 DEF Places, ConnPlace
    <3> QED BY <1>1, <1>3, <3>2
  <2>2. \A d \in Conn : /\ half'[d]["client"] = "none" <=> half[d]["client"] = "none"
                        /\ half'[d]["server"] = "none" <=> half[d]["server"] = "none"
    BY <1>1, Ends
  <2>3. \A d \in Conn : half[d]["client"] # "none" =>
         /\ half[d]["server"] # "none"
         /\ \A b \in Conn : b < d => half[b]["client"] # "none"
         /\ sock["client"] # 0 => d <= sock["client"]
    BY DEF Places, ConnPlace
  <2> QED BY <1>2, <2>1, <2>2, <2>3 DEF ConnPlace
<1> QED BY <1>4, <1>5, <1>6 DEF Places

\* A step on the wire that delivers nothing, for which the pipes and the tails in
\* them are accounted for.
LEMMA WireStep ==
  ASSUME IInv, TypeOK', NEW c \in Conn, Moves(c), UNCHANGED <<got, inq>>,
         SenderOrder', SenderKeeps, Framed', PipeOrder', SealedAfterCut', Reading', Ahead'
  PROVE  IInv'
<1>1. Places' BY PlacesKept DEF IInv
<1>2. InOrderOnce'
  <2>1. SameTaken BY DEF SameTaken, Taken
  <2> QED BY <2>1, InOrderKept DEF IInv
<1> QED BY <1>1, <1>2 DEF IInv

\* A reset only seals a connection.
LEMMA ResetInv ==
  ASSUME IInv, NEW c \in Conn, NEW e \in End, Reset(c, e)
  PROVE  IInv'
<1>1. TypeOK' BY TypeReset DEF IInv
<1>2. UNCHANGED <<handed, outq, inq, retry, connected, mgr, rcv, sock, got, backlog, pipe>>
  BY DEF Reset, ends
<1>3. /\ half'[c][e] \in {"reset", "dead"} /\ half[c][e] = "void"
      /\ \A d \in Conn, f \in End : d # c \/ f # e => half'[d][f] = half[d][f]
  <2>1. half \in [Conn -> [End -> Half]] BY TypeParts DEF IInv, WireType
  <2> QED BY <2>1 DEF Reset
<1>4. Moves(c)
  <2>1. \A d \in Conn, f \in End : d # c => half'[d][f] = half[d][f] BY <1>3
  <2>2. \A f \in End : \/ half'[c][f] = half[c][f]
                       \/ half[c][f] \notin {"none", "closed"} /\ half'[c][f] \in {"reset", "dead"}
    BY <1>3
  <2> QED BY <1>2, <2>1, <2>2 DEF Moves
<1>5. SenderOrder' /\ SenderKeeps BY <1>2, SenderIdle DEF IInv
<1>6. Framed' /\ PipeOrder' /\ NewTails(e, FALSE) BY <1>2, PipesFrame DEF IInv
<1>7. Reading' BY <1>2, ReadingFrame DEF IInv
<1>8. SealedAfterCut'
  <2> SUFFICES ASSUME NEW d \in Conn, NEW f \in End, CutShort(d, f)' PROVE Sealed(d, f)'
    BY DEF SealedAfterCut
  <2>1. CutShort(d, f) BY <1>2, CutKept
  <2>2. Sealed(d, f) BY <2>1 DEF IInv, SealedAfterCut
  <2>3. \A b \in End : \/ half'[d][b] = half[d][b]
                       \/ half[d][b] # "none" /\ half'[d][b] \in Gone
    BY <1>3 DEF Gone
  <2> QED BY <2>2, <2>3, SealedKept
<1>9. SameTaken BY <1>2 DEF SameTaken, Taken
<1>10. Ahead' BY <1>5, <1>6, <1>9, AheadKept DEF IInv
<1> QED BY <1>1, <1>2, <1>4, <1>5, <1>6, <1>7, <1>8, <1>10, WireStep

\* The beginning of a pipe.
LEMMA Beginning ==
  ASSUME NEW p \in Seq(UnitType), NEW q \in Seq(UnitType), NEW i \in 0 .. Len(p), q = SubSeq(p, 1, i)
  PROVE  Part(q, p) /\ (q # << >> => p # << >> /\ q[1] = p[1])
<1>1. Len(q) = i /\ (\A n \in 1 .. Len(q) : q[n] = p[n]) /\ Part(q, p) BY CutBack
<1>2. ASSUME q # << >> PROVE p # << >> /\ q[1] = p[1]
  <2>1. 1 \in 1 .. Len(q) /\ 1 <= Len(p) BY <1>1, <1>2
  <2> QED BY <1>1, <2>1
<1> QED BY <1>1, <1>2

\* A failure cuts the pipes short, and seals both.
LEMMA BreakInv ==
  ASSUME IInv, NEW c \in Conn, NEW e \in End, Break(c, e)
  PROVE  IInv'
<1>1. TypeOK' BY TypeBreak DEF IInv
<1>2. UNCHANGED <<handed, outq, inq, retry, connected, mgr, rcv, sock, got, backlog>>
  BY DEF Break, ends
<1>3. /\ half'[c][e] = "reset" /\ half[c][e] = "open"
      /\ \A d \in Conn, f \in End : d # c \/ f # e => half'[d][f] = half[d][f]
  <2>1. half \in [Conn -> [End -> Half]] BY TypeParts DEF IInv, WireType
  <2> QED BY <2>1 DEF Break
<1>4. /\ pipe' \in Pipes /\ pipe \in Pipes
      /\ \A d \in Conn, b \in End : d # c => pipe'[d][b] = pipe[d][b]
      /\ \A b \in End : \E i \in 0 .. Len(pipe[c][b]) : pipe'[c][b] = SubSeq(pipe[c][b], 1, i)
  BY BreakStep, PipeType DEF IInv, Pipes
<1>5. ASSUME NEW d \in Conn, NEW b \in End
      PROVE  /\ Part(pipe'[d][b], pipe[d][b])
             /\ pipe'[d][b] # << >> => pipe[d][b] # << >> /\ pipe'[d][b][1] = pipe[d][b][1]
  <2>1. pipe'[d][b] \in Seq(UnitType) /\ pipe[d][b] \in Seq(UnitType) BY <1>4 DEF Pipes
  <2>2. CASE d # c BY <1>4, <2>1, <2>2, PartSelf
  <2>3. CASE d = c
    <3>1. PICK i \in 0 .. Len(pipe[c][b]) : pipe'[c][b] = SubSeq(pipe[c][b], 1, i) BY <1>4
    <3> QED BY <2>1, <2>3, <3>1, Beginning
  <2> QED BY <2>2, <2>3
<1>6. Framed' /\ PipeOrder' /\ OldTails
  <2>1. Shrinks BY <1>5 DEF Shrinks
  <2> QED BY <1>4, <2>1, Shrink DEF IInv
<1>7. Moves(c)
  <2>1. \A d \in Conn, f \in End : d # c => half'[d][f] = half[d][f] BY <1>3
  <2>2. \A f \in End : \/ half'[c][f] = half[c][f]
                       \/ half[c][f] \notin {"none", "closed"} /\ half'[c][f] \in {"reset", "dead"}
    BY <1>3
  <2>3. \A d \in Conn, f \in End : pipe'[d][f] # << >> => pipe[d][f] # << >> BY <1>5
  <2> QED BY <1>2, <2>1, <2>2, <2>3 DEF Moves
<1>8. SenderOrder' /\ SenderKeeps BY <1>2, SenderIdle DEF IInv
<1>9. Reading'
  <2> SUFFICES ASSUME NEW f \in End, NEW d \in Conn, d = sock[f], pipe'[d][f] # << >>
               PROVE  /\ rcv[f].pc = "data" => pipe'[d][f][1] = Unit("D", rcv[f].msg)
                      /\ rcv[f].pc = "tail" => pipe'[d][f][1] = Unit("T", rcv[f].msg)
    BY <1>2 DEF Reading
  <2>1. pipe[d][f] # << >> /\ pipe'[d][f][1] = pipe[d][f][1] BY <1>5
  <2> QED BY <2>1 DEF IInv, Reading
<1>10. SealedAfterCut'
  <2> SUFFICES ASSUME NEW d \in Conn, NEW f \in End, CutShort(d, f)' PROVE Sealed(d, f)'
    BY DEF SealedAfterCut
  <2>1. CASE d = c
    <3>1. f = e \/ Other(f) = e BY Ends
    <3> QED BY <1>3, <2>1, <3>1 DEF Sealed, Gone
  <2>2. CASE d # c
    <3>1. pipe'[d][f] = pipe[d][f] BY <1>4, <2>2
    <3>2. CutShort(d, f) BY <1>2, <3>1, CutKept
    <3>3. Sealed(d, f) BY <3>2 DEF IInv, SealedAfterCut
    <3>4. half'[d][f] = half[d][f] /\ half'[d][Other(f)] = half[d][Other(f)]
      BY <1>3, <2>2, Ends
    <3> QED BY <3>3, <3>4 DEF Sealed
  <2> QED BY <2>1, <2>2
<1>11. Ahead'
  <2>1. SameTaken BY <1>2 DEF SameTaken, Taken
  <2>2. NewTails(e, FALSE) BY <1>6 DEF NewTails, OldTails
  <2> QED BY <1>8, <2>1, <2>2, AheadKept DEF IInv
<1> QED BY <1>1, <1>2, <1>6, <1>7, <1>8, <1>9, <1>10, <1>11, WireStep

\* Of lengths that differ by one.
LEMMA OneLess ==
  ASSUME NEW a \in Nat, NEW b \in Nat, a = b - 1
  PROVE  (a # 0 => b >= 2) /\ (a = 0 => b = 1)
OBVIOUS

\* A step of a receive thread.
LEMMA ReceiverInv ==
  ASSUME IInv, NEW e \in End, Receiver(e)
  PROVE  IInv'
<1> DEFINE c == sock[e]
<1>1. TypeOK' BY TypeReceiver DEF IInv
<1>2. c \in Conn /\ rcvUnchanged /\ rcv[e].pc # "none" BY ReceiverStep DEF IInv
<1>3. PICK k \in 0 .. Len(pipe[c][e]), t \in RcvThread :
        Takes(e, c, k) /\ GoesOn(e, c, k, t) /\ Gives(e, c, k) /\ Reports(e, c)
  BY ReceiverStep DEF IInv
<1> HIDE DEF c
<1>4. UNCHANGED <<handed, outq, retry, mgr, sock, got, backlog>> BY <1>2 DEF rcvUnchanged
<1>5. rcv'[e] = t /\ \A f \in End \ {e} : rcv'[f] = rcv[f]
  <2>1. rcv \in [End -> RcvThread] BY TypeParts DEF IInv, ThreadType
  <2> QED BY <1>3, <2>1 DEF GoesOn
<1>6. /\ \A d \in Conn, f \in End : d # c \/ f # e => half'[d][f] = half[d][f]
      /\ half'[c][e] = half[c][e] \/ (half[c][e] = "reset" /\ half'[c][e] = "dead")
  <2>1. half \in [Conn -> [End -> Half]] BY TypeParts DEF IInv, WireType
  <2> QED BY <1>2, <1>3, <2>1 DEF Reports
<1>7. /\ pipe' \in Pipes /\ pipe \in Pipes /\ Shrinks
      /\ pipe[c][e] \in Seq(UnitType)
      /\ pipe'[c][e] \in Seq(UnitType) /\ Len(pipe'[c][e]) = Len(pipe[c][e]) - k
      /\ \A i \in 1 .. Len(pipe'[c][e]) : pipe'[c][e][i] = pipe[c][e][i + k]
      /\ \A d \in Conn, f \in End : d # c \/ f # e => pipe'[d][f] = pipe[d][f]
  BY <1>2, <1>3, ReceiverPipes, PipeType DEF IInv
<1>8. Framed' /\ PipeOrder' BY <1>7, Shrink DEF IInv
<1>9. SenderOrder' BY <1>4, SenderIdle DEF IInv
<1>10. Ahead' /\ InOrderOnce' BY ReceiverOrder DEF IInv
<1>11. Places'
  <2>1. \A d \in Conn, f \in End : d # c => half'[d][f] = half[d][f] BY <1>6
  <2>2. \A f \in End : \/ half'[c][f] = half[c][f]
                       \/ half[c][f] \notin {"none", "closed"} /\ half'[c][f] \in {"reset", "dead"}
    BY <1>6, <1>2
  <2>3. \A d \in Conn, f \in End : pipe'[d][f] # << >> => pipe[d][f] # << >>
    <3> SUFFICES ASSUME NEW d \in Conn, NEW f \in End, pipe'[d][f] # << >> PROVE pipe[d][f] # << >>
      OBVIOUS
    <3>1. CASE d = c /\ f = e
      <4>1. Len(pipe'[c][e]) # 0 BY <1>7, <3>1
      <4> QED BY <1>7, <3>1, <4>1
    <3>2. CASE d # c \/ f # e BY <1>7, <3>2
    <3> QED BY <3>1, <3>2
  <2>4. \A f \in End : rcv'[f].pc # "none" => rcv[f].pc # "none" BY <1>2, <1>5
  <2>5. Moves(c) BY <1>4, <2>1, <2>2, <2>3, <2>4 DEF Moves
  <2> QED BY <1>2, <2>5, PlacesKept DEF IInv
<1>12. Reading'
  <2> SUFFICES ASSUME NEW f \in End, NEW d \in Conn, d = sock[f], pipe'[d][f] # << >>
               PROVE  /\ rcv'[f].pc = "data" => pipe'[d][f][1] = Unit("D", rcv'[f].msg)
                      /\ rcv'[f].pc = "tail" => pipe'[d][f][1] = Unit("T", rcv'[f].msg)
    BY <1>4 DEF Reading
  <2>1. CASE f # e
    <3>1. pipe'[d][f] = pipe[d][f] /\ rcv'[f] = rcv[f] BY <1>5, <1>7, <2>1
    <3> QED BY <3>1 DEF IInv, Reading
  <2>2. CASE f = e /\ rcv'[e].pc \in {"data", "tail"}
    <3>1. d = c BY <2>2 DEF c
    <3>2. k = 1 /\ t.pc \in {"data", "tail"} BY <1>3, <1>5, <2>2 DEF GoesOn
    <3>3. /\ pipe'[c][e][1] = pipe[c][e][2] /\ 1 \in DOMAIN pipe[c][e] /\ 2 \in DOMAIN pipe[c][e]
          /\ 1 + 1 = 2
      <4>1. Len(pipe'[c][e]) # 0 BY <1>7, <2>2, <3>1
      <4>2. Len(pipe'[c][e]) \in Nat /\ Len(pipe[c][e]) \in Nat BY <1>7
      <4>3. 1 \in 1 .. Len(pipe'[c][e]) /\ 1 + 1 = 2 BY <4>1, <4>2
      <4>4. Len(pipe[c][e]) >= 2
        <5>1. Len(pipe'[c][e]) = Len(pipe[c][e]) - 1 BY <1>7, <3>2
        <5> QED BY <3>2, <4>1, <4>2, <5>1, OneLess, Zenon
      <4> QED BY <1>7, <3>2, <4>2, <4>3, <4>4
    <3>4. InFrames(pipe[c][e]) BY <1>2 DEF IInv, Framed
    <3>5. /\ pipe[c][e][1].kind = "H" => pipe[c][e][2] = Unit("D", pipe[c][e][1].msg)
          /\ pipe[c][e][1].kind = "D" => pipe[c][e][2] = Unit("T", pipe[c][e][1].msg)
      BY <3>3, <3>4 DEF InFrames
    <3>6. CASE t.pc = "data"
      <4>1. pipe[c][e][1].kind = "H" /\ t.msg = pipe[c][e][1].msg BY <1>3, <3>6 DEF GoesOn
      <4> QED BY <1>5, <2>2, <3>1, <3>3, <3>5, <3>6, <4>1
    <3>7. CASE t.pc = "tail"
      <4>1. pipe[c][e][1].kind = "D" /\ t.msg = rcv[e].msg /\ rcv[e].pc = "data"
        BY <1>3, <3>7 DEF GoesOn
      <4>2. pipe[c][e] # << >> BY <1>7, <3>3
      <4>3. pipe[c][e][1] = Unit("D", rcv[e].msg)
        BY <1>2, <4>1, <4>2 DEF IInv, Reading, c
      <4>4. pipe[c][e][2] = Unit("T", rcv[e].msg) BY <3>5, <4>1, <4>3 DEF Unit
      <4> QED BY <1>5, <2>2, <3>1, <3>3, <3>7, <4>1, <4>4
    <3> QED BY <3>2, <3>6, <3>7
  <2>3. CASE f = e /\ rcv'[e].pc \notin {"data", "tail"} BY <2>3
  <2> QED BY <2>1, <2>2, <2>3
<1>13. SealedAfterCut'
  <2> SUFFICES ASSUME NEW d \in Conn, NEW f \in End, CutShort(d, f)' PROVE Sealed(d, f)'
    BY DEF SealedAfterCut
  <2>1. CutShort(d, f)
    <3>1. CASE f # e
      <4>1. pipe'[d][f] = pipe[d][f] /\ rcv'[f] = rcv[f] BY <1>5, <1>7, <3>1
      <4> QED BY <1>4, <4>1, CutKept
    <3>2. CASE f = e /\ d # c
      <4>1. pipe'[d][e] = pipe[d][e] /\ sock[e] # d BY <1>7, <3>2 DEF c
      <4> QED BY <1>4, <3>2, <4>1 DEF CutShort
    <3>3. CASE f = e /\ d = c /\ pipe'[c][e] # << >>
      <4> DEFINE p == pipe[c][e]  q == pipe'[c][e]
      <4>1. q[Len(q)].kind # "T" BY <3>3 DEF CutShort
      <4>2. q # << >> /\ p \in Seq(UnitType) /\ q \in Seq(UnitType) /\ Len(q) = Len(p) - k
            /\ \A i \in 1 .. Len(q) : q[i] = p[i + k]
        BY <1>7, <3>3
      <4>3. Len(q) \in 1 .. Len(q) /\ Len(q) + k = Len(p) /\ p # << >>
        <5> HIDE DEF p, q
        <5>1. Len(q) \in Nat /\ Len(p) \in Nat /\ Len(q) # 0 BY <4>2
        <5>2. k \in Int /\ k >= 0 BY DEF p
        <5> QED BY <4>2, <5>1, <5>2
      <4>4. q[Len(q)] = p[Len(p)] BY <4>2, <4>3
      <4> QED BY <3>3, <4>1, <4>3, <4>4 DEF CutShort
    <3>4. CASE f = e /\ d = c /\ pipe'[c][e] = << >>
      <4>1. rcv'[e].pc \in {"data", "tail"} BY <3>4 DEF CutShort
      <4>2. /\ k = 1 /\ Len(pipe[c][e]) >= 1 /\ pipe[c][e][1].kind \in {"H", "D"}
        BY <1>3, <1>5, <4>1 DEF GoesOn
      <4>3. Len(pipe[c][e]) = 1
        <5>1. Len(pipe'[c][e]) = Len(pipe[c][e]) - 1 /\ pipe[c][e] \in Seq(UnitType) BY <1>7, <4>2
        <5>2. Len(pipe'[c][e]) = 0 BY <3>4
        <5>3. Len(pipe[c][e]) \in Nat BY <5>1
        <5>4. Len(pipe[c][e]) - 1 = 0 BY <5>1, <5>2, Zenon
        <5> QED BY <5>3, <5>4
      <4>4. pipe[c][e] # << >>
        <5>1. Len(<< >>) = 0 /\ 1 # 0 OBVIOUS
        <5> QED BY <4>3, <5>1, Zenon
      <4> QED BY <3>4, <4>2, <4>3, <4>4 DEF CutShort
    <3> QED BY <3>1, <3>2, <3>3, <3>4
  <2>2. Sealed(d, f) BY <2>1 DEF IInv, SealedAfterCut
  <2>3. \A b \in End : \/ half'[d][b] = half[d][b]
                       \/ half[d][b] # "none" /\ half'[d][b] \in Gone
    BY <1>6 DEF Gone
  <2> QED BY <2>2, <2>3, SealedKept
<1> QED BY <1>1, <1>8, <1>9, <1>10, <1>11, <1>12, <1>13 DEF IInv

-----------------------------------------------------------------------------
\* Where a sender's units end up.
LEMMA Grown ==
  ASSUME TypeOK, Places, NEW e \in End, mgr[e].pc = "send",
         NEW x, Units(x, mgr[e].buf), Grows(e, x)
  PROVE  LET c == sock[e]  o == Other(e) IN
         /\ \A d \in Conn, f \in End : d # c \/ f # o => pipe'[d][f] = pipe[d][f]
         /\ pipe'[c][o] # << >>
         /\ pipe[c][o] # << >> => pipe'[c][o][1] = pipe[c][o][1]
         /\ pipe'[c][o][Len(pipe'[c][o])] = x[Len(x)]
<1> DEFINE c == sock[e]  o == Other(e)  p == pipe[c][o]  q == p \o x  g == [pipe EXCEPT ![c][o] = q]
<1>1. c \in Conn /\ o \in End BY OnConn, Ends
<1>2. p \in Seq(UnitType) /\ x \in Seq(UnitType) /\ pipe \in [Conn -> [End -> Seq(UnitType)]]
  BY <1>1, PipeType DEF Units, Pipes
<1>3. /\ q \in Seq(UnitType) /\ Len(q) = Len(p) + Len(x)
      /\ Len(p) \in Nat /\ Len(x) \in Nat /\ Len(x) >= 1
      /\ \A i \in 1 .. Len(p) + Len(x) : q[i] = IF i <= Len(p) THEN p[i] ELSE x[i - Len(p)]
  BY <1>2, ConcatProperties DEF Units
<1>4. pipe' = g BY DEF Grows
<1> HIDE DEF c, o
<1>5. g[c][o] = q /\ \A d \in Conn, f \in End : d # c \/ f # o => g[d][f] = pipe[d][f]
  <2>1. q \in Seq(UnitType) BY <1>3
  <2> HIDE DEF q
  <2> QED BY <1>1, <1>2, <2>1, Update2
<1> HIDE DEF g, q, p
<1>6. q # << >>
  <2>1. Len(q) # 0 BY <1>3
  <2>2. Len(<< >>) = 0 OBVIOUS
  <2> QED BY <2>1, <2>2, Zenon
<1>7. p # << >> => q[1] = p[1]
  <2> SUFFICES ASSUME p # << >> PROVE q[1] = p[1] OBVIOUS
  <2>1. Len(p) # 0 BY <1>2
  <2>2. 1 \in 1 .. Len(p) + Len(x) /\ 1 <= Len(p) BY <1>3, <2>1
  <2> QED BY <1>3, <2>2
<1>8. q[Len(q)] = x[Len(x)]
  <2>1. Len(q) \in 1 .. Len(p) + Len(x) /\ ~(Len(q) <= Len(p)) /\ Len(q) - Len(p) = Len(x)
    BY <1>3
  <2> QED BY <1>3, <2>1
<1> QED BY <1>4, <1>5, <1>6, <1>7, <1>8 DEF c, o, p

\* No one is in the middle of a message where nothing was cut.
LEMMA ReadingGrows ==
  ASSUME IInv, NEW e \in End, mgr[e].pc = "send",
         half[sock[e]][e] \in {"open", "void"}, half[sock[e]][Other(e)] \notin Gone,
         NEW x, Units(x, mgr[e].buf), Grows(e, x), UNCHANGED <<sock, rcv>>
  PROVE  Reading'
<1> DEFINE c == sock[e]  o == Other(e)
<1>1. c \in Conn /\ o \in End /\ Other(o) = e BY OnConn, Ends DEF IInv
<1>2. /\ \A d \in Conn, f \in End : d # c \/ f # o => pipe'[d][f] = pipe[d][f]
      /\ pipe[c][o] # << >> => pipe'[c][o][1] = pipe[c][o][1]
  BY Grown DEF IInv
<1>3. ~CutShort(c, o) BY <1>1 DEF IInv, SealedAfterCut, Sealed
<1> HIDE DEF c, o
<1> SUFFICES ASSUME NEW f \in End, NEW d \in Conn, d = sock[f], pipe'[d][f] # << >>
             PROVE  /\ rcv[f].pc = "data" => pipe'[d][f][1] = Unit("D", rcv[f].msg)
                    /\ rcv[f].pc = "tail" => pipe'[d][f][1] = Unit("T", rcv[f].msg)
  BY DEF Reading
<1>4. CASE d # c \/ f # o
  <2>1. pipe'[d][f] = pipe[d][f] BY <1>2, <1>4
  <2> QED BY <2>1 DEF IInv, Reading
<1>5. CASE d = c /\ f = o
  <2>1. CASE pipe[c][o] # << >>
    <3>1. pipe[d][f] # << >> /\ pipe'[d][f][1] = pipe[d][f][1] BY <1>2, <1>5, <2>1
    <3> QED BY <3>1 DEF IInv, Reading
  <2>2. CASE pipe[c][o] = << >> BY <1>3, <1>5, <2>2 DEF CutShort
  <2> QED BY <2>1, <2>2
<1> QED BY <1>4, <1>5

\* The pipe a sender adds to belongs to an end that is there.
LEMMA OtherEnd ==
  ASSUME TypeOK, Places, NEW e \in End, mgr[e].pc = "send", half[sock[e]][e] \in {"open", "void"},
         half[sock[e]][Other(e)] \notin Gone
  PROVE  half[sock[e]][Other(e)] \notin {"none", "closed"}
<1>1. sock[e] \in Conn BY OnConn
<1>2. half[sock[e]]["client"] # "none" BY <1>1, Ends DEF Places, ConnPlace
<1>3. half[sock[e]]["server"] # "none" BY <1>1, <1>2 DEF Places, ConnPlace
<1> QED BY <1>2, <1>3, Ends DEF Gone

\* A message is sent whole, to the other end or to nowhere.
LEMMA SendWholeInv ==
  ASSUME IInv, NEW e \in End, SendWhole(e)
  PROVE  IInv'
<1> DEFINE c == sock[e]  o == Other(e)  m == mgr[e].buf  x == OnWire(m)
<1>1. TypeOK' BY TypeSendWhole DEF IInv
<1>2. /\ mgr[e].pc = "send" /\ half[c][e] \in {"open", "void"}
      /\ mgr' = [mgr EXCEPT ![e] = [pc |-> "loop", buf |-> 0]]
      /\ UNCHANGED <<inq, rcv, sock, got, backlog>>
      /\ IF half[c][o] \in Gone
         THEN half' = [half EXCEPT ![c][e] = "void"] /\ UNCHANGED pipe
         ELSE Grows(e, x) /\ UNCHANGED half
  BY DEF SendWhole, mgrUnchanged, Grows
<1>3. c \in Conn /\ o \in End /\ o # e /\ Other(o) = e /\ m \in Nat
  BY <1>2, OnConn, Ends, SenderType DEF IInv
<1>4. \A d \in End : mgr'[d].pc = "open" <=> mgr[d].pc = "open"
  <2>1. mgr'[e].pc = "loop" /\ \A d \in End \ {e} : mgr'[d] = mgr[d]
    BY <1>2, SenderType DEF IInv
  <2> QED BY <1>2, <2>1
<1>5. SenderOrder' /\ SenderKeeps /\ \A n \in Nat : n = m => Sent(e, n)' BY SenderSent DEF IInv
<1>6. SameTaken BY <1>2 DEF SameTaken, Taken
<1>7. half \in [Conn -> [End -> Half]] BY TypeParts DEF IInv, WireType
<1> HIDE DEF c, o, x
<1>8. CASE half[c][o] \in Gone
  <2>1. half' = [half EXCEPT ![c][e] = "void"] /\ UNCHANGED pipe BY <1>2, <1>8
  <2>2. /\ half'[c][e] = "void"
        /\ \A d \in Conn, f \in End : d # c \/ f # e => half'[d][f] = half[d][f]
    BY <1>3, <1>7, <2>1
  <2>3. Moves(c)
    <3>1. \A d \in Conn, f \in End : d # c => half'[d][f] = half[d][f] BY <2>2
    <3>2. \A f \in End : half'[c][f] = half[c][f] \/ (half[c][f] = "open" /\ half'[c][f] = "void")
      BY <1>2, <1>3, <2>2
    <3> QED BY <1>2, <1>4, <2>1, <3>1, <3>2 DEF Moves
  <2>4. Framed' /\ PipeOrder' /\ NewTails(e, FALSE) BY <2>1, PipesFrame DEF IInv
  <2>5. Reading' BY <1>2, <2>1, ReadingFrame DEF IInv
  <2>6. Ahead' BY <1>5, <1>6, <2>4, AheadKept DEF IInv
  <2>7. SealedAfterCut'
    <3> SUFFICES ASSUME NEW d \in Conn, NEW f \in End, CutShort(d, f)' PROVE Sealed(d, f)'
      BY DEF SealedAfterCut
    <3>1. CutShort(d, f) BY <1>2, <2>1, CutKept
    <3>2. Sealed(d, f) BY <3>1 DEF IInv, SealedAfterCut
    <3>3. \A b \in End : half'[d][b] = half[d][b] \/ (half[d][b] = "open" /\ half'[d][b] = "void")
      BY <1>2, <1>3, <2>2
    <3> QED BY <3>2, <3>3, SealedKept
  <2> QED BY <1>1, <1>2, <1>3, <1>5, <2>3, <2>4, <2>5, <2>6, <2>7, WireStep
<1>9. CASE half[c][o] \notin Gone
  <2>1. Grows(e, x) /\ half' = half BY <1>2, <1>9
  <2>2. Units(x, m) /\ x[Len(x)].kind = "T" BY <1>3, UnitsSent DEF x
  <2>3. /\ half[sock[e]][e] \in {"open", "void"} /\ half[sock[e]][Other(e)] \notin Gone
        /\ Units(x, mgr[e].buf) /\ mgr[e].pc = "send"
    BY <1>2, <1>9, <2>2 DEF c, o
  <2>4. Framed' /\ PipeOrder' /\ NewTails(e, x[Len(x)].kind = "T")
    BY <2>1, <2>3, Grow DEF IInv
  <2>5. /\ \A d \in Conn, f \in End : d # c \/ f # o => pipe'[d][f] = pipe[d][f]
        /\ pipe'[c][o] # << >> /\ pipe'[c][o][Len(pipe'[c][o])] = x[Len(x)]
    BY <2>1, <2>3, Grown DEF IInv, c, o
  <2>6. Reading' BY <1>2, <2>1, <2>3, ReadingGrows DEF IInv
  <2>7. Moves(c)
    <3>1. half[c][o] \notin {"none", "closed"} BY <2>3, OtherEnd DEF IInv, c, o
    <3>2. \A d \in Conn, f \in End : pipe'[d][f] # << >> =>
            pipe[d][f] # << >> \/ half[d][f] \notin {"none", "closed"}
      BY <2>5, <3>1
    <3> QED BY <1>2, <1>4, <2>1, <3>2 DEF Moves
  <2>8. NewTails(e, TRUE) BY <2>2, <2>4 DEF NewTails
  <2>9. Ahead' BY <1>2, <1>5, <1>6, <2>8, AheadKept DEF IInv
  <2>10. SealedAfterCut'
    <3> SUFFICES ASSUME NEW d \in Conn, NEW f \in End, CutShort(d, f)' PROVE Sealed(d, f)'
      BY DEF SealedAfterCut
    <3>1. CASE d = c /\ f = o BY <2>2, <2>5, <3>1 DEF CutShort
    <3>2. CASE d # c \/ f # o
      <4>1. pipe'[d][f] = pipe[d][f] BY <2>5, <3>2
      <4>2. CutShort(d, f) BY <1>2, <4>1, CutKept
      <4> QED BY <2>1, <4>2 DEF IInv, SealedAfterCut, Sealed
    <3> QED BY <3>1, <3>2
  <2> QED BY <1>1, <1>2, <1>3, <1>5, <2>4, <2>6, <2>7, <2>9, <2>10, WireStep
<1> QED BY <1>8, <1>9

\* What both ways for a send to fail have in common.
LEMMA FailedSend ==
  ASSUME IInv, NEW e \in End, mgr[e].pc = "send", SendFailed(e), Report(e),
         half[sock[e]][e] \notin {"none", "closed"}
  PROVE  LET c == sock[e] IN
         /\ c \in Conn
         /\ half'[c][e] = "dead"
         /\ \A d \in Conn, f \in End : d # c \/ f # e => half'[d][f] = half[d][f]
         /\ \A d \in End : mgr'[d].pc = "open" <=> mgr[d].pc = "open"
         /\ UNCHANGED <<inq, rcv, sock, got, backlog>>
         /\ SenderOrder' /\ SenderKeeps /\ SameTaken
<1> DEFINE c == sock[e]
<1>1. half \in [Conn -> [End -> Half]] BY TypeParts DEF IInv, WireType
<1>2. c \in Conn BY OnConn DEF IInv
<1>3. half' = [half EXCEPT ![c][e] = "dead"] BY DEF Report
<1>4. UNCHANGED <<inq, rcv, sock, got, backlog>> BY DEF SendFailed, mgrUnchanged
<1> HIDE DEF c
<1>5. /\ half'[c][e] = "dead"
      /\ \A d \in Conn, f \in End : d # c \/ f # e => half'[d][f] = half[d][f]
  BY <1>1, <1>2, <1>3
<1>6. \A d \in End : mgr'[d].pc = "open" <=> mgr[d].pc = "open"
  <2>1. mgr'[e].pc = "join" /\ \A d \in End \ {e} : mgr'[d] = mgr[d]
    BY SenderType DEF IInv, SendFailed
  <2> QED BY <2>1
<1>7. SenderOrder' /\ SenderKeeps BY SenderFailed DEF IInv
<1>8. SameTaken BY <1>4 DEF SameTaken, Taken
<1> QED BY <1>2, <1>4, <1>5, <1>6, <1>7, <1>8 DEF c

\* A send that fails seals the connection.
LEMMA SendFailsInv ==
  ASSUME IInv, NEW e \in End, SendFails(e)
  PROVE  IInv'
<1> DEFINE c == sock[e]
<1>1. TypeOK' BY TypeSendFails DEF IInv
<1>2. /\ mgr[e].pc = "send" /\ half[c][e] \in {"reset", "dead"} /\ UNCHANGED pipe
      /\ SendFailed(e) /\ Report(e)
  BY DEF SendFails
<1>3. /\ c \in Conn
      /\ half'[c][e] = "dead"
      /\ \A d \in Conn, f \in End : d # c \/ f # e => half'[d][f] = half[d][f]
      /\ \A d \in End : mgr'[d].pc = "open" <=> mgr[d].pc = "open"
      /\ UNCHANGED <<inq, rcv, sock, got, backlog>>
      /\ SenderOrder' /\ SenderKeeps /\ SameTaken
  BY <1>2, FailedSend
<1> HIDE DEF c
<1>4. Moves(c)
  <2>1. \A d \in Conn, f \in End : d # c => half'[d][f] = half[d][f] BY <1>3
  <2>2. \A f \in End : \/ half'[c][f] = half[c][f]
                       \/ half[c][f] \notin {"none", "closed"} /\ half'[c][f] \in {"reset", "dead"}
    BY <1>2, <1>3
  <2> QED BY <1>2, <1>3, <2>1, <2>2 DEF Moves
<1>5. Framed' /\ PipeOrder' /\ NewTails(e, FALSE) BY <1>2, PipesFrame DEF IInv
<1>6. Reading' BY <1>2, <1>3, ReadingFrame DEF IInv
<1>7. Ahead' BY <1>3, <1>5, AheadKept DEF IInv
<1>8. SealedAfterCut'
  <2> SUFFICES ASSUME NEW d \in Conn, NEW f \in End, CutShort(d, f)' PROVE Sealed(d, f)'
    BY DEF SealedAfterCut
  <2>1. CutShort(d, f) BY <1>2, <1>3, CutKept
  <2>2. Sealed(d, f) BY <2>1 DEF IInv, SealedAfterCut
  <2>3. \A b \in End : half'[d][b] = half[d][b] \/ (half[d][b] # "none" /\ half'[d][b] \in Gone)
    BY <1>2, <1>3 DEF Gone
  <2> QED BY <2>2, <2>3, SealedKept
<1> QED BY <1>1, <1>2, <1>3, <1>4, <1>5, <1>6, <1>7, <1>8, WireStep

\* A message of which a part is sent seals the connection, so that nothing follows it.
LEMMA SendPartialInv ==
  ASSUME IInv, NEW e \in End, SendPartial(e)
  PROVE  IInv'
<1> DEFINE c == sock[e]  o == Other(e)  m == mgr[e].buf
<1>1. TypeOK' BY TypeSendPartial DEF IInv
<1>2. /\ mgr[e].pc = "send" /\ half[c][e] = "open" /\ half[c][o] = "open"
      /\ SendFailed(e) /\ Report(e)
      /\ \E x \in {<<Unit("h", m)>>, <<Unit("H", m)>>, <<Unit("H", m), Unit("D", m)>>} : Grows(e, x)
  BY DEF SendPartial, Grows
<1>3. PICK x \in {<<Unit("h", m)>>, <<Unit("H", m)>>, <<Unit("H", m), Unit("D", m)>>} : Grows(e, x)
  BY <1>2
<1>4. /\ c \in Conn
      /\ half'[c][e] = "dead"
      /\ \A d \in Conn, f \in End : d # c \/ f # e => half'[d][f] = half[d][f]
      /\ \A d \in End : mgr'[d].pc = "open" <=> mgr[d].pc = "open"
      /\ UNCHANGED <<inq, rcv, sock, got, backlog>>
      /\ SenderOrder' /\ SenderKeeps /\ SameTaken
  BY <1>2, FailedSend
<1>5. o \in End /\ o # e /\ Other(o) = e /\ m \in Nat BY Ends, SenderType DEF IInv
<1>6. Units(x, m) /\ x[Len(x)].kind # "T"
  <2>1. Units(x, m) /\ \A i \in DOMAIN x : x[i].kind # "T" BY <1>5, UnitsSent
  <2>2. Len(x) \in DOMAIN x
    <3>1. x \in Seq(UnitType) /\ Len(x) >= 1 BY <2>1 DEF Units
    <3> QED BY <3>1
  <2> QED BY <2>1, <2>2
<1> HIDE DEF c, o
<1>7. /\ half[sock[e]][e] \in {"open", "void"} /\ half[sock[e]][Other(e)] \notin Gone
      /\ Units(x, mgr[e].buf) /\ mgr[e].pc = "send"
  BY <1>2, <1>6 DEF c, o, Gone
<1>8. Framed' /\ PipeOrder' /\ NewTails(e, x[Len(x)].kind = "T")
  BY <1>3, <1>7, Grow DEF IInv
<1>9. /\ \A d \in Conn, f \in End : d # c \/ f # o => pipe'[d][f] = pipe[d][f]
      /\ pipe'[c][o] # << >>
  BY <1>3, <1>7, Grown DEF IInv, c, o
<1>10. Reading' BY <1>3, <1>4, <1>7, ReadingGrows
<1>11. Moves(c)
  <2>1. \A d \in Conn, f \in End : d # c => half'[d][f] = half[d][f] BY <1>4
  <2>2. \A f \in End : \/ half'[c][f] = half[c][f]
                       \/ half[c][f] \notin {"none", "closed"} /\ half'[c][f] \in {"reset", "dead"}
    BY <1>2, <1>4
  <2>3. \A d \in Conn, f \in End : pipe'[d][f] # << >> =>
          pipe[d][f] # << >> \/ half[d][f] \notin {"none", "closed"}
    BY <1>2, <1>9
  <2> QED BY <1>4, <2>1, <2>2, <2>3 DEF Moves
<1>12. NewTails(e, FALSE) BY <1>6, <1>8 DEF NewTails
<1>13. Ahead' BY <1>4, <1>12, AheadKept DEF IInv
<1>14. SealedAfterCut'
  <2> SUFFICES ASSUME NEW d \in Conn, NEW f \in End, CutShort(d, f)' PROVE Sealed(d, f)'
    BY DEF SealedAfterCut
  <2>1. CASE d = c
    <3>1. f = e \/ Other(f) = e BY Ends
    <3> QED BY <1>4, <2>1, <3>1 DEF Sealed, Gone
  <2>2. CASE d # c
    <3>1. pipe'[d][f] = pipe[d][f] BY <1>9, <2>2
    <3>2. CutShort(d, f) BY <1>4, <3>1, CutKept
    <3>3. Sealed(d, f) BY <3>2 DEF IInv, SealedAfterCut
    <3>4. half'[d][f] = half[d][f] /\ half'[d][Other(f)] = half[d][Other(f)]
      BY <1>4, <2>2, Ends
    <3> QED BY <3>3, <3>4 DEF Sealed
  <2> QED BY <2>1, <2>2
<1> QED BY <1>1, <1>4, <1>8, <1>10, <1>11, <1>13, <1>14, WireStep

-----------------------------------------------------------------------------
\* An end that closes a connection empties its pipe, and may reset the other side.
LEMMA JoinStep ==
  ASSUME IInv, NEW e \in End, Join(e)
  PROVE  LET c == sock[e]  o == Other(e) IN
         /\ c \in Conn /\ o \in End /\ o # e /\ Other(o) = e /\ mgr[e].pc = "join" /\ rcv[e].pc = "none"
         /\ half'[c][e] = "closed"
         /\ \/ half'[c][o] = half[c][o]
            \/ half[c][o] \in {"open", "void"} /\ half'[c][o] = "reset"
         /\ \A d \in Conn, f \in End : d # c => half'[d][f] = half[d][f]
         /\ pipe \in Pipes /\ pipe' \in Pipes /\ pipe'[c][e] = << >>
         /\ \A d \in Conn, f \in End : d # c \/ f # e => pipe'[d][f] = pipe[d][f]
         /\ sock'[e] = 0 /\ mgr'[e].pc = "open"
         /\ \A f \in End \ {e} : sock'[f] = sock[f] /\ mgr'[f] = mgr[f]
         /\ UNCHANGED <<handed, outq, inq, retry, rcv, got, backlog>>
<1> DEFINE c == sock[e]  o == Other(e)
<1>1. ThreadType /\ WireType BY TypeParts DEF IInv
<1>2. c \in Conn /\ o \in End /\ o # e /\ Other(o) = e /\ mgr[e].pc = "join" /\ rcv[e].pc = "none"
  BY OnConn, Ends DEF IInv, Join
<1>3. /\ half' = [half EXCEPT
                ![c][e] = "closed",
                ![c][o] = IF pipe[c][e] # << >> /\ @ \in {"open", "void"}
                          THEN "reset" ELSE @]
      /\ pipe' = [pipe EXCEPT ![c][e] = << >>]
      /\ sock' = [sock EXCEPT ![e] = 0]
      /\ mgr' = [mgr EXCEPT ![e].pc = "open"]
      /\ UNCHANGED <<handed, outq, inq, retry, rcv, got, backlog>>
  BY DEF Join
<1> HIDE DEF c, o
<1>4. /\ half'[c][e] = "closed"
      /\ \/ half'[c][o] = half[c][o]
         \/ half[c][o] \in {"open", "void"} /\ half'[c][o] = "reset"
      /\ \A d \in Conn, f \in End : d # c => half'[d][f] = half[d][f]
  <2>1. half \in [Conn -> [End -> Half]] BY <1>1 DEF WireType
  <2> QED BY <1>2, <1>3, <2>1
<1>5. /\ pipe \in Pipes /\ pipe' \in Pipes /\ pipe'[c][e] = << >>
      /\ \A d \in Conn, f \in End : d # c \/ f # e => pipe'[d][f] = pipe[d][f]
  <2> DEFINE g == [pipe EXCEPT ![c][e] = << >>]
  <2>1. pipe \in [Conn -> [End -> Seq(UnitType)]] /\ << >> \in Seq(UnitType)
    BY <1>2, PipeType DEF IInv, Pipes
  <2>2. pipe' = g BY <1>3
  <2>3. /\ g \in [Conn -> [End -> Seq(UnitType)]] /\ g[c][e] = << >>
        /\ \A d \in Conn, f \in End : d # c \/ f # e => g[d][f] = pipe[d][f]
    BY <1>2, <2>1, Update2
  <2> HIDE DEF g
  <2> QED BY <2>1, <2>2, <2>3 DEF Pipes
<1>6. /\ sock'[e] = 0 /\ mgr'[e].pc = "open"
      /\ \A f \in End \ {e} : sock'[f] = sock[f] /\ mgr'[f] = mgr[f]
  BY <1>1, <1>3 DEF ThreadType, MgrThread
<1> QED BY <1>2, <1>3, <1>4, <1>5, <1>6 DEF c, o

\* An end that closes its connection is on none.
LEMMA JoinPlaces ==
  ASSUME IInv, NEW e \in End, Join(e)
  PROVE  Places'
<1> DEFINE c == sock[e]  o == Other(e)
<1>1. /\ c \in Conn /\ o \in End /\ o # e /\ mgr[e].pc = "join" /\ rcv[e].pc = "none"
      /\ half'[c][e] = "closed"
      /\ \/ half'[c][o] = half[c][o]
         \/ half[c][o] \in {"open", "void"} /\ half'[c][o] = "reset"
      /\ \A d \in Conn, f \in End : d # c => half'[d][f] = half[d][f]
      /\ pipe'[c][e] = << >>
      /\ \A d \in Conn, f \in End : d # c \/ f # e => pipe'[d][f] = pipe[d][f]
      /\ sock'[e] = 0 /\ mgr'[e].pc = "open"
      /\ \A f \in End \ {e} : sock'[f] = sock[f] /\ mgr'[f] = mgr[f]
      /\ UNCHANGED <<rcv, backlog>>
  BY JoinStep
<1>c. c = sock[e] OBVIOUS
<1> HIDE DEF c, o
<1>2. ClientPlace /\ ServerPlace /\ ConnPlace BY DEF IInv, Places
<1>3. c # 0 /\ \A d \in Conn : d # 0 /\ d \in Nat BY <1>1, Ends
<1>4. half[c]["client"] # "none" /\ half[c]["server"] # "none"
  <2>1. half[c]["client"] # "none" BY <1>1, <1>2, <1>3, <1>c, Ends DEF ClientPlace, ServerPlace
  <2> QED BY <1>1, <1>2, <2>1 DEF ConnPlace
<1>5. ASSUME NEW d \in Conn, NEW f \in End
      PROVE  /\ half'[d][f] = "none" <=> half[d][f] = "none"
             /\ f # e => (half'[d][f] \notin {"none", "closed"} <=> half[d][f] \notin {"none", "closed"})
             /\ pipe'[d][f] # << >> => pipe[d][f] # << >>
             /\ d # c => half'[d][f] = half[d][f]
             /\ f # e => pipe'[d][f] = pipe[d][f]
  <2>1. f = e \/ f = o BY <1>1, Ends
  <2>2. half[c][f] # "none" BY <1>4, Ends
  <2>3. CASE d # c BY <1>1, <2>3
  <2>4. CASE d = c /\ f = e BY <1>1, <2>2, <2>4
  <2>5. CASE d = c /\ f = o BY <1>1, <2>2, <2>5
  <2> QED BY <2>1, <2>3, <2>4, <2>5
<1>6. ASSUME NEW d \in Conn
      PROVE  /\ half'[d]["client"] = "none" <=> half[d]["client"] = "none"
             /\ half'[d]["server"] = "none" <=> half[d]["server"] = "none"
  BY <1>5, Ends
<1>7. CASE e = "client"
  <2>1. ASSUME NEW d \in Conn
        PROVE  half'[d]["client"] \in {"none", "closed"} /\ pipe'[d]["client"] = << >>
    <3>1. CASE d = c BY <1>1, <1>7, <3>1
    <3>2. CASE d # c
      <4>1. half[d]["client"] \in {"none", "closed"} /\ pipe[d]["client"] = << >>
        BY <1>2, <1>7, <1>c, <3>2 DEF ClientPlace
      <4> QED BY <1>1, <1>7, <3>2, <4>1
    <3> QED BY <3>1, <3>2
  <2>2. ClientPlace' BY <1>1, <1>3, <1>7, <2>1 DEF ClientPlace
  <2>3. "server" \in End \ {e} BY <1>7, Ends
  <2>4. sock'["server"] = sock["server"] /\ mgr'["server"] = mgr["server"] BY <1>1, <2>3
  <2>5. ASSUME NEW d \in Conn
        PROVE  /\ half'[d]["server"] \notin {"none", "closed"} <=> half[d]["server"] \notin {"none", "closed"}
               /\ pipe'[d]["server"] = pipe[d]["server"]
    BY <1>5, <2>3
  <2>6. sock["server"] \in {0} \cup Conn /\ \A i \in DOMAIN backlog : backlog[i] \in Conn
    <3>1. backlog \in Seq(Conn) /\ sock \in [End -> {0} \cup Conn]
      BY TypeParts DEF IInv, ThreadType, WireType
    <3> QED BY <3>1, Ends
  <2>7. ServerPlace' BY <1>1, <1>2, <1>6, <2>4, <2>5, <2>6 DEF ServerPlace
  <2>8. sock'["client"] = 0 BY <1>1, <1>7
  <2>9. ConnPlace'
    <3>1. ASSUME NEW d \in Conn, half'[d]["client"] = "none"
          PROVE  \A f \in End : half'[d][f] = "none" /\ pipe'[d][f] = << >>
      <4>1. \A f \in End : half[d][f] = "none" /\ pipe[d][f] = << >>
        BY <1>2, <1>6, <3>1 DEF ConnPlace
      <4> QED BY <1>5, <4>1
    <3>2. \A d \in Conn : half[d]["client"] # "none" =>
            half[d]["server"] # "none" /\ \A b \in Conn : b < d => half[b]["client"] # "none"
      BY <1>2 DEF ConnPlace
    <3> QED BY <1>6, <2>8, <3>1, <3>2 DEF ConnPlace
  <2> QED BY <2>2, <2>7, <2>9 DEF Places
<1>8. CASE e = "server"
  <2>1. "client" \in End \ {e} BY <1>8, Ends
  <2>2. sock'["client"] = sock["client"] /\ mgr'["client"] = mgr["client"] BY <1>1, <2>1
  <2>3. ASSUME NEW d \in Conn
        PROVE  /\ half'[d]["client"] \notin {"none", "closed"} <=> half[d]["client"] \notin {"none", "closed"}
               /\ pipe'[d]["client"] = pipe[d]["client"]
    BY <1>5, <2>1
  <2>4. ClientPlace' BY <1>1, <1>2, <2>2, <2>3 DEF ClientPlace
  <2>5. sock'["server"] = 0 /\ mgr'["server"].pc = "open" /\ rcv'["server"].pc = "none" BY <1>1, <1>8
  <2>6. \A i \in DOMAIN backlog : backlog[i] \in Conn
    <3>1. backlog \in Seq(Conn) BY TypeParts DEF IInv, WireType
    <3> QED BY <3>1
  <2>7. ASSUME NEW d \in Conn, pipe'[d]["server"] # << >> \/ half'[d]["server"] \notin {"none", "closed"}
        PROVE  \E i \in DOMAIN backlog : d = backlog[i]
    <3>1. d # c BY <1>1, <1>8, <2>7
    <3>2. pipe[d]["server"] # << >> \/ half[d]["server"] \notin {"none", "closed"}
      BY <1>5, <2>7, <3>1, Ends
    <3> QED BY <1>2, <1>8, <1>c, <3>1, <3>2 DEF ServerPlace
  <2>8. \A i \in DOMAIN backlog : /\ half[backlog[i]]["client"] # "none"
                                  /\ \A j \in DOMAIN backlog : i < j => backlog[i] < backlog[j]
    BY <1>2 DEF ServerPlace
  <2>9. \A i \in DOMAIN backlog : half'[backlog[i]]["client"] # "none" /\ 0 < backlog[i]
    BY <1>3, <1>6, <2>6, <2>8
  <2>10. ServerPlace' BY <1>1, <2>5, <2>7, <2>8, <2>9 DEF ServerPlace
  <2>11. ConnPlace'
    <3>1. ASSUME NEW d \in Conn, half'[d]["client"] = "none"
          PROVE  \A f \in End : half'[d][f] = "none" /\ pipe'[d][f] = << >>
      <4>1. \A f \in End : half[d][f] = "none" /\ pipe[d][f] = << >>
        BY <1>2, <1>6, <3>1 DEF ConnPlace
      <4> QED BY <1>5, <4>1
    <3>2. \A d \in Conn : half[d]["client"] # "none" =>
            /\ half[d]["server"] # "none" /\ \A b \in Conn : b < d => half[b]["client"] # "none"
            /\ sock["client"] # 0 => d <= sock["client"]
      BY <1>2 DEF ConnPlace
    <3> QED BY <1>6, <2>2, <3>1, <3>2 DEF ConnPlace
  <2> QED BY <2>4, <2>10, <2>11 DEF Places
<1> QED BY <1>7, <1>8, Ends

\* Closing a connection seals it.
LEMMA JoinInv ==
  ASSUME IInv, NEW e \in End, Join(e)
  PROVE  IInv'
<1> DEFINE c == sock[e]  o == Other(e)
<1>1. TypeOK' BY TypeJoin DEF IInv
<1>2. /\ c \in Conn /\ o \in End /\ o # e /\ Other(o) = e /\ rcv[e].pc = "none"
      /\ half'[c][e] = "closed"
      /\ \A d \in Conn, f \in End : d # c => half'[d][f] = half[d][f]
      /\ pipe \in Pipes /\ pipe' \in Pipes /\ pipe'[c][e] = << >>
      /\ \A d \in Conn, f \in End : d # c \/ f # e => pipe'[d][f] = pipe[d][f]
      /\ mgr'[e].pc = "open"
      /\ \A f \in End \ {e} : sock'[f] = sock[f] /\ mgr'[f] = mgr[f]
      /\ UNCHANGED <<handed, outq, inq, retry, rcv, got, backlog>>
  BY JoinStep
<1> HIDE DEF c, o
<1>3. Places' BY JoinPlaces
<1>4. Shrinks
  <2> SUFFICES ASSUME NEW d \in Conn, NEW f \in End PROVE Part(pipe'[d][f], pipe[d][f])
    BY DEF Shrinks
  <2>1. pipe[d][f] \in Seq(UnitType) BY <1>2 DEF Pipes
  <2>2. pipe'[d][f] = pipe[d][f] \/ pipe'[d][f] = << >> BY <1>2
  <2> QED BY <2>1, <2>2, PartSelf
<1>5. Framed' /\ PipeOrder' /\ OldTails BY <1>2, <1>4, Shrink DEF IInv
<1>6. NewTails(e, FALSE) BY <1>5 DEF NewTails, OldTails
<1>7. SenderOrder' /\ SenderKeeps
  <2>1. \A f \in End : mgr'[f] = mgr[f] \/ mgr'[f].pc # "send" BY <1>2
  <2> QED BY <1>2, <2>1, SenderIdle DEF IInv
<1>8. SameTaken BY <1>2 DEF SameTaken, Taken
<1>9. Ahead' BY <1>6, <1>7, <1>8, AheadKept DEF IInv
<1>10. InOrderOnce' BY <1>8, InOrderKept DEF IInv
<1>11. Reading'
  <2> SUFFICES ASSUME NEW f \in End, NEW d \in Conn, d = sock'[f], pipe'[d][f] # << >>
               PROVE  /\ rcv[f].pc = "data" => pipe'[d][f][1] = Unit("D", rcv[f].msg)
                      /\ rcv[f].pc = "tail" => pipe'[d][f][1] = Unit("T", rcv[f].msg)
    BY <1>2 DEF Reading
  <2>1. CASE f = e BY <1>2, <2>1
  <2>2. CASE f # e
    <3>1. pipe'[d][f] = pipe[d][f] /\ d = sock[f] BY <1>2, <2>2
    <3> QED BY <3>1 DEF IInv, Reading
  <2> QED BY <2>1, <2>2
<1>12. SealedAfterCut'
  <2> SUFFICES ASSUME NEW d \in Conn, NEW f \in End, CutShort(d, f)' PROVE Sealed(d, f)'
    BY DEF SealedAfterCut
  <2>1. CASE d = c
    <3>1. f = e \/ Other(f) = e BY Ends
    <3> QED BY <1>2, <2>1, <3>1 DEF Sealed, Gone
  <2>2. CASE d # c
    <3>1. pipe'[d][f] = pipe[d][f] BY <1>2, <2>2
    <3>2. \/ sock'[f] = sock[f] /\ rcv'[f] = rcv[f]
          \/ rcv'[f].pc \notin {"data", "tail"}
      BY <1>2
    <3>3. CutShort(d, f) BY <3>1, <3>2, CutKept
    <3>4. Sealed(d, f) BY <3>3 DEF IInv, SealedAfterCut
    <3>5. half'[d][f] = half[d][f] /\ half'[d][Other(f)] = half[d][Other(f)]
      BY <1>2, <2>2, Ends
    <3> QED BY <3>4, <3>5 DEF Sealed
  <2> QED BY <2>1, <2>2
<1> QED BY <1>1, <1>3, <1>5, <1>7, <1>9, <1>10, <1>11, <1>12 DEF IInv

-----------------------------------------------------------------------------
\* The invariant is inductive.
LEMMA InvInit == Init => IInv
<1> SUFFICES ASSUME Init PROVE IInv OBVIOUS
<1>1. /\ \A e \in End : /\ handed[e] = 0 /\ outq[e] = << >> /\ inq[e] = << >> /\ retry[e] = << >>
                        /\ mgr[e].pc = "open" /\ rcv[e].pc = "none" /\ sock[e] = 0
                        /\ got[e] = << >>
      /\ \A c \in Conn, e \in End : half[c][e] = "none" /\ pipe[c][e] = << >>
      /\ backlog = << >>
  BY DEF Init
<1>2. DOMAIN << >> = {} /\ Len(<< >>) = 0 OBVIOUS
<1>3. TypeOK
  <2>1. OutLen \in Nat /\ InLen \in Nat BY BoundAssumption
  <2>2. QueueType BY <2>1 DEF Init, QueueType
  <2>3. ThreadType BY DEF Init, ThreadType, MgrThread, RcvThread
  <2>4. WireType BY DEF Init, WireType, Half
  <2> QED BY <2>2, <2>3, <2>4, TypeParts
<1>4. Places
  <2>1. /\ mgr["client"].pc = "open" /\ rcv["client"].pc = "none" /\ sock["client"] = 0
        /\ mgr["server"].pc = "open" /\ rcv["server"].pc = "none" /\ sock["server"] = 0
        /\ \A c \in Conn : /\ c # 0 /\ half[c]["client"] = "none" /\ half[c]["server"] = "none"
                           /\ pipe[c]["client"] = << >> /\ pipe[c]["server"] = << >>
    BY <1>1, Ends
  <2>2. ClientPlace BY <2>1 DEF ClientPlace
  <2>3. ServerPlace BY <1>1, <1>2, <2>1 DEF ServerPlace
  <2>4. ConnPlace BY <1>1, <2>1 DEF ConnPlace
  <2> QED BY <2>2, <2>3, <2>4 DEF Places
<1>5. Framed BY <1>1, <1>2 DEF Framed, InFrames
<1>6. SealedAfterCut BY <1>1 DEF SealedAfterCut, CutShort
<1>7. Reading BY <1>1 DEF Reading
<1>8. \A c \in Conn, e \in End : Tails(c, e) = {} BY <1>1, <1>2 DEF Tails
<1>9. PipeOrder BY <1>8 DEF PipeOrder
<1>10. SenderOrder BY <1>1, <1>2 DEF SenderOrder, InLine
<1>11. \A e \in End : DOMAIN Taken(e) = {}
  <2>1. << >> \o << >> = << >> OBVIOUS
  <2> QED BY <1>1, <1>2, <2>1 DEF Taken
<1>12. Ahead BY <1>8, <1>11 DEF Ahead
<1>13. InOrderOnce BY <1>11, InOrderTaken
<1> QED BY <1>3, <1>4, <1>5, <1>6, <1>7, <1>9, <1>10, <1>12, <1>13 DEF IInv

LEMMA InvIdle == ASSUME IInv, UNCHANGED vars PROVE IInv'
<1>1. /\ UNCHANGED <<half, pipe, sock, rcv, backlog, got, inq, handed, outq, retry, mgr>>
      /\ TypeOK'
  BY DEF vars, IInv, TypeOK
<1>2. SenderOrder' /\ SenderKeeps BY <1>1, SenderIdle DEF IInv
<1> QED BY <1>1, <1>2, SenderOnly

LEMMA InvStep == IInv /\ [Next]_vars => IInv'
<1> SUFFICES ASSUME IInv, [Next]_vars PROVE IInv' OBVIOUS
<1>1. CASE UNCHANGED vars BY <1>1, InvIdle
<1>2. ASSUME NEW e \in End, SendMessage(e) PROVE IInv' BY <1>2, SendMessageInv
<1>3. ASSUME NEW e \in End, RecvMessage(e) PROVE IInv' BY <1>3, RecvMessageInv
<1>4. ASSUME NEW e \in End, Manager(e) PROVE IInv'
  <2>1. CASE Opens(e) BY <2>1, ConnectInv, AcceptInv DEF Opens
  <2>2. CASE Loop(e) BY <2>2, LoopInv
  <2>3. CASE Take(e) BY <2>3, TakeInv
  <2>4. CASE SendWhole(e) BY <2>4, SendWholeInv
  <2>5. CASE SendFails(e) BY <2>5, SendFailsInv
  <2>6. CASE SendPartial(e) BY <2>6, SendPartialInv
  <2>7. CASE Join(e) BY <2>7, JoinInv
  <2> QED BY <1>4, <2>1, <2>2, <2>3, <2>4, <2>5, <2>6, <2>7 DEF Manager
<1>5. ASSUME NEW e \in End, Receiver(e) PROVE IInv' BY <1>5, ReceiverInv
<1>6. ASSUME NEW c \in Conn, NEW e \in End, Reset(c, e) \/ Break(c, e) PROVE IInv'
  BY <1>6, ResetInv, BreakInv
<1> QED BY <1>1, <1>2, <1>3, <1>4, <1>5, <1>6 DEF Next

\* The queues, the threads and the wire have their types, and the queues never hold
\* more than their limits (OUTGOING_MSG_QUEUE_LEN, INBOUND_MSG_QUEUE_LEN).
THEOREM TypeCorrect == Spec => []TypeOK
<1>1. IInv => TypeOK BY DEF IInv
<1> QED BY InvInit, InvStep, <1>1, PTL DEF Spec

\* Whatever connections are made and lost, the messages an end receives whole are
\* messages of the other end in the order in which they were handed to it, each once:
\* sending again the message that failed neither duplicates nor reorders.
THEOREM InOrder == Spec => []InOrderOnce
<1>1. IInv => InOrderOnce BY DEF IInv
<1> QED BY InvInit, InvStep, <1>1, PTL DEF Spec

-----------------------------------------------------------------------------
\* What e reads and what the other end sends on connection c is not disturbed.
Clear(c, e) == faults[c] = 0 /\ half[c][e] = "open" /\ half[c][Other(e)] = "open"

\* e is in the middle of a message, with so many units of it to come.
Active(c, e) == sock[e] = c /\ rcv[e].pc \in {"data", "tail"}
Rest(c, e) == IF Active(c, e) THEN IF rcv[e].pc = "data" THEN 2 ELSE 1 ELSE 0

\* p is k units without a header, and then the messages of s behind the b-th.
Carries(p, k, s, b) ==
  /\ b <= Len(s) /\ Len(p) = k + 3 * (Len(s) - b)
  /\ \A i \in 1 .. k : p[i].kind # "H"
  /\ \A n \in b + 1 .. Len(s) :
       /\ p[k + 3 * (n - b) - 2] = Unit("H", s[n])
       /\ p[k + 3 * (n - b) - 1] = Unit("D", s[n])
       /\ p[k + 3 * (n - b)] = Unit("T", s[n])

\* b is the beginning of s.
Leads(b, s) == \A n \in 1 .. Len(b) : n <= Len(s) /\ s[n] = b[n]

\* What is on its way to e on connection c, as long as that is clear.
Whole(c, e) ==
  Clear(c, e) =>
    /\ Leads(Begun(c, e), sentOn[c][Other(e)])
    /\ Carries(pipe[c][e], Rest(c, e), sentOn[c][Other(e)], Len(Begun(c, e)))

\* The logs have their types, and are empty for a connection not made yet.
Log == [Conn -> [End -> Seq(Nat)]]
Logs == sentOn \in Log /\ readOn \in Log

Fresh ==
  \A c \in Conn : half[c]["client"] = "none" =>
    \A e \in End : sentOn[c][e] = << >> /\ readOn[c][e] = << >>

LInv == Logs /\ Fresh /\ \A c \in Conn, e \in End : Whole(c, e)

\* e's direction of connection c is left alone.
Left(c, e) ==
  /\ pipe'[c][e] = pipe[c][e] /\ readOn'[c][e] = readOn[c][e]
  /\ sentOn'[c][Other(e)] = sentOn[c][Other(e)]
  /\ Active(c, e)' <=> Active(c, e)
  /\ Active(c, e) => rcv'[e] = rcv[e]

\* A direction that is left alone carries what it carried.
LEMMA WholeKept ==
  ASSUME NEW c \in Conn, NEW e \in End, Whole(c, e), Clear(c, e)' => Clear(c, e), Left(c, e)
  PROVE  Whole(c, e)'
<1>1. CASE ~Clear(c, e)' BY <1>1 DEF Whole
<1>2. CASE Clear(c, e) /\ Clear(c, e)'
  <2>1. Begun(c, e)' = Begun(c, e) BY Zenon DEF Left, Begun, Active
  <2>2. Rest(c, e)' = Rest(c, e) BY DEF Left, Rest
  <2> QED BY <1>2, <2>1, <2>2 DEF Whole, Left
<1> QED BY <1>1, <1>2

\* No direction of any connection that stays clear is touched.
Kept ==
  \A c \in Conn, e \in End : Clear(c, e)' => Clear(c, e) /\ Left(c, e)

\* A step that reads nothing and sends nothing whole preserves the invariant.
LEMMA LInvKept ==
  ASSUME LInv, UNCHANGED <<sentOn, readOn>>, Kept,
         \A c \in Conn : half'[c]["client"] = "none" => half[c]["client"] = "none"
  PROVE  LInv'
<1>1. Logs' BY DEF LInv, Logs
<1>2. Fresh' BY DEF LInv, Fresh
<1>3. ASSUME NEW c \in Conn, NEW e \in End PROVE Whole(c, e)'
  <2>1. Whole(c, e) BY DEF LInv
  <2>2. CASE ~Clear(c, e)' BY <2>2 DEF Whole
  <2>3. CASE Clear(c, e)' BY <2>1, <2>3, WholeKept DEF Kept
  <2> QED BY <2>2, <2>3
<1> QED BY <1>1, <1>2, <1>3 DEF LInv

\* Neither thread of either end reads, sends whole or changes its connection.
LEMMA Aside ==
  ASSUME LInv, UNCHANGED <<rcv, sock, sentOn, readOn>>,
         \A c \in Conn, e \in End : half'[c][e] \in {"none", "open"} => half[c][e] = half'[c][e],
         \A c \in Conn : faults'[c] = 0 =>
            faults[c] = 0 /\ \A e \in End : pipe'[c][e] = pipe[c][e]
  PROVE  LInv'
<1>1. Kept
  <2> SUFFICES ASSUME NEW c \in Conn, NEW e \in End, Clear(c, e)'
               PROVE  Clear(c, e) /\ Left(c, e)
    BY DEF Kept
  <2>1. Clear(c, e) BY Ends DEF Clear
  <2>2. pipe'[c][e] = pipe[c][e] BY DEF Clear
  <2> QED BY <2>1, <2>2 DEF Left, Active
<1> QED BY <1>1, LInvKept, Ends

\* Initially there is no connection.
LEMMA LInit == Init => LInv
<1> SUFFICES ASSUME Init PROVE LInv OBVIOUS
<1>1. Logs /\ Fresh BY DEF Init, Logs, Log, Fresh
<1>2. ASSUME NEW c \in Conn, NEW e \in End PROVE Whole(c, e)
  <2>1. half[c][e] = "none" BY DEF Init
  <2> QED BY <2>1 DEF Whole, Clear
<1> QED BY <1>1, <1>2 DEF LInv

\* Steps that leave the wire alone.
LEMMA LIdle == ASSUME LInv, UNCHANGED vars PROVE LInv'
<1>1. UNCHANGED <<rcv, sock, half, pipe, faults, sentOn, readOn>> BY DEF vars
<1> QED BY <1>1, Aside

\* The tunnel's calls, and the manager between two messages, leave the wire alone too.
LEMMA LQuiet ==
  ASSUME LInv, NEW e \in End, SendMessage(e) \/ RecvMessage(e) \/ Loop(e) \/ Take(e)
  PROVE  LInv'
<1>1. UNCHANGED <<rcv, sock, half, pipe, faults, sentOn, readOn>>
  BY DEF SendMessage, RecvMessage, Loop, Take, mgrUnchanged, wire
<1> QED BY <1>1, Aside

\* An error is reported to an end whose connection has failed.
LEMMA HalfDead ==
  ASSUME TypeOK, NEW c \in Conn, NEW e \in End, NEW x \in Half \ {"none", "open"},
         half' = [half EXCEPT ![c][e] = x]
  PROVE  /\ half'[c][e] = x
         /\ \A d \in Conn, f \in End : half'[d][f] \in {"none", "open"} => half[d][f] = half'[d][f]
<1>1. half \in [Conn -> [End -> Half]] BY TypeParts DEF WireType
<1> DEFINE g == [half EXCEPT ![c][e] = x]
<1>2. g[c][e] = x /\ \A d \in Conn, f \in End : d # c \/ f # e => g[d][f] = half[d][f]
  BY <1>1, Update2
<1>3. half' = g OBVIOUS
<1> HIDE DEF g
<1>4. x # "none" /\ x # "open" OBVIOUS
<1>5. ASSUME NEW d \in Conn, NEW f \in End, half'[d][f] \in {"none", "open"}
      PROVE  half[d][f] = half'[d][f]
  <2>1. CASE d = c /\ f = e BY <1>2, <1>3, <1>4, <1>5, <2>1
  <2>2. CASE d # c \/ f # e BY <1>2, <1>3, <2>2
  <2> QED BY <2>1, <2>2
<1> QED BY <1>2, <1>3, <1>5

\* A send that fails takes nothing of the message, on a connection that has failed.
LEMMA LSendFails ==
  ASSUME IInv, LInv, NEW e \in End, SendFails(e)
  PROVE  LInv'
<1>1. /\ UNCHANGED <<rcv, sock, pipe, faults, sentOn, readOn>>
      /\ half' = [half EXCEPT ![sock[e]][e] = "dead"] /\ mgr[e].pc = "send"
  BY DEF SendFails, SendFailed, Report, mgrUnchanged
<1>2. TypeOK /\ Places BY DEF IInv
<1>3. sock[e] \in Conn BY <1>1, <1>2, OnConn
<1>4. "dead" \in Half \ {"none", "open"} BY DEF Half, Gone
<1>5. \A d \in Conn, f \in End : half'[d][f] \in {"none", "open"} => half[d][f] = half'[d][f]
  BY <1>1, <1>2, <1>3, <1>4, HalfDead
<1> QED BY <1>1, <1>5, Aside

\* A failure is recorded, on its connection only.
LEMMA Failed ==
  ASSUME TypeOK, NEW c \in Conn, Fault(c)
  PROVE  /\ faults'[c] # 0
         /\ \A d \in Conn : d # c => faults'[d] = faults[d]
<1>1. faults \in [Conn -> Nat] BY TypeParts DEF WireType
<1>2. faults' = [faults EXCEPT ![c] = @ + 1] BY FaultStep
<1> QED BY <1>1, <1>2

\* A message is cut only by a failure of the network.
LEMMA LSendPartial ==
  ASSUME IInv, LInv, NEW e \in End, SendPartial(e)
  PROVE  LInv'
<1> DEFINE c == sock[e]  o == Other(e)
<1>1. /\ UNCHANGED <<rcv, sock, sentOn, readOn>>
      /\ half' = [half EXCEPT ![c][e] = "dead"] /\ mgr[e].pc = "send" /\ Fault(c)
      /\ \E part \in {<<Unit("h", mgr[e].buf)>>, <<Unit("H", mgr[e].buf)>>,
                  <<Unit("H", mgr[e].buf), Unit("D", mgr[e].buf)>>} :
           pipe' = [pipe EXCEPT ![c][o] = @ \o part]
  BY DEF SendPartial, SendFailed, Report, mgrUnchanged
<1>2. TypeOK /\ Places BY DEF IInv
<1>3. c \in Conn /\ o \in End BY <1>1, <1>2, OnConn, Ends
<1>4. "dead" \in Half \ {"none", "open"} BY DEF Half, Gone
<1>p. pipe \in [Conn -> [End -> Seq(UnitType)]] BY <1>2, TypeParts DEF WireType
<1> HIDE DEF c, o
<1>5. \A d \in Conn, f \in End : half'[d][f] \in {"none", "open"} => half[d][f] = half'[d][f]
  BY <1>1, <1>2, <1>3, <1>4, HalfDead
<1>6. \A d \in Conn : d # c => \A f \in End : pipe'[d][f] = pipe[d][f]
  BY <1>1, <1>p
<1>7. faults'[c] # 0 /\ \A d \in Conn : d # c => faults'[d] = faults[d]
  BY <1>1, <1>2, <1>3, Failed
<1> QED BY <1>1, <1>5, <1>6, <1>7, Aside

\* A reset that arrives is for a side that has sent in vain.
LEMMA LReset ==
  ASSUME IInv, LInv, NEW c \in Conn, NEW e \in End, Reset(c, e)
  PROVE  LInv'
<1>1. UNCHANGED <<rcv, sock, pipe, faults, sentOn, readOn>> BY DEF Reset, ends
<1>2. PICK x \in {"dead", "reset"} : half' = [half EXCEPT ![c][e] = x] BY DEF Reset
<1>3. x \in Half \ {"none", "open"} BY DEF Half, Gone
<1>4. \A d \in Conn, f \in End : half'[d][f] \in {"none", "open"} => half[d][f] = half'[d][f]
  BY <1>2, <1>3, HalfDead DEF IInv
<1> QED BY <1>1, <1>4, Aside

\* The units that are lost in flight are lost by a failure.
LEMMA LBreak ==
  ASSUME IInv, LInv, NEW c \in Conn, NEW e \in End, Break(c, e)
  PROVE  LInv'
<1>1. /\ UNCHANGED <<rcv, sock, sentOn, readOn>>
      /\ half' = [half EXCEPT ![c][e] = "reset"] /\ Fault(c)
  BY DEF Break, ends
<1>2. "reset" \in Half \ {"none", "open"} BY DEF Half, Gone
<1>3. \A d \in Conn, f \in End : half'[d][f] \in {"none", "open"} => half[d][f] = half'[d][f]
  BY <1>1, <1>2, HalfDead DEF IInv
<1>4. \A d \in Conn, f \in End : d # c => pipe'[d][f] = pipe[d][f]
  BY BreakStep DEF IInv
<1>5. faults'[c] # 0 /\ \A d \in Conn : d # c => faults'[d] = faults[d]
  BY <1>1, Failed DEF IInv
<1> QED BY <1>1, <1>3, <1>4, <1>5, Aside

\* What an end has not read when it closes a connection is read by nobody.
LEMMA LJoin ==
  ASSUME IInv, LInv, NEW e \in End, Join(e)
  PROVE  LInv'
<1> DEFINE c == sock[e]  o == Other(e)
<1>1. /\ c \in Conn /\ o \in End /\ o # e /\ rcv[e].pc = "none"
      /\ half'[c][e] = "closed"
      /\ \/ half'[c][o] = half[c][o]
         \/ half[c][o] \in {"open", "void"} /\ half'[c][o] = "reset"
      /\ \A d \in Conn, f \in End : d # c => half'[d][f] = half[d][f]
      /\ \A d \in Conn, f \in End : d # c \/ f # e => pipe'[d][f] = pipe[d][f]
      /\ \A f \in End \ {e} : sock'[f] = sock[f]
      /\ UNCHANGED rcv
  BY JoinStep
<1>2. UNCHANGED <<faults, sentOn, readOn>> BY DEF Join
<1>o. \A f \in End : f = e \/ f = o BY Ends DEF o, Other
<1> HIDE DEF c, o
<1>3. \A d \in Conn, f \in End : half'[d][f] \in {"none", "open"} => half[d][f] = half'[d][f]
  BY <1>1, <1>o
<1>4. Kept
  <2> SUFFICES ASSUME NEW d \in Conn, NEW f \in End, Clear(d, f)'
               PROVE  Clear(d, f) /\ Left(d, f)
    BY DEF Kept
  <2>1. Clear(d, f) BY <1>2, <1>3, Ends DEF Clear
  <2>2. d # c \/ f # e BY <1>1 DEF Clear
  <2>3. Active(d, f)' <=> Active(d, f) BY <1>1 DEF Active
  <2> QED BY <1>1, <1>2, <2>1, <2>2, <2>3 DEF Left
<1> QED BY <1>2, <1>3, <1>4, LInvKept, Ends

\* A new connection is empty, and resets no other that is open at both ends.
LEMMA LConnect ==
  ASSUME IInv, LInv, Connect
  PROVE  LInv'
<1>1. PICK c \in Conn :
        /\ half[c]["client"] = "none" /\ Connected("client", c)
        /\ sock["client"] = 0
        /\ \A e \in End : half[c][e] = "none" /\ half'[c][e] = "open" /\ pipe[c][e] = << >>
        /\ \A d \in Conn \ {c} : half'[d]["client"] = half[d]["client"]
        /\ \A d \in Conn \ {c} : \/ half'[d]["server"] = half[d]["server"]
                                 \/ half[d]["server"] \in {"open", "void"} /\ half'[d]["server"] = "reset"
  BY Zenon, ConnectStep DEF IInv
<1>2. /\ UNCHANGED <<pipe, faults, sentOn, readOn>>
      /\ sock'["client"] = c /\ rcv'["client"].pc = "header"
      /\ sock'["server"] = sock["server"] /\ rcv'["server"] = rcv["server"]
  <2>1. ThreadType BY TypeParts DEF IInv
  <2> QED BY <1>1, <2>1, Ends DEF Connected, ThreadType, RcvThread
<1>3. sock["server"] # c
  BY <1>1, Ends DEF IInv, Places, ServerPlace
<1>4. \A d \in Conn : half'[d]["client"] = "none" => half[d]["client"] = "none"
  BY <1>1, Ends
<1>5. ASSUME NEW d \in Conn, NEW e \in End, Clear(d, e)', d # c
      PROVE  Clear(d, e) /\ Left(d, e)
  <2>1. \A f \in End : half'[d][f] = "open" => half[d][f] = "open" BY <1>1, <1>5, Ends
  <2>2. Clear(d, e) BY <1>2, <1>5, <2>1, Ends DEF Clear
  <2>3. ~Active(d, "client") /\ ~Active(d, "client")' /\ (Active(d, "server")' <=> Active(d, "server"))
    BY <1>1, <1>2, <1>5, Ends DEF Active
  <2>4. Active(d, e)' <=> Active(d, e) BY <2>3, Ends
  <2>5. Active(d, e) => rcv'[e] = rcv[e] BY <1>2, <2>3, Ends
  <2> QED BY <1>2, <2>2, <2>4, <2>5 DEF Left
<1>6. ASSUME NEW e \in End PROVE Whole(c, e)'
  <2>1. sentOn[c][Other(e)] = << >> /\ readOn[c][e] = << >> BY <1>1, Ends DEF LInv, Fresh
  <2>2. ~Active(c, "client")' /\ ~Active(c, "server")' BY <1>2, <1>3 DEF Active
  <2>3. ~Active(c, e)' BY <2>2, Ends
  <2>4. Begun(c, e)' = << >> BY <1>2, <2>1, <2>3 DEF Begun, Active
  <2>5. Rest(c, e)' = 0 BY <2>3 DEF Rest
  <2>6. Leads(<< >>, << >>) BY DEF Leads
  <2>7. Carries(<< >>, 0, << >>, 0) BY DEF Carries
  <2>8. pipe'[c][e] = << >> /\ sentOn'[c][Other(e)] = << >> BY <1>1, <1>2, <2>1
  <2>9. Len(<< >>) = 0 OBVIOUS
  <2> QED BY <2>4, <2>5, <2>6, <2>7, <2>8, <2>9 DEF Whole
<1>7. ASSUME NEW d \in Conn, NEW e \in End PROVE Whole(d, e)'
  <2>1. Whole(d, e) BY DEF LInv
  <2>2. CASE d = c BY <1>6, <2>2
  <2>3. CASE d # c /\ Clear(d, e)' BY <1>5, <2>1, <2>3, WholeKept
  <2>4. CASE ~Clear(d, e)' BY <2>4 DEF Whole
  <2> QED BY <2>2, <2>3, <2>4
<1>8. Logs' BY <1>2 DEF LInv, Logs
<1>9. Fresh' BY <1>2, <1>4 DEF LInv, Fresh
<1> QED BY <1>7, <1>8, <1>9 DEF LInv

\* The server takes over a connection from which it has read nothing.
LEMMA LAccept ==
  ASSUME IInv, LInv, Accept
  PROVE  LInv'
<1>0. Head(backlog) \in Conn
  <2>1. backlog \in Seq(Conn) /\ backlog # << >> BY TypeParts DEF IInv, WireType, Accept
  <2> QED BY <2>1
<1> DEFINE c == Head(backlog)
<1>1. /\ UNCHANGED <<half, pipe, faults, sentOn, readOn>> /\ mgr["server"].pc = "open"
      /\ sock'["server"] = c /\ rcv'["server"].pc = "header"
      /\ sock'["client"] = sock["client"] /\ rcv'["client"] = rcv["client"]
  <2>1. ThreadType BY TypeParts DEF IInv
  <2> QED BY <2>1, Ends DEF Accept, Connected, ThreadType, RcvThread
<1> HIDE DEF c
<1>2. sock["server"] = 0 BY <1>1 DEF IInv, Places, ServerPlace
<1>3. Kept
  <2> SUFFICES ASSUME NEW d \in Conn, NEW f \in End, Clear(d, f)'
               PROVE  Clear(d, f) /\ Left(d, f)
    BY DEF Kept
  <2>1. Clear(d, f) BY <1>1 DEF Clear
  <2>3. ~Active(d, "server") /\ ~Active(d, "server")' /\ (Active(d, "client")' <=> Active(d, "client"))
    BY <1>1, <1>2, Ends DEF Active
  <2>4. Active(d, f)' <=> Active(d, f) BY <2>3, Ends
  <2>5. Active(d, f) => rcv'[f] = rcv[f] BY <1>1, <2>3, Ends
  <2> QED BY <1>1, <2>1, <2>4, <2>5 DEF Left
<1> QED BY <1>1, <1>3, LInvKept

-----------------------------------------------------------------------------
\* A message sent is added behind those on their way.
LEMMA CarriesMore ==
  ASSUME NEW p \in Seq(UnitType), NEW k \in Nat, NEW s \in Seq(Nat), NEW b \in Nat,
         Carries(p, k, s, b), NEW m \in Nat
  PROVE  Carries(p \o OnWire(m), k, Append(s, m), b)
<1> DEFINE x == OnWire(m)  q == p \o x  t == Append(s, m)
<1>1. /\ x \in Seq(UnitType) /\ Len(x) = 3
      /\ x[1] = Unit("H", m) /\ x[2] = Unit("D", m) /\ x[3] = Unit("T", m)
  BY UnitTypes
<1>2. /\ Len(t) = Len(s) + 1 /\ t[Len(s) + 1] = m /\ Len(s) \in Nat
      /\ \A i \in 1 .. Len(s) : t[i] = s[i]
  OBVIOUS
<1>3. /\ Len(q) = Len(p) + 3 /\ Len(p) \in Nat
      /\ \A i \in 1 .. Len(p) : q[i] = p[i]
      /\ \A i \in Len(p) + 1 .. Len(p) + 3 : q[i] = x[i - Len(p)]
  <2> HIDE DEF x
  <2>1. /\ Len(q) = Len(p) + Len(x)
        /\ \A i \in 1 .. Len(p) + Len(x) : q[i] = IF i <= Len(p) THEN p[i] ELSE x[i - Len(p)]
    BY <1>1, ConcatProperties
  <2> HIDE DEF q
  <2>2. Len(p) \in Nat OBVIOUS
  <2>3. /\ Len(q) = Len(p) + 3
        /\ \A i \in 1 .. Len(p) + 3 : q[i] = IF i <= Len(p) THEN p[i] ELSE x[i - Len(p)]
    BY <1>1, <2>1
  <2>4. \A i \in 1 .. Len(p) : i \in 1 .. Len(p) + 3 /\ i <= Len(p) BY <2>2
  <2>5. \A i \in Len(p) + 1 .. Len(p) + 3 : i \in 1 .. Len(p) + 3 /\ ~(i <= Len(p)) BY <2>2
  <2>6. \A i \in 1 .. Len(p) : q[i] = p[i] BY <2>3, <2>4
  <2>7. \A i \in Len(p) + 1 .. Len(p) + 3 : q[i] = x[i - Len(p)] BY <2>3, <2>5
  <2> QED BY <2>2, <2>3, <2>6, <2>7
<1> HIDE DEF x, q, t
<1>4. q[Len(p) + 1] = x[1] /\ q[Len(p) + 2] = x[2] /\ q[Len(p) + 3] = x[3]
  <2>1. \A j \in 1 .. 3 : Len(p) + j \in Len(p) + 1 .. Len(p) + 3 /\ Len(p) + j - Len(p) = j
    BY <1>3
  <2>2. \A j \in 1 .. 3 : q[Len(p) + j] = x[j] BY <1>3, <2>1
  <2> QED BY <2>2
<1>5. b <= Len(s) /\ Len(p) = k + 3 * (Len(s) - b) BY DEF Carries
<1>6. \A i \in 1 .. k : q[i].kind # "H"
  <2>1. \A i \in 1 .. k : i \in 1 .. Len(p) BY <1>2, <1>3, <1>5
  <2> QED BY <1>3, <2>1 DEF Carries
<1>7. ASSUME NEW n \in b + 1 .. Len(t)
      PROVE  /\ q[k + 3 * (n - b) - 2] = Unit("H", t[n])
             /\ q[k + 3 * (n - b) - 1] = Unit("D", t[n])
             /\ q[k + 3 * (n - b)] = Unit("T", t[n])
  <2>1. CASE n \in b + 1 .. Len(s)
    <3>1. /\ k + 3 * (n - b) - 2 \in 1 .. Len(p) /\ k + 3 * (n - b) - 1 \in 1 .. Len(p)
          /\ k + 3 * (n - b) \in 1 .. Len(p) /\ n \in 1 .. Len(s)
      BY <1>2, <1>3, <1>5, <2>1
    <3>2. t[n] = s[n] BY <1>2, <3>1
    <3> QED BY <1>3, <2>1, <3>1, <3>2 DEF Carries
  <2>2. CASE n = Len(s) + 1
    <3>1. /\ k + 3 * (n - b) - 2 = Len(p) + 1 /\ k + 3 * (n - b) - 1 = Len(p) + 2
          /\ k + 3 * (n - b) = Len(p) + 3
      BY <1>2, <1>3, <1>5, <2>2
    <3> QED BY <1>1, <1>2, <1>4, <2>2, <3>1
  <2> QED BY <1>2, <2>1, <2>2
<1>8. b <= Len(t) /\ Len(q) = k + 3 * (Len(t) - b) BY <1>2, <1>3, <1>5
<1>9. Carries(q, k, t, b) BY <1>6, <1>7, <1>8 DEF Carries
<1> QED BY <1>9 DEF q, t, x

\* A unit read leaves one less, the header of a message begins it.
LEMMA CarriesLess ==
  ASSUME NEW p \in Seq(UnitType), NEW k \in Nat, NEW s \in Seq(Nat), NEW b \in Nat,
         Carries(p, k, s, b), p # << >>
  PROVE  LET q == SubSeq(p, 2, Len(p)) IN
         /\ k > 0 => p[1].kind # "H" /\ Carries(q, k - 1, s, b)
         /\ k = 0 => /\ b + 1 \in 1 .. Len(s) /\ p[1] = Unit("H", s[b + 1])
                     /\ Carries(q, 2, s, b + 1)
<1> DEFINE q == SubSeq(p, 2, Len(p))
<1>1. /\ q \in Seq(UnitType) /\ Len(q) = Len(p) - 1 /\ Len(p) \in Nat /\ Len(p) >= 1
      /\ \A i \in 1 .. Len(q) : q[i] = p[i + 1]
  <2>1. Len(p) \in Nat /\ Len(p) >= 1 OBVIOUS
  <2>2. 1 \in 0 .. Len(p) BY <2>1
  <2> DEFINE r == SubSeq(p, 1 + 1, Len(p))
  <2>3. r \in Seq(UnitType) /\ Len(r) = Len(p) - 1 /\ \A i \in 1 .. Len(r) : r[i] = p[i + 1]
    BY <2>2, CutFront
  <2>4. r = q OBVIOUS
  <2> HIDE DEF r, q
  <2> QED BY <2>1, <2>3, <2>4
<1> HIDE DEF q
<1>2. b <= Len(s) /\ Len(p) = k + 3 * (Len(s) - b) /\ Len(s) \in Nat BY DEF Carries
<1>3. ASSUME k > 0 PROVE p[1].kind # "H" /\ Carries(q, k - 1, s, b)
  <2>1. p[1].kind # "H" BY <1>3 DEF Carries
  <2>2. \A i \in 1 .. k - 1 : q[i].kind # "H"
    <3>1. \A i \in 1 .. k - 1 : i \in 1 .. Len(q) /\ i + 1 \in 1 .. k BY <1>1, <1>2
    <3> QED BY <1>1, <3>1 DEF Carries
  <2>3. ASSUME NEW n \in b + 1 .. Len(s)
        PROVE  /\ q[k - 1 + 3 * (n - b) - 2] = Unit("H", s[n])
               /\ q[k - 1 + 3 * (n - b) - 1] = Unit("D", s[n])
               /\ q[k - 1 + 3 * (n - b)] = Unit("T", s[n])
    <3>1. /\ k - 1 + 3 * (n - b) - 2 \in 1 .. Len(q) /\ k - 1 + 3 * (n - b) - 1 \in 1 .. Len(q)
          /\ k - 1 + 3 * (n - b) \in 1 .. Len(q)
      BY <1>1, <1>2, <1>3
    <3>2. /\ k - 1 + 3 * (n - b) - 2 + 1 = k + 3 * (n - b) - 2
          /\ k - 1 + 3 * (n - b) - 1 + 1 = k + 3 * (n - b) - 1
          /\ k - 1 + 3 * (n - b) + 1 = k + 3 * (n - b)
      BY <1>2
    <3> QED BY <1>1, <3>1, <3>2 DEF Carries
  <2>4. b <= Len(s) /\ Len(q) = k - 1 + 3 * (Len(s) - b) BY <1>1, <1>2
  <2> QED BY <2>1, <2>2, <2>3, <2>4 DEF Carries
<1>4. ASSUME k = 0
      PROVE  b + 1 \in 1 .. Len(s) /\ p[1] = Unit("H", s[b + 1]) /\ Carries(q, 2, s, b + 1)
  <2>1. b + 1 \in 1 .. Len(s) /\ b + 1 \in b + 1 .. Len(s) BY <1>1, <1>2, <1>4
  <2>2. /\ k + 3 * (b + 1 - b) - 2 = 1 /\ k + 3 * (b + 1 - b) - 1 = 2 /\ k + 3 * (b + 1 - b) = 3
    BY <1>4
  <2>3. p[1] = Unit("H", s[b + 1]) /\ p[2] = Unit("D", s[b + 1]) /\ p[3] = Unit("T", s[b + 1])
    <3>1. \A n \in b + 1 .. Len(s) :
             /\ p[k + 3 * (n - b) - 2] = Unit("H", s[n])
             /\ p[k + 3 * (n - b) - 1] = Unit("D", s[n])
             /\ p[k + 3 * (n - b)] = Unit("T", s[n])
      BY DEF Carries
    <3> DEFINE n == b + 1
    <3>2. /\ p[k + 3 * (n - b) - 2] = Unit("H", s[n])
          /\ p[k + 3 * (n - b) - 1] = Unit("D", s[n])
          /\ p[k + 3 * (n - b)] = Unit("T", s[n])
      <4>1. n \in b + 1 .. Len(s) BY <2>1
      <4> HIDE DEF n
      <4> QED BY <3>1, <4>1
    <3>3. k + 3 * (n - b) - 2 = 1 /\ k + 3 * (n - b) - 1 = 2 /\ k + 3 * (n - b) = 3
      BY <2>2
    <3> QED BY <3>2, <3>3
  <2>4. q[1] = p[2] /\ q[2] = p[3] BY <1>1, <1>2, <1>4, <2>1
  <2>5. \A i \in 1 .. 2 : q[i].kind # "H" BY <2>3, <2>4 DEF Unit
  <2>6. ASSUME NEW n \in b + 1 + 1 .. Len(s)
        PROVE  /\ q[2 + 3 * (n - (b + 1)) - 2] = Unit("H", s[n])
               /\ q[2 + 3 * (n - (b + 1)) - 1] = Unit("D", s[n])
               /\ q[2 + 3 * (n - (b + 1))] = Unit("T", s[n])
    <3>1. /\ 2 + 3 * (n - (b + 1)) - 2 \in 1 .. Len(q) /\ 2 + 3 * (n - (b + 1)) - 1 \in 1 .. Len(q)
          /\ 2 + 3 * (n - (b + 1)) \in 1 .. Len(q) /\ n \in b + 1 .. Len(s)
      BY <1>1, <1>2, <1>4
    <3>2. /\ 2 + 3 * (n - (b + 1)) - 2 + 1 = k + 3 * (n - b) - 2
          /\ 2 + 3 * (n - (b + 1)) - 1 + 1 = k + 3 * (n - b) - 1
          /\ 2 + 3 * (n - (b + 1)) + 1 = k + 3 * (n - b)
      BY <1>2, <1>4
    <3> QED BY <1>1, <3>1, <3>2 DEF Carries
  <2>7. b + 1 <= Len(s) /\ Len(q) = 2 + 3 * (Len(s) - (b + 1)) BY <1>1, <1>2, <1>4, <2>1
  <2> QED BY <2>1, <2>3, <2>5, <2>6, <2>7 DEF Carries
<1> QED BY <1>3, <1>4 DEF q

\* What leads leads a longer sequence too.
LEMMA LeadsMore ==
  ASSUME NEW b \in Seq(Nat), NEW s \in Seq(Nat), NEW m \in Nat
  PROVE  /\ Leads(b, s) => Leads(b, Append(s, m))
         /\ Leads(b, s) /\ Len(b) + 1 \in 1 .. Len(s) /\ m = s[Len(b) + 1] =>
              Leads(Append(b, m), s)
BY DEF Leads

\* The sequences of a direction.
LEMMA Sequences ==
  ASSUME TypeOK, Logs, NEW c \in Conn, NEW e \in End
  PROVE  /\ pipe[c][e] \in Seq(UnitType) /\ sentOn[c][Other(e)] \in Seq(Nat)
         /\ readOn[c][e] \in Seq(Nat) /\ Begun(c, e) \in Seq(Nat)
         /\ Rest(c, e) \in Nat /\ rcv[e] \in RcvThread /\ rcv[e].msg \in Nat
<1>1. pipe[c][e] \in Seq(UnitType) BY PipeType
<1>2. sentOn[c][Other(e)] \in Seq(Nat) /\ readOn[c][e] \in Seq(Nat) BY Ends DEF Logs, Log
<1>3. rcv[e] \in RcvThread BY TypeParts DEF ThreadType
<1>4. rcv[e].msg \in Nat BY <1>3 DEF RcvThread
<1>5. Begun(c, e) \in Seq(Nat) BY <1>2, <1>4 DEF Begun
<1> QED BY <1>1, <1>2, <1>3, <1>4, <1>5 DEF Rest

\* A message sent whole is carried behind the others.
LEMMA LSendWhole ==
  ASSUME IInv, LInv, NEW e \in End, SendWhole(e)
  PROVE  LInv'
<1>0. mgr[e].pc = "send" /\ TypeOK /\ Places BY DEF SendWhole, IInv
<1>c. PICK c \in Conn, o \in End, m \in Nat : c = sock[e] /\ o = Other(e) /\ m = mgr[e].buf
  BY <1>0, OnConn, Ends, SenderType
<1>1. /\ UNCHANGED <<rcv, sock, faults, readOn>> /\ mgr[e].pc = "send"
      /\ half[c][e] \in {"open", "void"}
      /\ IF half[c][o] \in Gone
         THEN half' = [half EXCEPT ![c][e] = "void"] /\ UNCHANGED pipe
         ELSE pipe' = [pipe EXCEPT ![c][o] = pipe[c][o] \o OnWire(m)] /\ UNCHANGED half
      /\ sentOn' = [sentOn EXCEPT ![c][e] = Append(sentOn[c][e], m)]
  BY <1>c, Zenon DEF SendWhole, mgrUnchanged
<1>2. TypeOK /\ Places /\ Logs BY DEF IInv, LInv
<1>3. c \in Conn /\ o \in End /\ o # e /\ Other(o) = e /\ m \in Nat
  BY <1>c, Ends
<1>4. /\ sentOn' \in Log /\ sentOn'[c][e] = Append(sentOn[c][e], m)
      /\ \A d \in Conn, f \in End : d # c \/ f # e => sentOn'[d][f] = sentOn[d][f]
  <2> DEFINE y == Append(sentOn[c][e], m)
  <2>1. sentOn \in [Conn -> [End -> Seq(Nat)]] BY <1>2 DEF Logs, Log
  <2>2. y \in Seq(Nat) BY <1>3, <2>1
  <2> HIDE DEF y
  <2> DEFINE g == [sentOn EXCEPT ![c][e] = y]
  <2>3. /\ g \in [Conn -> [End -> Seq(Nat)]] /\ g[c][e] = y
        /\ \A d \in Conn, f \in End : d # c \/ f # e => g[d][f] = sentOn[d][f]
    BY <1>3, <2>1, <2>2, Update2
  <2>4. sentOn' = g BY <1>1 DEF y
  <2> HIDE DEF g
  <2> QED BY <2>3, <2>4 DEF Log, y
<1>5. \A d \in Conn, f \in End :
        /\ half'[d][f] \in {"none", "open"} => half[d][f] = half'[d][f]
        /\ d # c \/ f # o => pipe'[d][f] = pipe[d][f]
        /\ half[c][o] \notin Gone => pipe'[c][o] = pipe[c][o] \o OnWire(m)
  <2>1. CASE half[c][o] \in Gone
    <3>1. "void" \in Half \ {"none", "open"} BY DEF Half, Gone
    <3> QED BY <1>1, <1>2, <1>3, <2>1, <3>1, HalfDead
  <2>2. CASE half[c][o] \notin Gone
    <3> DEFINE y == pipe[c][o] \o OnWire(m)
    <3>1. pipe \in [Conn -> [End -> Seq(UnitType)]] BY <1>2, TypeParts DEF WireType
    <3>2. y \in Seq(UnitType)
      <4>1. pipe[c][o] \in Seq(UnitType) /\ OnWire(m) \in Seq(UnitType)
        BY <1>3, <3>1, UnitTypes
      <4> QED BY <4>1
    <3> HIDE DEF y
    <3> DEFINE g == [pipe EXCEPT ![c][o] = y]
    <3>3. g[c][o] = y /\ \A d \in Conn, f \in End : d # c \/ f # o => g[d][f] = pipe[d][f]
      BY <1>3, <3>1, <3>2, Update2
    <3>4. pipe' = g /\ half' = half BY <1>1, <2>2 DEF y
    <3> HIDE DEF g
    <3> QED BY <2>2, <3>3, <3>4 DEF y
  <2> QED BY <2>1, <2>2
<1>6. \A d \in Conn, f \in End : Clear(d, f)' => Clear(d, f)
  <2> SUFFICES ASSUME NEW d \in Conn, NEW f \in End, Clear(d, f)' PROVE Clear(d, f) OBVIOUS
  <2>1. \A g \in End : half'[d][g] = "open" => half[d][g] = "open" BY <1>5
  <2> QED BY <1>1, <2>1, Ends DEF Clear
<1>7. ASSUME NEW d \in Conn, NEW f \in End, d # c \/ f # o PROVE Whole(d, f)'
  <2>1. d # c \/ Other(f) # e BY <1>3, <1>7, Ends
  <2>2. pipe'[d][f] = pipe[d][f] /\ sentOn'[d][Other(f)] = sentOn[d][Other(f)]
    BY <1>4, <1>5, <1>7, <2>1, Ends
  <2>3. Left(d, f) BY <1>1, <2>2 DEF Left, Active
  <2> QED BY <1>6, <2>3, WholeKept DEF LInv
<1>8. Whole(c, o)'
  <2> SUFFICES ASSUME Clear(c, o)' PROVE Whole(c, o)' BY DEF Whole
  <2> DEFINE b == Begun(c, o)  s == sentOn[c][e]  p == pipe[c][o]  k == Rest(c, o)
  <2>1. Clear(c, o) /\ half[c][o] \notin Gone
    <3>1. Clear(c, o) BY <1>3, <1>6
    <3> QED BY <3>1 DEF Clear, Gone
  <2>2. Leads(b, s) /\ Carries(p, k, s, Len(b)) BY <1>3, <2>1 DEF Whole, LInv
  <2>3. b \in Seq(Nat) /\ s \in Seq(Nat) /\ p \in Seq(UnitType) /\ k \in Nat /\ Len(b) \in Nat
    <3>1. b \in Seq(Nat) /\ s \in Seq(Nat) /\ p \in Seq(UnitType) /\ k \in Nat
      BY <1>2, <1>3, Sequences
    <3> QED BY <3>1
  <2>4. Begun(c, o)' = b /\ Rest(c, o)' = k
    <3>1. Begun(c, o)' = b BY <1>1, Zenon DEF Begun
    <3>2. Rest(c, o)' = k BY <1>1, Zenon DEF Rest, Active
    <3> QED BY <3>1, <3>2
  <2> HIDE DEF b, s, p, k
  <2>5. Leads(b, Append(s, m)) /\ Carries(p \o OnWire(m), k, Append(s, m), Len(b))
    BY <1>3, <2>2, <2>3, LeadsMore, CarriesMore
  <2>6. sentOn'[c][Other(o)] = Append(s, m) /\ pipe'[c][o] = p \o OnWire(m)
    BY <1>3, <1>4, <1>5, <2>1 DEF s, p
  <2> QED BY <2>4, <2>5, <2>6 DEF Whole
<1>9. Logs' BY <1>1, <1>2, <1>4 DEF Logs
<1>10. Fresh'
  <2> SUFFICES ASSUME NEW d \in Conn, half'[d]["client"] = "none", NEW f \in End
               PROVE  sentOn'[d][f] = << >> /\ readOn'[d][f] = << >>
    BY DEF Fresh
  <2>1. half[d]["client"] = "none" BY <1>5, Ends
  <2>2. \A g \in End : half[d][g] = "none" BY <2>1 DEF IInv, Places, ConnPlace
  <2>3. d # c BY <1>1, <2>2
  <2> QED BY <1>1, <1>4, <2>1, <2>3 DEF LInv, Fresh
<1> QED BY <1>7, <1>8, <1>9, <1>10 DEF LInv

-----------------------------------------------------------------------------
\* A receive thread touches its own direction of its own connection only.
LEMMA ReceiverFrame ==
  ASSUME IInv, LInv, NEW e \in End, Receiver(e), NEW c \in Conn, c = sock[e]
  PROVE  /\ UNCHANGED <<sock, sentOn>>
         /\ \A f \in End : f # e => rcv'[f] = rcv[f]
         /\ \A d \in Conn, f \in End : half'[d][f] \in {"none", "open"} => half[d][f] = half'[d][f]
         /\ \A d \in Conn : faults'[d] = 0 => faults[d] = 0
         /\ \A d \in Conn, f \in End : d # c \/ f # e =>
              pipe'[d][f] = pipe[d][f] /\ readOn'[d][f] = readOn[d][f]
         /\ readOn' \in Log
<1>1. UNCHANGED <<sock, sentOn>> BY ReceiverStep DEF IInv, rcvUnchanged
<1>2. PICK k \in 0 .. Len(pipe[c][e]), t \in RcvThread :
        Takes(e, c, k) /\ GoesOn(e, c, k, t) /\ Gives(e, c, k) /\ Reports(e, c)
  BY ReceiverStep DEF IInv
<1>3. \A f \in End : f # e => rcv'[f] = rcv[f]
  <2>1. rcv \in [End -> RcvThread] BY TypeParts DEF IInv, ThreadType
  <2> QED BY <1>2, <2>1 DEF GoesOn
<1>4. \A d \in Conn, f \in End : half'[d][f] \in {"none", "open"} => half[d][f] = half'[d][f]
  <2>1. "dead" \in Half \ {"none", "open"} BY DEF Half, Gone
  <2> QED BY <1>2, <2>1, HalfDead DEF Reports, IInv
<1>5. \A d \in Conn, f \in End : d # c \/ f # e => pipe'[d][f] = pipe[d][f]
  BY <1>2, ReceiverPipes DEF IInv
<1>6. \A d \in Conn : faults'[d] = 0 => faults[d] = 0
  <2>1. UNCHANGED faults \/ Fault(c)
    BY DEF Receiver, RecvHeader, RecvData, RecvTail, RecvStops, RecvHeaderFails, RecvCutHeader,
       RecvDataShort, RecvTailShort, RecvBodyFails, RecvMisread, Starved
  <2>2. Fault(c) => faults'[c] # 0 /\ \A d \in Conn : d # c => faults'[d] = faults[d]
    BY Failed DEF IInv
  <2> QED BY <2>1, <2>2
<1>7. readOn' \in Log /\ \A d \in Conn, f \in End : d # c \/ f # e => readOn'[d][f] = readOn[d][f]
  <2>1. CASE UNCHANGED readOn BY <2>1 DEF LInv, Logs
  <2>2. CASE RecvTail(e)
    <3> DEFINE y == Append(readOn[c][e], rcv[e].msg)
    <3>1. readOn \in [Conn -> [End -> Seq(Nat)]] BY DEF LInv, Logs, Log
    <3>2. y \in Seq(Nat)
      <4>1. readOn[c][e] \in Seq(Nat) /\ rcv[e].msg \in Nat BY Sequences DEF IInv, LInv
      <4> QED BY <4>1
    <3> HIDE DEF y
    <3> DEFINE g == [readOn EXCEPT ![c][e] = y]
    <3>3. /\ g \in [Conn -> [End -> Seq(Nat)]]
          /\ \A d \in Conn, f \in End : d # c \/ f # e => g[d][f] = readOn[d][f]
      BY <3>1, <3>2, Update2
    <3>4. readOn' = g BY <2>2 DEF RecvTail, y
    <3> HIDE DEF g
    <3> QED BY <3>3, <3>4 DEF Log
  <2> QED
    BY <2>1, <2>2 DEF Receiver, RecvHeader, RecvData, RecvStops, RecvHeaderFails, RecvCutHeader,
       RecvDataShort, RecvTailShort, RecvBodyFails, RecvMisread
<1> QED BY <1>1, <1>3, <1>4, <1>5, <1>6, <1>7

\* The next unit is taken off the pipe.
NextUnit(c, e) == pipe[c][e] # << >> /\ pipe'[c][e] = SubSeq(pipe[c][e], 2, Len(pipe[c][e]))

\* What a receive thread may do on a connection that stays clear: read the next unit of
\* what is to come, or stop.
LEMMA ReadsClear ==
  ASSUME IInv, LInv, NEW e \in End, Receiver(e), NEW c \in Conn, c = sock[e],
         Clear(c, e), Clear(c, e)'
  PROVE  \/ /\ rcv[e].pc = "header" /\ NextUnit(c, e) /\ UNCHANGED readOn
            /\ rcv'[e] = [pc |-> "data", msg |-> pipe[c][e][1].msg]
         \/ /\ rcv[e].pc = "data" /\ NextUnit(c, e) /\ UNCHANGED readOn
            /\ rcv'[e].pc = "tail" /\ rcv'[e].msg = rcv[e].msg
         \/ /\ rcv[e].pc = "tail" /\ NextUnit(c, e)
            /\ readOn'[c][e] = Append(readOn[c][e], rcv[e].msg)
            /\ rcv'[e].pc \in {"header", "none"}
         \/ /\ rcv[e].pc = "header" /\ UNCHANGED <<pipe, readOn>> /\ rcv'[e].pc = "none"
<1> DEFINE p == pipe[c][e]
<1>0. /\ rcv \in [End -> RcvThread] /\ pipe \in [Conn -> [End -> Seq(UnitType)]]
      /\ half \in [Conn -> [End -> Half]] /\ readOn \in [Conn -> [End -> Seq(Nat)]]
      /\ p \in Seq(UnitType)
  BY TypeParts DEF IInv, LInv, Logs, Log, ThreadType, WireType
<1>r. ASSUME Reads(e, 1), p # << >> PROVE NextUnit(c, e)
  <2> DEFINE y == SubSeq(p, 2, Len(p))
  <2>1. y \in Seq(UnitType)
    <3>1. Len(p) \in Nat /\ 1 \in 0 .. Len(p) /\ 1 + 1 = 2 BY <1>0, <1>r
    <3>2. SubSeq(p, 1 + 1, Len(p)) \in Seq(UnitType) BY <1>0, <3>1, CutFront
    <3> QED BY <3>1, <3>2
  <2>2. pipe' = [pipe EXCEPT ![c][e] = y] BY <1>r DEF Reads
  <2> HIDE DEF y
  <2>3. pipe'[c][e] = y BY <1>0, <2>1, <2>2, Update2
  <2> QED BY <1>r, <2>3 DEF NextUnit, y
<1>f. ~Fault(c) BY Failed DEF IInv, Clear
<1>h. half'[c][e] # "dead" /\ half[c][e] # "reset" /\ half[c][e] # "dead" /\ half[c][Other(e)] \notin Gone
  BY DEF Clear, Gone
<1>k. CASE rcv[e].pc = "header" /\ p # << >>
  <2>1. /\ rcv[e].pc \notin {"data", "tail"} /\ Carries(p, 0, sentOn[c][Other(e)], Len(Begun(c, e)))
    BY <1>k DEF LInv, Whole, Rest, Active
  <2>2. p[1].kind = "H"
    <3>1. sentOn[c][Other(e)] \in Seq(Nat) /\ Begun(c, e) \in Seq(Nat)
      BY Sequences DEF IInv, LInv
    <3>2. Len(Begun(c, e)) \in Nat BY <3>1
    <3> HIDE DEF p
    <3>3. p[1] = Unit("H", sentOn[c][Other(e)][Len(Begun(c, e)) + 1])
      BY <1>0, <1>k, <2>1, <3>1, <3>2, CarriesLess
    <3> QED BY <3>3 DEF Unit
  <2>3. ~RecvCutHeader(e) /\ ~RecvMisread(e)
    BY <1>f, <2>2 DEF RecvCutHeader, RecvMisread, Incoming
  <2>4. RecvHeader(e) \/ RecvStops(e)
    BY <1>k, <2>3 DEF Receiver, RecvData, RecvTail, RecvHeaderFails, RecvDataShort,
       RecvTailShort, RecvBodyFails, Incoming
  <2>5. CASE RecvHeader(e)
    <3>1. /\ rcv' = [rcv EXCEPT ![e] = [pc |-> "data", msg |-> p[1].msg]]
          /\ Reads(e, 1) /\ UNCHANGED readOn
      BY <2>5 DEF RecvHeader, Incoming
    <3>2. rcv'[e] = [pc |-> "data", msg |-> p[1].msg] BY <1>0, <3>1
    <3> QED BY <1>k, <1>r, <3>1, <3>2
  <2>6. CASE RecvStops(e)
    <3>1. rcv' = [rcv EXCEPT ![e].pc = "none"] /\ UNCHANGED <<pipe, readOn>>
      BY <2>6 DEF RecvStops
    <3>2. rcv'[e].pc = "none" BY <1>0, <3>1 DEF RcvThread
    <3> QED BY <1>k, <3>1, <3>2
  <2> QED BY <2>4, <2>5, <2>6
<1>l. CASE rcv[e].pc = "header" /\ p = << >>
  <2>1. RecvStops(e)
    BY <1>h, <1>l DEF Receiver, RecvHeader, RecvData, RecvTail, RecvHeaderFails, RecvCutHeader,
       RecvDataShort, RecvTailShort, RecvBodyFails, RecvMisread, Incoming
  <2>2. rcv' = [rcv EXCEPT ![e].pc = "none"] /\ UNCHANGED <<pipe, readOn>>
    BY <2>1 DEF RecvStops
  <2>3. rcv'[e].pc = "none" BY <1>0, <2>2 DEF RcvThread
  <2> QED BY <1>l, <2>2, <2>3
<1>s. ~Starved(e) BY <1>f, <1>h DEF Starved
<1>m. CASE rcv[e].pc = "data"
  <2>1. RecvData(e)
    BY <1>h, <1>m, <1>s DEF Receiver, RecvHeader, RecvStops, RecvTail, RecvHeaderFails, RecvCutHeader,
       RecvDataShort, RecvTailShort, RecvBodyFails, RecvMisread, Incoming
  <2>2. /\ p # << >> /\ Reads(e, 1) /\ UNCHANGED readOn /\ rcv' = [rcv EXCEPT ![e].pc = "tail"]
    BY <2>1 DEF RecvData, Incoming
  <2>3. rcv'[e].pc = "tail" /\ rcv'[e].msg = rcv[e].msg BY <1>0, <2>2 DEF RcvThread
  <2> QED BY <1>m, <1>r, <2>2, <2>3
<1>n. CASE rcv[e].pc = "tail"
  <2>1. RecvTail(e)
    BY <1>h, <1>n, <1>s DEF Receiver, RecvHeader, RecvStops, RecvData, RecvHeaderFails, RecvCutHeader,
       RecvDataShort, RecvTailShort, RecvBodyFails, RecvMisread, Incoming
  <2>2. /\ p # << >> /\ Reads(e, 1) /\ rcv' = [rcv EXCEPT ![e] = Onward(e)]
        /\ readOn' = [readOn EXCEPT ![c][e] = Append(readOn[c][e], rcv[e].msg)]
    BY <2>1 DEF RecvTail, Incoming
  <2>3. rcv'[e].pc \in {"header", "none"} BY <1>0, <2>2 DEF Onward
  <2>4. readOn'[c][e] = Append(readOn[c][e], rcv[e].msg)
    <3> DEFINE y == Append(readOn[c][e], rcv[e].msg)
    <3>1. y \in Seq(Nat)
      <4>1. readOn[c][e] \in Seq(Nat) /\ rcv[e].msg \in Nat BY Sequences DEF IInv, LInv
      <4> QED BY <4>1
    <3>2. readOn' = [readOn EXCEPT ![c][e] = y] BY <2>2
    <3> HIDE DEF y
    <3>3. readOn'[c][e] = y BY <1>0, <3>1, <3>2, Update2
    <3> QED BY <3>3 DEF y
  <2> QED BY <1>n, <1>r, <2>2, <2>3, <2>4
<1>o. rcv[e].pc # "none" BY ReceiverStep DEF IInv
<1> QED BY <1>0, <1>k, <1>l, <1>m, <1>n, <1>o DEF RcvThread

\* What is on its way stays the rest of the message being read and whole messages.
LEMMA ReaderWhole ==
  ASSUME IInv, LInv, NEW e \in End, Receiver(e), NEW c \in Conn, c = sock[e],
         Clear(c, e), Clear(c, e)'
  PROVE  Whole(c, e)'
<1> DEFINE b == Begun(c, e)  s == sentOn[c][Other(e)]  p == pipe[c][e]  k == Rest(c, e)
           q == SubSeq(p, 2, Len(p))  r == readOn[c][e]
<1>1. Leads(b, s) /\ Carries(p, k, s, Len(b)) BY DEF LInv, Whole
<1>2. /\ b \in Seq(Nat) /\ s \in Seq(Nat) /\ p \in Seq(UnitType) /\ k \in Nat /\ Len(b) \in Nat
      /\ r \in Seq(Nat) /\ rcv[e].msg \in Nat
  <2>1. /\ b \in Seq(Nat) /\ s \in Seq(Nat) /\ p \in Seq(UnitType) /\ k \in Nat
        /\ r \in Seq(Nat) /\ rcv[e].msg \in Nat
    BY Sequences DEF IInv, LInv
  <2> QED BY <2>1
<1>3. /\ sentOn'[c][Other(e)] = s /\ sock'[e] = c /\ UNCHANGED sock
  BY ReceiverFrame
<1>4. /\ Active(c, e) <=> rcv[e].pc \in {"data", "tail"}
      /\ Active(c, e)' <=> rcv'[e].pc \in {"data", "tail"}
  BY <1>3 DEF Active
<1>5. /\ b = IF rcv[e].pc \in {"data", "tail"} THEN Append(r, rcv[e].msg) ELSE r
      /\ Begun(c, e)' = IF rcv'[e].pc \in {"data", "tail"}
                        THEN Append(readOn'[c][e], rcv'[e].msg) ELSE readOn'[c][e]
  <2>1. b = IF rcv[e].pc \in {"data", "tail"} THEN Append(r, rcv[e].msg) ELSE r
    BY DEF Begun
  <2>2. Begun(c, e)' = IF rcv'[e].pc \in {"data", "tail"}
                        THEN Append(readOn'[c][e], rcv'[e].msg) ELSE readOn'[c][e]
    BY <1>3 DEF Begun
  <2> QED BY <2>1, <2>2
<1>6. p # << >> =>
        /\ k > 0 => Carries(q, k - 1, s, Len(b))
        /\ k = 0 => /\ Len(b) + 1 \in 1 .. Len(s) /\ p[1] = Unit("H", s[Len(b) + 1])
                    /\ Carries(q, 2, s, Len(b) + 1)
  <2> HIDE DEF b, s, p, k
  <2> QED BY <1>1, <1>2, CarriesLess DEF q
<1>7. NextUnit(c, e) <=> p # << >> /\ pipe'[c][e] = q BY DEF NextUnit
<1>w. ASSUME NEW x, NEW n, Begun(c, e)' = x, Rest(c, e)' = n, Leads(x, s), Carries(pipe'[c][e], n, s, Len(x))
      PROVE  Whole(c, e)'
  BY <1>3, <1>w DEF Whole
<1>k. /\ k = IF rcv[e].pc = "data" THEN 2 ELSE IF rcv[e].pc = "tail" THEN 1 ELSE 0
      /\ Rest(c, e)' = IF rcv'[e].pc = "data" THEN 2 ELSE IF rcv'[e].pc = "tail" THEN 1 ELSE 0
  BY <1>4 DEF Rest
<1>c. readOn' = readOn => readOn'[c][e] = r OBVIOUS
<1> HIDE DEF b, s, p, k, q, r
<1>11. CASE /\ rcv[e].pc = "header" /\ NextUnit(c, e) /\ UNCHANGED readOn
            /\ rcv'[e] = [pc |-> "data", msg |-> pipe[c][e][1].msg]
  <2>1. k = 0 /\ b = r BY <1>11, <1>5, <1>k
  <2>2. Len(b) + 1 \in 1 .. Len(s) /\ p[1] = Unit("H", s[Len(b) + 1]) /\ Carries(q, 2, s, Len(b) + 1)
    BY <1>6, <1>7, <1>11, <2>1
  <2> DEFINE m == s[Len(b) + 1]
  <2>3. rcv'[e].pc = "data" /\ rcv'[e].msg = m BY <1>11, <2>2 DEF p, Unit
  <2>4. m \in Nat BY <1>2, <2>2
  <2> DEFINE x == Append(b, m)
  <2>5. Begun(c, e)' = x /\ Rest(c, e)' = 2 BY <1>5, <1>k, <1>c, <1>11, <2>1, <2>3
  <2>6. Leads(x, s) BY <1>1, <1>2, <2>2, <2>4, LeadsMore
  <2>7. Len(x) = Len(b) + 1 BY <1>2, <2>4
  <2>8. Carries(pipe'[c][e], 2, s, Len(x)) BY <1>7, <1>11, <2>2, <2>7
  <2> HIDE DEF x
  <2> QED BY <1>w, <2>5, <2>6, <2>8
<1>12. CASE /\ rcv[e].pc = "data" /\ NextUnit(c, e) /\ UNCHANGED readOn
            /\ rcv'[e].pc = "tail" /\ rcv'[e].msg = rcv[e].msg
  <2>1. k = 2 /\ Begun(c, e)' = b /\ Rest(c, e)' = 1 BY <1>12, <1>5, <1>c, <1>k
  <2>2. Carries(pipe'[c][e], 1, s, Len(b)) BY <1>6, <1>7, <1>12, <2>1
  <2> QED BY <1>1, <1>w, <2>1, <2>2
<1>13. CASE /\ rcv[e].pc = "tail" /\ NextUnit(c, e)
            /\ readOn'[c][e] = Append(readOn[c][e], rcv[e].msg)
            /\ rcv'[e].pc \in {"header", "none"}
  <2>1. k = 1 /\ Begun(c, e)' = b /\ Rest(c, e)' = 0 BY <1>13, <1>5, <1>k DEF r
  <2>2. Carries(pipe'[c][e], 0, s, Len(b)) BY <1>6, <1>7, <1>13, <2>1
  <2> QED BY <1>1, <1>w, <2>1, <2>2
<1>14. CASE rcv[e].pc = "header" /\ UNCHANGED <<pipe, readOn>> /\ rcv'[e].pc = "none"
  <2>1. k = 0 /\ Begun(c, e)' = b /\ Rest(c, e)' = 0 BY <1>14, <1>5, <1>c, <1>k
  <2>2. pipe'[c][e] = p BY <1>14 DEF p
  <2> QED BY <1>1, <1>w, <2>1, <2>2
<1> QED BY <1>11, <1>12, <1>13, <1>14, ReadsClear

\* A receive thread preserves the invariant.
LEMMA LReceiver ==
  ASSUME IInv, LInv, NEW e \in End, Receiver(e)
  PROVE  LInv'
<1>1. PICK c \in Conn : c = sock[e] /\ rcv[e].pc # "none" BY ReceiverStep DEF IInv
<1>2. /\ UNCHANGED <<sock, sentOn>>
      /\ \A f \in End : f # e => rcv'[f] = rcv[f]
      /\ \A d \in Conn, f \in End : half'[d][f] \in {"none", "open"} => half[d][f] = half'[d][f]
      /\ \A d \in Conn : faults'[d] = 0 => faults[d] = 0
      /\ \A d \in Conn, f \in End : d # c \/ f # e =>
           pipe'[d][f] = pipe[d][f] /\ readOn'[d][f] = readOn[d][f]
      /\ readOn' \in Log
  BY <1>1, ReceiverFrame
<1>3. ASSUME NEW d \in Conn, NEW f \in End, Clear(d, f)' PROVE Clear(d, f)
  <2>1. \A g \in End : half'[d][g] = "open" => half[d][g] = "open" BY <1>2
  <2> QED BY <1>2, <1>3, <2>1, Ends DEF Clear
<1>4. ASSUME NEW d \in Conn, NEW f \in End PROVE Whole(d, f)'
  <2>1. CASE ~Clear(d, f)' BY <2>1 DEF Whole
  <2>2. CASE Clear(d, f)' /\ d = c /\ f = e BY <1>1, <1>3, <2>2, ReaderWhole
  <2>3. CASE Clear(d, f)' /\ (d # c \/ f # e)
    <3>1. pipe'[d][f] = pipe[d][f] /\ readOn'[d][f] = readOn[d][f] BY <1>2, <2>3
    <3>2. \/ rcv'[f] = rcv[f]
          \/ ~Active(d, f) /\ ~Active(d, f)'
      BY <1>1, <1>2, <2>3 DEF Active
    <3>3. Left(d, f) BY <1>2, <3>1, <3>2 DEF Left, Active
    <3> QED BY <1>3, <2>3, <3>3, WholeKept DEF LInv
  <2> QED BY <2>1, <2>2, <2>3
<1>5. Logs' BY <1>2 DEF LInv, Logs
<1>6. Fresh'
  <2> SUFFICES ASSUME NEW d \in Conn, half'[d]["client"] = "none", NEW f \in End
               PROVE  sentOn'[d][f] = << >> /\ readOn'[d][f] = << >>
    BY DEF Fresh
  <2>1. half[d]["client"] = "none" BY <1>2, Ends
  <2>2. half[c]["client"] # "none"
    BY <1>1, Ends DEF IInv, Places, ClientPlace, ServerPlace
  <2> QED BY <1>2, <2>1, <2>2 DEF LInv, Fresh
<1> QED BY <1>4, <1>5, <1>6 DEF LInv

\* The invariant is inductive, given IInv.
LEMMA LStep == IInv /\ LInv /\ [Next]_vars => LInv'
<1> SUFFICES ASSUME IInv, LInv, [Next]_vars PROVE LInv' OBVIOUS
<1>1. CASE UNCHANGED vars BY <1>1, LIdle
<1>2. ASSUME NEW e \in End, SendMessage(e) \/ RecvMessage(e) PROVE LInv' BY <1>2, LQuiet
<1>3. ASSUME NEW e \in End, Manager(e) PROVE LInv'
  <2>1. CASE Opens(e) BY <2>1, LConnect, LAccept DEF Opens
  <2>2. CASE Loop(e) \/ Take(e) BY <2>2, LQuiet
  <2>3. CASE SendWhole(e) BY <2>3, LSendWhole
  <2>4. CASE SendFails(e) BY <2>4, LSendFails
  <2>5. CASE SendPartial(e) BY <2>5, LSendPartial
  <2>6. CASE Join(e) BY <2>6, LJoin
  <2> QED BY <1>3, <2>1, <2>2, <2>3, <2>4, <2>5, <2>6 DEF Manager
<1>4. ASSUME NEW e \in End, Receiver(e) PROVE LInv' BY <1>4, LReceiver
<1>5. ASSUME NEW c \in Conn, NEW e \in End, Reset(c, e) \/ Break(c, e) PROVE LInv'
  BY <1>5, LReset, LBreak
<1> QED BY <1>1, <1>2, <1>3, <1>4, <1>5 DEF Next

\* The headers on their way are those of the messages sent and not begun, in order.
LEMMA CarriesHeads ==
  ASSUME NEW p \in Seq(UnitType), NEW k \in Nat, NEW s \in Seq(Nat), NEW b \in Nat,
         Carries(p, k, s, b)
  PROVE  /\ \A i \in b + 1 .. Len(s) :
              /\ k + 3 * (i - b) - 2 \in DOMAIN p
              /\ p[k + 3 * (i - b) - 2].kind = "H" /\ p[k + 3 * (i - b) - 2].msg = s[i]
         /\ \A h \in DOMAIN p : p[h].kind = "H" =>
              \E i \in b + 1 .. Len(s) : h = k + 3 * (i - b) - 2
<1>1. /\ Len(p) \in Nat /\ Len(s) \in Nat /\ DOMAIN p = 1 .. Len(p)
      /\ b <= Len(s) /\ Len(p) = k + 3 * (Len(s) - b)
  BY DEF Carries
<1>2. \A n \in b + 1 .. Len(s) :
        /\ p[k + 3 * (n - b) - 2] = Unit("H", s[n])
        /\ p[k + 3 * (n - b) - 1].kind = "D" /\ p[k + 3 * (n - b)].kind = "T"
  <2> TAKE n \in b + 1 .. Len(s)
  <2>1. /\ p[k + 3 * (n - b) - 2] = Unit("H", s[n])
        /\ p[k + 3 * (n - b) - 1] = Unit("D", s[n]) /\ p[k + 3 * (n - b)] = Unit("T", s[n])
    BY DEF Carries
  <2> QED BY <2>1 DEF Unit
<1>3. ASSUME NEW i \in b + 1 .. Len(s)
      PROVE  /\ k + 3 * (i - b) - 2 \in DOMAIN p
             /\ p[k + 3 * (i - b) - 2].kind = "H" /\ p[k + 3 * (i - b) - 2].msg = s[i]
  <2>1. k + 3 * (i - b) - 2 \in 1 .. Len(p) BY <1>1
  <2>2. p[k + 3 * (i - b) - 2] = Unit("H", s[i]) BY <1>2
  <2> QED BY <1>1, <2>1, <2>2 DEF Unit
<1>4. ASSUME NEW h \in DOMAIN p, p[h].kind = "H"
      PROVE  \E i \in b + 1 .. Len(s) : h = k + 3 * (i - b) - 2
  <2>1. h \in 1 .. Len(p) BY <1>1
  <2>2. h > k
    <3>1. \A i \in 1 .. k : p[i].kind # "H" BY DEF Carries
    <3>2. h \notin 1 .. k BY <1>4, <3>1
    <3> QED BY <2>1, <3>2
  <2>3. PICK x \in Nat, d \in Nat : x = h - k - 1 /\ d = Len(s) - b
    <3>1. h - k - 1 \in Nat /\ Len(s) - b \in Nat BY <1>1, <2>1, <2>2
    <3> QED BY <3>1
  <2>4. x < 3 * d BY <1>1, <2>1, <2>3
  <2>5. PICK y \in Nat : 3 * y <= x /\ x <= 3 * y + 2
    <3>1. x \in Nat OBVIOUS
    <3>2. x \div 3 \in Nat /\ 3 * (x \div 3) <= x /\ x <= 3 * (x \div 3) + 2
      BY ONLY <3>1
    <3> QED BY <3>2
  <2>6. y < d BY ONLY <2>4, <2>5, x \in Nat, y \in Nat, d \in Nat
  <2>7. PICK n \in b + 1 .. Len(s) : n - b = y + 1
    <3>1. b + y + 1 \in b + 1 .. Len(s) /\ b + y + 1 - b = y + 1 BY <1>1, <2>3, <2>6
    <3> QED BY <3>1
  <2>8. h = k + 3 * (n - b) - 2 \/ h = k + 3 * (n - b) - 1 \/ h = k + 3 * (n - b)
    <3>0. h \in Int /\ x = h - k - 1 BY <1>1, <2>1, <2>3
    <3>1. h = x + k + 1 BY ONLY <3>0, x \in Nat, k \in Nat
    <3>2. x = 3 * y \/ x = 3 * y + 1 \/ x = 3 * y + 2 BY ONLY <2>5, x \in Nat, y \in Nat
    <3>3. 3 * (n - b) = 3 * y + 3 BY <2>7
    <3>4. k + (3 * y + 3) - 2 = k + 3 * y + 1 /\ k + (3 * y + 3) - 1 = k + 3 * y + 2
          /\ k + (3 * y + 3) = k + 3 * y + 3 /\ x + k + 1 = k + x + 1
      BY ONLY x \in Nat, k \in Nat, y \in Nat
    <3>5. \/ x + k + 1 = k + (3 * y + 3) - 2 \/ x + k + 1 = k + (3 * y + 3) - 1
          \/ x + k + 1 = k + (3 * y + 3)
      BY ONLY <3>2, <3>4, x \in Nat, k \in Nat, y \in Nat
    <3> QED BY <3>1, <3>3, <3>5
  <2>9. h # k + 3 * (n - b) - 1 /\ h # k + 3 * (n - b)
    <3>1. p[k + 3 * (n - b) - 1].kind = "D" /\ p[k + 3 * (n - b)].kind = "T" BY <1>2
    <3> QED BY <1>4, <3>1
  <2> QED BY <2>8, <2>9
<1> QED BY <1>3, <1>4

\* What leads a sequence is a prefix of it.
LEMMA LeadsPrefix ==
  ASSUME NEW b \in Seq(Nat), NEW s \in Seq(Nat), Leads(b, s)
  PROVE  IsPrefix(b, s)
<1>1. Len(b) \in Nat /\ Len(s) \in Nat /\ DOMAIN b = 1 .. Len(b) OBVIOUS
<1>2. Len(b) <= Len(s)
  <2>1. Len(b) \in 1 .. Len(b) \/ Len(b) = 0 BY <1>1
  <2> QED BY <1>1, <2>1 DEF Leads
<1>3. SubSeq(s, 1, Len(b)) = b
  <2> DEFINE t == SubSeq(s, 1, Len(b))
  <2>1. t \in Seq(Nat) /\ Len(t) = Len(b) /\ \A i \in 1 .. Len(t) : t[i] = s[i]
    BY <1>1, <1>2, CutBack
  <2>2. \A i \in 1 .. Len(b) : t[i] = b[i] BY <2>1 DEF Leads
  <2> HIDE DEF t
  <2>3. t = b BY <2>1, <2>2, SeqEqual
  <2> QED BY <2>3 DEF t
<1> QED BY <1>2, <1>3 DEF IsPrefix

\* The headers ahead are placed every third unit, behind the rest being read.
LEMMA LInvLossless == ASSUME IInv, LInv PROVE Lossless
<1> SUFFICES ASSUME NEW c \in Conn, NEW e \in End,
                    faults[c] = 0, half[c][e] = "open", half[c][Other(e)] = "open"
             PROVE  LET sent == sentOn[c][Other(e)]
                        ahead == Len(Begun(c, e)) + 1 .. Len(sent) IN
                    /\ IsPrefix(Begun(c, e), sent)
                    /\ \E at \in [ahead -> Heads(c, e)] :
                         /\ \A i, j \in ahead : i < j => at[i] < at[j]
                         /\ \A h \in Heads(c, e) : \E i \in ahead : at[i] = h
                         /\ \A i \in ahead : pipe[c][e][at[i]].msg = sent[i]
  BY DEF Lossless
<1> DEFINE b == Begun(c, e)  s == sentOn[c][Other(e)]  p == pipe[c][e]  k == Rest(c, e)
           ahead == Len(b) + 1 .. Len(s)
           at == [i \in ahead |-> k + 3 * (i - Len(b)) - 2]
<1>1. Leads(b, s) /\ Carries(p, k, s, Len(b)) BY DEF LInv, Whole, Clear
<1>2. b \in Seq(Nat) /\ s \in Seq(Nat) /\ p \in Seq(UnitType) /\ k \in Nat
  BY Sequences DEF IInv, LInv
<1>h. Heads(c, e) = {i \in DOMAIN p : p[i].kind = "H"} BY DEF Heads
<1> HIDE DEF b, s, p, k
<1>3. Len(b) \in Nat BY <1>2
<1>4. IsPrefix(b, s) BY <1>1, <1>2, LeadsPrefix
<1>5. /\ \A i \in ahead : /\ k + 3 * (i - Len(b)) - 2 \in Heads(c, e)
                         /\ p[k + 3 * (i - Len(b)) - 2].msg = s[i]
      /\ \A h \in Heads(c, e) : \E i \in ahead : h = k + 3 * (i - Len(b)) - 2
  BY <1>1, <1>2, <1>3, <1>h, CarriesHeads
<1>6. \A i \in ahead : at[i] = k + 3 * (i - Len(b)) - 2 OBVIOUS
<1>7. at \in [ahead -> Heads(c, e)] BY <1>5
<1>8. ASSUME NEW i \in ahead, NEW j \in ahead, i < j PROVE at[i] < at[j]
  <2>1. i \in Int /\ j \in Int BY <1>2, <1>3
  <2>2. k + 3 * (i - Len(b)) - 2 < k + 3 * (j - Len(b)) - 2 BY <1>2, <1>3, <1>8, <2>1
  <2> QED BY <1>6, <2>2
<1>9. \A h \in Heads(c, e) : \E i \in ahead : at[i] = h BY <1>5, <1>6
<1>10. \A i \in ahead : p[at[i]].msg = s[i] BY <1>5, <1>6
<1> HIDE DEF at, ahead
<1>11. \E f \in [ahead -> Heads(c, e)] :
         /\ \A i, j \in ahead : i < j => f[i] < f[j]
         /\ \A h \in Heads(c, e) : \E i \in ahead : f[i] = h
         /\ \A i \in ahead : p[f[i]].msg = s[i]
  BY <1>7, <1>8, <1>9, <1>10
<1> QED BY <1>4, <1>11 DEF b, s, p, ahead

\* On a connection that the network has not failed and that both ends have open, every
\* message sent has been read, or is being read, or is on its way, in order: however
\* often the bearer was lost before, the framing is in step again from the first byte.
THEOREM NothingLost == Spec => []Lossless
<1>1. IInv /\ LInv => Lossless BY LInvLossless
<1> QED BY InvInit, InvStep, LInit, LStep, <1>1, PTL DEF Spec


-----------------------------------------------------------------------------
\* m was handed over, and nothing that the sender still has is before it.
Offered(e, m) ==
  /\ 1 <= m /\ m <= handed[e]
  /\ \A i \in DOMAIN outq[e] : m < outq[e][i]
  /\ retry[e] # << >> => m <= retry[e][1]
  /\ mgr[e].pc = "send" => m <= mgr[e].buf

\* Messages are numbered from 1.
NumbersOf(e) ==
  /\ \A i \in DOMAIN outq[e] : 1 <= outq[e][i]
  /\ retry[e] # << >> => 1 <= retry[e][1]
  /\ mgr[e].pc = "send" => 1 <= mgr[e].buf

Numbered == \A e \in End : NumbersOf(e)

\* The units on their way to e, and whether e is in the middle of a message.
OnWay(e) == UNION {{pipe[c][e][i] : i \in DOMAIN pipe[c][e]} : c \in Conn}
Busy(e) == rcv[e].pc \in {"data", "tail"}

\* The units on their way are of messages in order; after a tail comes another message.
UnitsOffered == \A e \in End : \A u \in OnWay(e) : Offered(Other(e), u.msg)

NotAfter(u, v) == u.msg <= v.msg /\ (u.kind = "T" => u.msg < v.msg)

UnitOrder ==
  \A e \in End : \A c, d \in Conn : \A i \in DOMAIN pipe[c][e], j \in DOMAIN pipe[d][e] :
    Before(c, i, d, j) => NotAfter(pipe[c][e][i], pipe[d][e][j])

\* The message being read is not behind them.
Current(e) == Offered(Other(e), rcv[e].msg) /\ \A u \in OnWay(e) : rcv[e].msg <= u.msg

CurrentOrder == \A e \in End : Busy(e) => Current(e)

\* What was received is before all that, and the same again only after a cut one.
Precedes(r, m) == (r.form = "whole" => r.msg < m) /\ (r.form = "cut" => r.msg <= m)

Behind(e, r) ==
  /\ IF r.form = "garbage" THEN r.msg = 0 ELSE Offered(Other(e), r.msg)
  /\ \A u \in OnWay(e) : Precedes(r, u.msg)
  /\ Busy(e) => Precedes(r, rcv[e].msg)

InTurn(s) ==
  \A n, l \in DOMAIN s : n < l /\ s[l].form # "garbage" => Precedes(s[n], s[l].msg)

TakenOrder ==
  \A e \in End : InTurn(Taken(e)) /\ \A n \in DOMAIN Taken(e) : Behind(e, Taken(e)[n])

CInv == Numbered /\ UnitsOffered /\ UnitOrder /\ CurrentOrder /\ TakenOrder

LEMMA OnWayIs ==
  ASSUME NEW e \in End
  PROVE  \A u : u \in OnWay(e) <=> \E c \in Conn : \E i \in DOMAIN pipe[c][e] : u = pipe[c][e][i]
BY DEF OnWay

\* The units on their way, and what was received, have numbers.
LEMMA Numbers ==
  ASSUME TypeOK, NEW e \in End
  PROVE  /\ \A u \in OnWay(e) : u \in UnitType /\ u.msg \in Nat
         /\ rcv[e].msg \in Nat /\ mgr[e].buf \in Nat
         /\ \A n \in DOMAIN Taken(e) : Taken(e)[n] \in Received /\ Taken(e)[n].msg \in Nat
<1>1. ASSUME NEW u \in OnWay(e) PROVE u \in UnitType
  <2>1. PICK c \in Conn : \E i \in DOMAIN pipe[c][e] : u = pipe[c][e][i] BY OnWayIs
  <2>2. pipe[c][e] \in Seq(UnitType) BY PipeType
  <2> QED BY <2>1, <2>2
<1>2. rcv[e].msg \in Nat BY TypeParts DEF ThreadType, RcvThread
<1>3. \A n \in DOMAIN Taken(e) : Taken(e)[n] \in Received
  <2> DEFINE s == Taken(e)
  <2>1. s \in Seq(Received) BY TakenType
  <2> HIDE DEF s
  <2>2. \A n \in DOMAIN s : s[n] \in Received BY <2>1
  <2> QED BY <2>2 DEF s
<1> QED BY <1>1, <1>2, <1>3, SenderType, TakenType DEF UnitType

-----------------------------------------------------------------------------
\* What was offered stays so.
OfferKeeps == \A e \in End, m \in Nat : Offered(e, m) => Offered(e, m)'

LEMMA OfferIdle ==
  ASSUME Numbered, UNCHANGED <<handed, outq, retry>>,
         \A e \in End : mgr'[e] = mgr[e] \/ mgr'[e].pc # "send"
  PROVE  Numbered' /\ OfferKeeps
<1>1. Numbered' BY DEF Numbered, NumbersOf
<1>2. OfferKeeps BY DEF OfferKeeps, Offered
<1> QED BY <1>1, <1>2

\* An end whose queues and manager did not move.
LEMMA OfferElse ==
  ASSUME NEW d \in End, NumbersOf(d), handed'[d] = handed[d], outq'[d] = outq[d],
         retry'[d] = retry[d], mgr'[d] = mgr[d]
  PROVE  NumbersOf(d)' /\ \A m \in Nat : Offered(d, m) => Offered(d, m)'
BY DEF NumbersOf, Offered

\* What is pushed to a queue is its last.
LEMMA PushedLast ==
  ASSUME NEW q \in Seq(Nat), NEW x \in Nat
  PROVE  \A i \in DOMAIN Append(q, x) :
           (i \in DOMAIN q /\ Append(q, x)[i] = q[i]) \/ Append(q, x)[i] = x
<1> DEFINE r == Append(q, x)
<1>1. /\ DOMAIN r = 1 .. Len(q) + 1 /\ DOMAIN q = 1 .. Len(q) /\ Len(q) \in Nat
      /\ r[Len(q) + 1] = x /\ \A i \in 1 .. Len(q) : r[i] = q[i]
  OBVIOUS
<1> HIDE DEF r
<1>2. \A i \in 1 .. Len(q) + 1 : i \in 1 .. Len(q) \/ i = Len(q) + 1 BY <1>1
<1>3. \A i \in DOMAIN r : (i \in DOMAIN q /\ r[i] = q[i]) \/ r[i] = x BY <1>1, <1>2
<1> QED BY <1>3 DEF r

\* A new message has the next number.
LEMMA OfferHanded ==
  ASSUME TypeOK, Numbered, NEW e \in End, SendMessage(e)
  PROVE  Numbered' /\ OfferKeeps
<1> DEFINE h == handed[e]  q == outq[e]
<1>1. h \in Nat /\ q \in Seq(Nat) /\ handed \in [End -> Nat] /\ outq \in [End -> Seq(Nat)]
  BY SenderType
<1>2. /\ handed' = [handed EXCEPT ![e] = h + 1] /\ UNCHANGED <<retry, mgr>>
      /\ outq' = [outq EXCEPT ![e] = Push(q, OutLen, h + 1)]
  BY DEF SendMessage
<1>3. handed'[e] = h + 1 /\ (outq'[e] = q \/ outq'[e] = Append(q, h + 1))
      /\ \A d \in End \ {e} : handed'[d] = handed[d] /\ outq'[d] = outq[d]
  BY <1>1, <1>2 DEF Push
<1> HIDE DEF h, q
<1>4. \A i \in DOMAIN outq'[e] : (i \in DOMAIN q /\ outq'[e][i] = q[i]) \/ outq'[e][i] = h + 1
  <2> DEFINE x == h + 1
  <2>1. x \in Nat BY <1>1
  <2>2. outq'[e] = q \/ outq'[e] = Append(q, x) BY <1>3
  <2> HIDE DEF x
  <2>3. \A i \in DOMAIN Append(q, x) :
          (i \in DOMAIN q /\ Append(q, x)[i] = q[i]) \/ Append(q, x)[i] = x
    BY <1>1, <2>1, PushedLast
  <2>4. CASE outq'[e] = q BY <2>4
  <2>5. CASE outq'[e] = Append(q, x) BY <2>3, <2>5, Zenon DEF x
  <2> QED BY <2>2, <2>4, <2>5
<1>5. NumbersOf(e)' /\ \A m \in Nat : Offered(e, m) => Offered(e, m)'
  <2>1. NumbersOf(e) BY DEF Numbered
  <2>2. \A i \in DOMAIN outq'[e] : 1 <= outq'[e][i]
    <3>1. \A i \in DOMAIN q : 1 <= q[i] BY <2>1 DEF NumbersOf, q
    <3>2. 1 <= h + 1 BY <1>1
    <3> QED BY <1>4, <3>1, <3>2
  <2>3. NumbersOf(e)' BY <1>2, <2>1, <2>2 DEF NumbersOf
  <2>4. ASSUME NEW m \in Nat, Offered(e, m) PROVE Offered(e, m)'
    <3>1. m <= h /\ \A i \in DOMAIN q : m < q[i] BY <2>4 DEF Offered, h, q
    <3>2. m <= h + 1 /\ \A i \in DOMAIN outq'[e] : m < outq'[e][i]
      BY <1>1, <1>4, <3>1, BehindAll
    <3> QED BY <1>2, <1>3, <2>4, <3>2 DEF Offered
  <2> QED BY <2>3, <2>4
<1>6. \A d \in End \ {e} : NumbersOf(d)' /\ \A m \in Nat : Offered(d, m) => Offered(d, m)'
  BY <1>2, <1>3, OfferElse DEF Numbered
<1> QED BY <1>5, <1>6 DEF Numbered, OfferKeeps

\* What the manager takes is the first of what is left.
LEMMA OfferTakes ==
  ASSUME TypeOK, Numbered, NEW e \in End, Take(e)
  PROVE  Numbered' /\ OfferKeeps
<1>1. /\ outq[e] \in Seq(Nat) /\ retry[e] \in Seq(Nat)
      /\ mgr \in [End -> MgrThread] /\ outq \in [End -> Seq(Nat)]
  BY SenderType
<1>2. UNCHANGED <<handed, retry>> BY DEF Take, mgrUnchanged
<1>3. CASE UNCHANGED outq /\ mgr'[e].pc # "send" /\ \A d \in End \ {e} : mgr'[d] = mgr[d]
  BY <1>2, <1>3, OfferIdle
<1>4. CASE retry[e] # << >> /\ UNCHANGED outq
           /\ mgr' = [mgr EXCEPT ![e] = [pc |-> "send", buf |-> Head(retry[e])]]
  <2>1. mgr'[e] = [pc |-> "send", buf |-> retry[e][1]] /\ \A d \in End \ {e} : mgr'[d] = mgr[d]
    BY <1>1, <1>4
  <2>2. Numbered' BY <1>2, <1>4, <2>1 DEF Numbered, NumbersOf
  <2>3. OfferKeeps BY <1>2, <1>4, <2>1 DEF OfferKeeps, Offered
  <2> QED BY <2>2, <2>3
<1>5. CASE /\ retry[e] = << >> /\ outq[e] # << >>
           /\ mgr' = [mgr EXCEPT ![e] = [pc |-> "send", buf |-> Head(outq[e])]]
           /\ outq' = [outq EXCEPT ![e] = Tail(outq[e])]
  <2> DEFINE q == outq[e]  t == Tail(q)
  <2>1. /\ mgr'[e] = [pc |-> "send", buf |-> q[1]] /\ outq'[e] = t
        /\ \A d \in End \ {e} : mgr'[d] = mgr[d] /\ outq'[d] = outq[d]
    BY <1>1, <1>5
  <2>2. 1 \in DOMAIN q /\ \A i \in DOMAIN t : i + 1 \in DOMAIN q /\ t[i] = q[i + 1]
    BY <1>1, <1>5
  <2>3. handed'[e] = handed[e] /\ retry'[e] = << >> BY <1>2, <1>5
  <2> HIDE DEF t
  <2>4. NumbersOf(e)'
    <3>1. \A i \in DOMAIN q : 1 <= q[i] BY DEF Numbered, NumbersOf
    <3>2. 1 <= q[1] /\ \A i \in DOMAIN t : 1 <= t[i] BY <2>2, <3>1
    <3> QED BY <2>1, <2>3, <3>2 DEF NumbersOf
  <2>5. ASSUME NEW m \in Nat, Offered(e, m) PROVE Offered(e, m)'
    <3>1. \A i \in DOMAIN q : m < q[i] BY <2>5 DEF Offered
    <3>2. m < q[1] /\ \A i \in DOMAIN t : m < t[i] BY <2>2, <3>1
    <3>3. q[1] \in Nat BY <1>1, <2>2
    <3> HIDE DEF q
    <3>4. m <= q[1] BY <3>2, <3>3
    <3> QED BY <2>1, <2>3, <2>5, <3>2, <3>4 DEF Offered
  <2>6. \A d \in End \ {e} : NumbersOf(d)' /\ \A m \in Nat : Offered(d, m) => Offered(d, m)'
    BY <1>2, <2>1, OfferElse DEF Numbered
  <2> QED BY <2>4, <2>5, <2>6 DEF Numbered, OfferKeeps
<1>6. CASE /\ retry[e] = << >> /\ outq[e] = << >> /\ UNCHANGED outq
           /\ mgr' = [mgr EXCEPT ![e].pc = IF connected[e] THEN "loop" ELSE "join"]
  <2>1. mgr'[e].pc # "send" /\ \A d \in End \ {e} : mgr'[d] = mgr[d] BY <1>1, <1>6 DEF MgrThread
  <2> QED BY <1>3, <1>6, <2>1
<1> QED BY <1>4, <1>5, <1>6 DEF Take

\* A message that was sent, or that failed, is offered.
LEMMA OfferSent ==
  ASSUME TypeOK, SenderOrder, Numbered, NEW e \in End, mgr[e].pc = "send",
         SendWhole(e) \/ SendFailed(e)
  PROVE  Numbered' /\ OfferKeeps /\ \A m \in Nat : m = mgr[e].buf => Offered(e, m)'
<1>1. /\ UNCHANGED <<handed, outq>>
      /\ \/ /\ retry' = [retry EXCEPT ![e] = << >>]
            /\ mgr' = [mgr EXCEPT ![e] = [pc |-> "loop", buf |-> 0]]
         \/ /\ retry' = [retry EXCEPT ![e] = <<mgr[e].buf>>]
            /\ mgr' = [mgr EXCEPT ![e] = [pc |-> "join", buf |-> 0]]
  BY DEF SendWhole, SendFailed, mgrUnchanged
<1>2. /\ mgr'[e].pc # "send" /\ (retry'[e] = << >> \/ retry'[e] = <<mgr[e].buf>>)
      /\ \A d \in End \ {e} : retry'[d] = retry[d] /\ mgr'[d] = mgr[d]
  BY <1>1, SenderType
<1>3. mgr[e].buf \in Nat BY SenderType
<1>4. Numbered' BY <1>1, <1>2 DEF Numbered, NumbersOf
<1>5. OfferKeeps BY <1>1, <1>2 DEF OfferKeeps, Offered
<1>6. \A m \in Nat : m = mgr[e].buf => Offered(e, m)'
  BY <1>1, <1>2 DEF SenderOrder, InLine, Numbered, NumbersOf, Offered
<1> QED BY <1>4, <1>5, <1>6
-----------------------------------------------------------------------------
\* What is on its way was on its way before, or is what e was about to send.
NewUnits(e, b) ==
  \A f \in End : \A u \in OnWay(f)' :
    u \in OnWay(f) \/ (b /\ f = Other(e) /\ u.msg = mgr[e].buf)

\* When no message begins to be read and none is delivered, it is enough that the units
\* are in order.
LEMMA CKept ==
  ASSUME IInv, CInv, TypeOK', Numbered', OfferKeeps, UnitOrder', SameTaken,
         NEW e \in End, NEW b \in BOOLEAN, NewUnits(e, b),
         b => mgr[e].pc = "send" /\ \A m \in Nat : m = mgr[e].buf => Offered(e, m)',
         \A f \in End : rcv'[f] = rcv[f] \/ rcv'[f].pc \notin {"data", "tail"}
  PROVE  CInv'
<1> DEFINE m == mgr[e].buf
<1>1. TypeOK /\ Ahead /\ UnitsOffered /\ CurrentOrder /\ TakenOrder BY DEF IInv, CInv
<1>2. m \in Nat /\ \A f \in End : f = Other(e) => Other(f) = e BY <1>1, Numbers, Ends
<1>k. ASSUME NEW f \in End, NEW n \in Nat, Offered(Other(f), n)
      PROVE  Offered(Other(f), n)'
  <2>1. Other(f) \in End BY Ends
  <2> QED BY <1>k, <2>1 DEF OfferKeeps
<1>3. ASSUME NEW f \in End, NEW u \in OnWay(f)'
      PROVE  Offered(Other(f), u.msg)'
  <2>1. CASE u \in OnWay(f)
    <3>1. u.msg \in Nat /\ Offered(Other(f), u.msg) BY <1>1, <2>1, Numbers DEF UnitsOffered
    <3> QED BY <1>k, <3>1
  <2>2. CASE b /\ f = Other(e) /\ u.msg = m
    <3>1. Other(f) = e /\ \A n \in Nat : n = m => Offered(e, n)' BY <1>2, <2>2
    <3> QED BY <1>2, <2>2, <3>1 DEF Offered
  <2> QED BY <2>1, <2>2 DEF NewUnits
<1>4. ASSUME NEW f \in End, Busy(f)'
      PROVE  Current(f)' /\ rcv'[f] = rcv[f] /\ Busy(f)
  <2>1. rcv'[f] = rcv[f] /\ Busy(f) BY <1>4 DEF Busy
  <2>2. PICK n \in Nat : n = rcv[f].msg BY <1>1, Numbers
  <2>3. Offered(Other(f), n) /\ \A u \in OnWay(f) : n <= u.msg
    BY <1>1, <2>1, <2>2 DEF CurrentOrder, Current
  <2>4. Offered(Other(f), n)' BY <1>k, <2>3
  <2>5. ASSUME NEW u \in OnWay(f)' PROVE n <= u.msg
    <3>1. CASE u \in OnWay(f) BY <2>3, <3>1
    <3>2. CASE b /\ f = Other(e) /\ u.msg = m BY <1>2, <2>3, <3>2 DEF Offered
    <3> QED BY <3>1, <3>2 DEF NewUnits
  <2> QED BY <2>1, <2>2, <2>4, <2>5 DEF Current, Offered
<1>5. ASSUME NEW f \in End, NEW r \in Received, Behind(f, r),
             r.form = "whole" => Sent(Other(f), r.msg)
      PROVE  Behind(f, r)'
  <2>1. r.msg \in Nat BY DEF Received
  <2>2. IF r.form = "garbage" THEN r.msg = 0 ELSE Offered(Other(f), r.msg)'
    BY <1>5, <1>k, <2>1 DEF Behind
  <2>3. ASSUME NEW u \in OnWay(f)' PROVE Precedes(r, u.msg)
    <3>1. CASE u \in OnWay(f) BY <1>5, <3>1 DEF Behind
    <3>2. CASE b /\ f = Other(e) /\ u.msg = m
      <4>1. r.form = "whole" => r.msg < m BY <1>2, <1>5, <3>2 DEF Sent
      <4>2. r.form = "cut" => r.msg <= m BY <1>2, <1>5, <3>2 DEF Behind, Offered
      <4> QED BY <3>2, <4>1, <4>2 DEF Precedes
    <3> QED BY <3>1, <3>2 DEF NewUnits
  <2>4. Busy(f)' => Precedes(r, rcv'[f].msg) BY <1>4, <1>5 DEF Behind
  <2> QED BY <2>2, <2>3, <2>4 DEF Behind
<1>6. ASSUME NEW f \in End
      PROVE  InTurn(Taken(f))' /\ \A n \in DOMAIN Taken(f)' : Behind(f, Taken(f)[n])'
  <2>1. Taken(f)' = Taken(f) /\ InTurn(Taken(f)) BY <1>1 DEF SameTaken, TakenOrder
  <2>2. InTurn(Taken(f))' BY <2>1 DEF InTurn
  <2>3. ASSUME NEW n \in DOMAIN Taken(f) PROVE Behind(f, Taken(f)[n])'
    <3>1. PICK r \in Received : r = Taken(f)[n] BY <1>1, Numbers
    <3>2. Behind(f, r) /\ (r.form = "whole" => Sent(Other(f), r.msg))
      BY <1>1, <3>1 DEF TakenOrder, Ahead
    <3>3. Behind(f, r)' BY <1>5, <3>2
    <3> QED BY <2>1, <3>1, <3>3 DEF Behind
  <2> QED BY <2>1, <2>2, <2>3
<1> QED BY <1>3, <1>4, <1>6 DEF CInv, UnitsOffered, CurrentOrder, TakenOrder

\* When units only leave the pipes, they stay in order.
LEMMA ShrinkUnits ==
  ASSUME pipe \in Pipes, pipe' \in Pipes, Shrinks, UnitOrder
  PROVE  UnitOrder' /\ \A f \in End : OnWay(f)' \subseteq OnWay(f)
<1>1. ASSUME NEW c \in Conn, NEW e \in End
      PROVE  \E a \in Nat : \A j \in DOMAIN pipe'[c][e] :
               j \in Nat /\ j + a \in DOMAIN pipe[c][e] /\ pipe'[c][e][j] = pipe[c][e][j + a]
  <2>1. pipe[c][e] \in Seq(UnitType) /\ pipe'[c][e] \in Seq(UnitType) BY DEF Pipes
  <2>2. PICK a \in Nat : /\ Len(pipe'[c][e]) + a <= Len(pipe[c][e])
                         /\ \A i \in 1 .. Len(pipe'[c][e]) : pipe'[c][e][i] = pipe[c][e][i + a]
    BY DEF Shrinks, Part
  <2>3. ASSUME NEW j \in DOMAIN pipe'[c][e]
        PROVE  j \in Nat /\ j + a \in DOMAIN pipe[c][e] /\ pipe'[c][e][j] = pipe[c][e][j + a]
    <3>1. j \in 1 .. Len(pipe'[c][e]) /\ Len(pipe'[c][e]) \in Nat /\ Len(pipe[c][e]) \in Nat
          /\ DOMAIN pipe[c][e] = 1 .. Len(pipe[c][e])
      BY <2>1
    <3>2. Len(pipe'[c][e]) + a <= Len(pipe[c][e]) /\ a \in Nat BY <2>2
    <3>3. j + a \in 1 .. Len(pipe[c][e]) BY ONLY <3>1, <3>2
    <3>4. pipe'[c][e][j] = pipe[c][e][j + a] BY <2>2, <3>1
    <3> QED BY <3>1, <3>3, <3>4
  <2> QED BY <2>3
<1>2. ASSUME NEW e \in End, NEW c \in Conn, NEW d \in Conn,
             NEW i \in DOMAIN pipe'[c][e], NEW j \in DOMAIN pipe'[d][e], Before(c, i, d, j)
      PROVE  NotAfter(pipe'[c][e][i], pipe'[d][e][j])
  <2>1. PICK a \in Nat : \A n \in DOMAIN pipe'[c][e] :
          n \in Nat /\ n + a \in DOMAIN pipe[c][e] /\ pipe'[c][e][n] = pipe[c][e][n + a]
    BY <1>1
  <2>2. PICK b \in Nat : \A n \in DOMAIN pipe'[d][e] :
          n \in Nat /\ n + b \in DOMAIN pipe[d][e] /\ pipe'[d][e][n] = pipe[d][e][n + b]
    BY <1>1
  <2>3. CASE c < d
    <3>1. Before(c, i + a, d, j + b) BY <2>3 DEF Before
    <3> QED BY <2>1, <2>2, <3>1 DEF UnitOrder
  <2>4. CASE c = d /\ i < j
    <3>1. j + a \in DOMAIN pipe[d][e] /\ pipe'[d][e][j] = pipe[d][e][j + a] /\ i + a < j + a
      BY <2>1, <2>4
    <3>2. Before(c, i + a, d, j + a) BY <2>4, <3>1 DEF Before
    <3> QED BY <2>1, <3>1, <3>2 DEF UnitOrder
  <2> QED BY <1>2, <2>3, <2>4 DEF Before
<1>3. UnitOrder' BY <1>2 DEF UnitOrder, Before
<1>4. ASSUME NEW f \in End, NEW u \in OnWay(f)' PROVE u \in OnWay(f)
  <2>1. PICK c \in Conn : \E i \in DOMAIN pipe'[c][f] : u = pipe'[c][f][i] BY DEF OnWay
  <2>2. \E i \in DOMAIN pipe[c][f] : u = pipe[c][f][i] BY <1>1, <2>1
  <2> QED BY <2>2, OnWayIs
<1> QED BY <1>3, <1>4

\* A step that begins to read nothing and delivers nothing, and only takes units away.
LEMMA CShrink ==
  ASSUME IInv, CInv, TypeOK', Shrinks, Numbered', OfferKeeps, SameTaken,
         \A f \in End : rcv'[f] = rcv[f] \/ rcv'[f].pc \notin {"data", "tail"}
  PROVE  CInv'
<1>1. pipe \in Pipes /\ pipe' \in Pipes BY TypeParts DEF IInv, TypeOK, Pipes, UnitType
<1>2. UnitOrder' /\ \A f \in End : OnWay(f)' \subseteq OnWay(f)
  BY <1>1, ShrinkUnits DEF CInv
<1>3. NewUnits("client", FALSE) BY <1>2 DEF NewUnits
<1> QED BY <1>2, <1>3, Ends, CKept

\* Nothing is taken away when the pipes are left alone.
LEMMA SamePipes == ASSUME TypeOK, UNCHANGED pipe PROVE Shrinks
BY PipeType, PartSelf DEF Shrinks

-----------------------------------------------------------------------------
\* The tunnel's calls, and the manager between two messages, leave the wire alone.
LEMMA CQuiet ==
  ASSUME IInv, IInv', CInv, NEW e \in End,
         SendMessage(e) \/ RecvMessage(e) \/ Loop(e) \/ Take(e) \/ UNCHANGED vars
  PROVE  CInv'
<1>1. UNCHANGED <<pipe, rcv>>
  BY DEF SendMessage, RecvMessage, Loop, Take, mgrUnchanged, wire, vars
<1>2. TypeOK /\ TypeOK' /\ Numbered /\ Shrinks BY <1>1, SamePipes DEF IInv, CInv
<1>3. Numbered' /\ OfferKeeps
  <2>1. CASE SendMessage(e) BY <1>2, <2>1, OfferHanded
  <2>2. CASE Take(e) BY <1>2, <2>2, OfferTakes
  <2>3. CASE RecvMessage(e) \/ UNCHANGED vars
    <3>1. UNCHANGED <<handed, outq, retry, mgr>> BY <2>3 DEF RecvMessage, vars
    <3> QED BY <1>2, <3>1, OfferIdle
  <2>4. CASE Loop(e)
    <3>1. UNCHANGED <<handed, outq, retry>> BY <2>4 DEF Loop, mgrUnchanged
    <3>2. \A d \in End : mgr'[d] = mgr[d] \/ mgr'[d].pc # "send"
      BY <1>2, <2>4, SenderType DEF Loop, MgrThread
    <3> QED BY <1>2, <3>1, <3>2, OfferIdle
  <2> QED BY <2>1, <2>2, <2>3, <2>4
<1>4. SameTaken
  <2>1. CASE RecvMessage(e) BY <1>2, <2>1, TypeRecvMessage DEF SameTaken, Taken
  <2>2. CASE UNCHANGED <<got, inq>> BY <2>2 DEF SameTaken, Taken
  <2>3. RecvMessage(e) \/ UNCHANGED <<got, inq>>
    BY DEF SendMessage, Loop, Take, mgrUnchanged, vars
  <2> QED BY <2>1, <2>2, <2>3
<1> QED BY <1>1, <1>2, <1>3, <1>4, CShrink

\* A new connection is read from its beginning.
LEMMA COpens ==
  ASSUME IInv, IInv', CInv, NEW e \in End, Opens(e)
  PROVE  CInv'
<1>1. PICK c \in Conn : Connected(e, c)
  <2>1. backlog \in Seq(Conn) BY TypeParts DEF IInv, WireType
  <2>2. CASE e = "client" /\ Connect BY <2>2 DEF Connect
  <2>3. CASE e = "server" /\ Accept
    <3>1. Head(backlog) \in Conn BY <2>1, <2>3 DEF Accept
    <3> QED BY <2>3, <3>1 DEF Accept
  <2> QED BY <2>2, <2>3 DEF Opens
<1>2. /\ TypeOK /\ TypeOK' /\ Numbered BY DEF IInv, CInv
<1>3. /\ rcv'[e].pc = "header" /\ mgr'[e].pc = "loop" /\ UNCHANGED pipe
      /\ \A d \in End \ {e} : rcv'[d] = rcv[d] /\ mgr'[d] = mgr[d]
  BY <1>1, <1>2, ConnectedStep
<1>4. UNCHANGED <<handed, outq, retry, got, inq>> BY <1>1 DEF Connected
<1>5. Numbered' /\ OfferKeeps BY <1>2, <1>3, <1>4, OfferIdle
<1>6. Shrinks /\ SameTaken BY <1>2, <1>3, <1>4, SamePipes DEF SameTaken, Taken
<1> QED BY <1>2, <1>3, <1>5, <1>6, CShrink

\* What fails leaves the rest of what is on its way in order.
LEMMA CFails ==
  ASSUME IInv, IInv', CInv, NEW e \in End, SendFails(e)
  PROVE  CInv'
<1>1. mgr[e].pc = "send" /\ SendFailed(e) /\ UNCHANGED <<pipe, rcv, got, inq>>
  BY DEF SendFails, SendFailed, mgrUnchanged
<1>2. TypeOK /\ TypeOK' /\ SenderOrder /\ Numbered BY DEF IInv, CInv
<1>3. Numbered' /\ OfferKeeps BY <1>1, <1>2, OfferSent
<1>4. Shrinks /\ SameTaken BY <1>1, <1>2, SamePipes DEF SameTaken, Taken
<1> QED BY <1>1, <1>2, <1>3, <1>4, CShrink

LEMMA CJoin ==
  ASSUME IInv, IInv', CInv, NEW e \in End, Join(e)
  PROVE  CInv'
<1> DEFINE c == sock[e]
<1>1. /\ c \in Conn /\ pipe \in Pipes /\ pipe'[c][e] = << >>
      /\ \A d \in Conn, f \in End : d # c \/ f # e => pipe'[d][f] = pipe[d][f]
      /\ mgr'[e].pc = "open" /\ \A f \in End \ {e} : mgr'[f] = mgr[f]
      /\ UNCHANGED <<handed, outq, inq, retry, rcv, got>>
  BY JoinStep
<1> HIDE DEF c
<1>2. TypeOK' /\ Numbered BY DEF IInv, CInv
<1>3. Numbered' /\ OfferKeeps
  <2>1. \A f \in End : mgr'[f] = mgr[f] \/ mgr'[f].pc # "send" BY <1>1
  <2> QED BY <1>1, <1>2, <2>1, OfferIdle
<1>4. Shrinks
  <2> SUFFICES ASSUME NEW d \in Conn, NEW f \in End PROVE Part(pipe'[d][f], pipe[d][f])
    BY DEF Shrinks
  <2>1. pipe[d][f] \in Seq(UnitType) BY <1>1 DEF Pipes
  <2>2. pipe'[d][f] = pipe[d][f] \/ pipe'[d][f] = << >> BY <1>1
  <2> QED BY <2>1, <2>2, PartSelf
<1>5. SameTaken BY <1>1 DEF SameTaken, Taken
<1> QED BY <1>1, <1>2, <1>3, <1>4, <1>5, CShrink

LEMMA CNetwork ==
  ASSUME IInv, IInv', CInv, NEW c \in Conn, NEW e \in End, Reset(c, e) \/ Break(c, e)
  PROVE  CInv'
<1>1. UNCHANGED <<handed, outq, inq, retry, mgr, rcv, got>> BY DEF Reset, Break, ends
<1>2. TypeOK /\ TypeOK' /\ Numbered BY DEF IInv, CInv
<1>3. Numbered' /\ OfferKeeps BY <1>1, <1>2, OfferIdle
<1>4. SameTaken BY <1>1 DEF SameTaken, Taken
<1>5. CASE Reset(c, e)
  <2>1. UNCHANGED pipe BY <1>5 DEF Reset
  <2> QED BY <1>1, <1>2, <1>3, <1>4, <2>1, SamePipes, CShrink
<1>6. CASE Break(c, e)
  <2>1. /\ \A d \in Conn, b \in End : d # c => pipe'[d][b] = pipe[d][b]
        /\ \A b \in End : \E i \in 0 .. Len(pipe[c][b]) : pipe'[c][b] = SubSeq(pipe[c][b], 1, i)
    BY <1>2, <1>6, BreakStep
  <2>2. ASSUME NEW d \in Conn, NEW f \in End PROVE Part(pipe'[d][f], pipe[d][f])
    <3>1. pipe[d][f] \in Seq(UnitType) BY <1>2, PipeType
    <3>2. CASE d # c BY <2>1, <3>1, <3>2, PartSelf
    <3>3. CASE d = c
      <4>1. PICK i \in 0 .. Len(pipe[d][f]) : pipe'[d][f] = SubSeq(pipe[d][f], 1, i) BY <2>1, <3>3
      <4> QED BY <3>1, <4>1, CutBack
    <3> QED BY <3>2, <3>3
  <2>3. Shrinks BY <2>2 DEF Shrinks
  <2> QED BY <1>1, <1>2, <1>3, <1>4, <2>3, CShrink
<1> QED BY <1>5, <1>6

-----------------------------------------------------------------------------
\* Every unit that is sent is of the message being sent.
AllOf(x, m) == \A i \in DOMAIN x : x[i].msg = m

LEMMA UnitsOf ==
  ASSUME NEW m \in Nat
  PROVE  \A x \in {OnWire(m), <<Unit("h", m)>>, <<Unit("H", m)>>, <<Unit("H", m), Unit("D", m)>>} :
           Units(x, m) /\ AllOf(x, m)
<1>1. AllOf(OnWire(m), m)
  <2> DEFINE x == OnWire(m)
  <2>1. /\ x \in Seq(UnitType) /\ Len(x) = 3 /\ DOMAIN x = {1, 2, 3}
        /\ x[1] = Unit("H", m) /\ x[2] = Unit("D", m) /\ x[3] = Unit("T", m)
    BY UnitTypes
  <2>2. x[1].msg = m /\ x[2].msg = m /\ x[3].msg = m BY <2>1 DEF Unit
  <2> HIDE DEF x
  <2>3. AllOf(x, m) BY <2>1, <2>2 DEF AllOf
  <2> QED BY <2>3 DEF x
<1>2. AllOf(<<Unit("h", m)>>, m) /\ AllOf(<<Unit("H", m)>>, m)
  BY DEF AllOf, Unit
<1>3. AllOf(<<Unit("H", m), Unit("D", m)>>, m)
  BY DEF AllOf, Unit
<1> QED BY <1>1, <1>2, <1>3, UnitsSent

\* What is sent comes behind all that is on its way.
LEMMA GrowUnits ==
  ASSUME IInv, CInv, NEW e \in End, mgr[e].pc = "send",
         half[sock[e]][e] \in {"open", "void"}, half[sock[e]][Other(e)] \notin Gone,
         NEW x, Units(x, mgr[e].buf), AllOf(x, mgr[e].buf), Grows(e, x)
  PROVE  UnitOrder' /\ NewUnits(e, TRUE)
<1> DEFINE c == sock[e]  o == Other(e)  m == mgr[e].buf  p == pipe[c][o]  q == p \o x
<1>0. TypeOK /\ Places /\ Ahead /\ UnitOrder /\ UnitsOffered BY DEF IInv, CInv
<1>1. c \in Conn /\ o \in End /\ Other(o) = e /\ m \in Nat
  BY <1>0, OnConn, Ends, SenderType
<1>2. p \in Seq(UnitType) /\ x \in Seq(UnitType) /\ pipe \in Pipes BY <1>0, <1>1, PipeType DEF Units
<1>3. /\ q \in Seq(UnitType) /\ Len(q) = Len(p) + Len(x)
      /\ Len(p) \in Nat /\ Len(x) \in Nat /\ DOMAIN q = 1 .. Len(q) /\ DOMAIN p = 1 .. Len(p)
      /\ \A i \in 1 .. Len(p) + Len(x) : q[i] = IF i <= Len(p) THEN p[i] ELSE x[i - Len(p)]
  BY <1>2, ConcatProperties DEF Units
<1> HIDE DEF q
<1>4. /\ pipe'[c][o] = q
      /\ \A d \in Conn, f \in End : d # c \/ f # o => pipe'[d][f] = pipe[d][f]
  <2> DEFINE g == [pipe EXCEPT ![c][o] = q]
  <2>1. pipe' = g BY DEF q, Grows
  <2>2. pipe \in [Conn -> [End -> Seq(UnitType)]] BY <1>2 DEF Pipes
  <2> HIDE DEF c, o, p
  <2>3. g[c][o] = q /\ \A d \in Conn, f \in End : d # c \/ f # o => g[d][f] = pipe[d][f]
    <3>1. q \in Seq(UnitType) BY <1>3
    <3> QED BY <1>1, <2>2, <3>1, Update2
  <2> HIDE DEF g
  <2> QED BY <2>1, <2>3
<1> DEFINE Old(d, f, j) == j \in DOMAIN pipe[d][f] /\ pipe'[d][f][j] = pipe[d][f][j]
           New(d, f, j) == /\ d = c /\ f = o /\ j \in Nat /\ j > Len(p) /\ j <= Len(q)
                           /\ pipe'[d][f][j].msg = m
                           /\ pipe'[d][f][j].kind = "T" => j = Len(q)
<1>5. ASSUME NEW f \in End, NEW d \in Conn, NEW j \in DOMAIN pipe'[d][f]
      PROVE  Old(d, f, j) \/ New(d, f, j)
  <2>1. CASE d # c \/ f # o BY <1>4, <2>1
  <2>2. CASE d = c /\ f = o
    <3>1. j \in 1 .. Len(q) BY <1>3, <1>4, <2>2
    <3>2. CASE j <= Len(p)
      <4>1. j \in DOMAIN p /\ q[j] = p[j] BY <1>2, <1>3, <3>1, <3>2
      <4> QED BY <1>4, <2>2, <3>1, <4>1
    <3>3. CASE j > Len(p)
      <4>0. j \in Int /\ j <= Len(p) + Len(x) /\ ~(j <= Len(p)) BY <1>3, <3>1, <3>3
      <4>1. PICK i \in 1 .. Len(x) : i = j - Len(p)
        <5> HIDE DEF p
        <5>1. j - Len(p) \in 1 .. Len(x) BY <1>3, <4>0
        <5> QED BY <5>1
      <4>2. q[j] = x[i] BY <1>3, <3>1, <4>0, <4>1
      <4>3. i \in DOMAIN x BY <1>2
      <4>4. x[i].msg = m /\ (x[i].kind = "T" => i = Len(x)) BY <4>3 DEF AllOf, Units
      <4>5. i = Len(x) => j = Len(q)
        <5> HIDE DEF p
        <5>1. Len(q) = Len(p) + Len(x) /\ Len(p) \in Nat /\ Len(x) \in Nat /\ j \in Int
          BY <1>3, <4>0
        <5>2. i = j - Len(p) BY <4>1
        <5> QED BY ONLY <5>1, <5>2
      <4>6. j \in Nat /\ j <= Len(q)
        <5>1. Len(q) \in Nat BY <1>3
        <5> HIDE DEF p
        <5> QED BY <3>1, <5>1
      <4> QED BY <1>4, <2>2, <3>3, <4>2, <4>4, <4>5, <4>6
    <3>4. j <= Len(p) \/ j > Len(p)
      <4> HIDE DEF p
      <4> QED BY <1>3, <3>1
    <3> QED BY <3>2, <3>3, <3>4
  <2> QED BY <2>1, <2>2
<1>6. ASSUME NEW d \in Conn, NEW j \in DOMAIN pipe[d][o] PROVE NotAfter(pipe[d][o][j], [kind |-> "H", msg |-> m])
  <2> DEFINE u == pipe[d][o][j]
  <2>1. u \in OnWay(o) BY <1>1, OnWayIs
  <2>2. Offered(e, u.msg) BY <1>0, <1>1, <2>1 DEF UnitsOffered
  <2>3. u.msg <= m BY <2>2 DEF Offered
  <2>4. u.kind = "T" => u.msg < m
    <3>1. u.kind = "T" => j \in Tails(d, o) BY DEF Tails
    <3> QED BY <1>0, <1>1, <3>1 DEF Ahead, Sent
  <2> QED BY <2>3, <2>4 DEF NotAfter
<1>7. ASSUME NEW d \in Conn, DOMAIN pipe[d][o] # {} PROVE d <= c
  <2>1. pipe[d][o] # << >> BY <1>7
  <2> QED BY <1>0, <2>1, LastPipe
<1>8. UnitOrder'
  <2> SUFFICES ASSUME NEW f \in End, NEW d1 \in Conn, NEW d2 \in Conn,
                      NEW i \in DOMAIN pipe'[d1][f], NEW j \in DOMAIN pipe'[d2][f], Before(d1, i, d2, j)
               PROVE  NotAfter(pipe'[d1][f][i], pipe'[d2][f][j])
    BY DEF UnitOrder, Before
  <2>0. d1 \in Nat /\ d2 \in Nat /\ c \in Nat /\ Len(q) \in Nat /\ Len(p) \in Nat
    <3>1. d1 \in Nat /\ d2 \in Nat /\ c \in Nat BY <1>1, Ends
    <3> HIDE DEF c, p
    <3> QED BY <1>3, <3>1
  <2>1. CASE Old(d1, f, i) /\ Old(d2, f, j) BY <1>0, <2>1 DEF UnitOrder
  <2>2. CASE Old(d1, f, i) /\ New(d2, f, j) BY <1>6, <2>2 DEF NotAfter
  <2>3. CASE New(d1, f, i) /\ Old(d2, f, j)
    <3>1. f = o /\ d1 = c /\ i \in Nat /\ i > Len(p) /\ j \in DOMAIN pipe[d2][o] BY <2>3
    <3>2. d2 <= c BY <1>7, <3>1
    <3>3. d2 = c /\ i < j
      <4> HIDE DEF c, p
      <4> QED BY <2>0, <3>1, <3>2 DEF Before
    <3>4. j \in 1 .. Len(p) BY <1>3, <3>1, <3>3
    <3> HIDE DEF c, p
    <3> QED BY <2>0, <3>1, <3>3, <3>4
  <2>4. CASE New(d1, f, i) /\ New(d2, f, j)
    <3>1. d1 = c /\ d2 = c /\ i \in Nat /\ j \in Nat /\ j <= Len(q) BY <2>4
    <3>2. i < j
      <4> HIDE DEF c, p
      <4> QED BY <2>0, <3>1 DEF Before
    <3>3. pipe'[d1][f][i].kind # "T"
      <4>1. i # Len(q)
        <5> HIDE DEF c, p
        <5> QED BY <2>0, <3>1, <3>2
      <4> QED BY <2>4, <4>1
    <3>4. pipe'[d1][f][i].msg = m /\ pipe'[d2][f][j].msg = m BY <2>4
    <3> HIDE DEF c, p
    <3> QED BY <1>1, <3>3, <3>4 DEF NotAfter
  <2> QED BY <1>5, <2>1, <2>2, <2>3, <2>4
<1>9. NewUnits(e, TRUE)
  <2> SUFFICES ASSUME NEW f \in End, NEW u \in OnWay(f)'
               PROVE  u \in OnWay(f) \/ (f = o /\ u.msg = m)
    BY DEF NewUnits
  <2>1. PICK d \in Conn : \E j \in DOMAIN pipe'[d][f] : u = pipe'[d][f][j] BY DEF OnWay
  <2>2. PICK j \in DOMAIN pipe'[d][f] : u = pipe'[d][f][j] BY <2>1
  <2>3. CASE Old(d, f, j) BY <2>2, <2>3, OnWayIs
  <2>4. CASE New(d, f, j) BY <2>2, <2>4
  <2> QED BY <1>5, <2>3, <2>4
<1> QED BY <1>8, <1>9

\* What a sender sends, whole or in part, comes behind what is on its way.
LEMMA CSends ==
  ASSUME IInv, IInv', CInv, NEW e \in End, SendWhole(e) \/ SendPartial(e)
  PROVE  CInv'
<1> DEFINE c == sock[e]  o == Other(e)  m == mgr[e].buf
           parts == {OnWire(m), <<Unit("h", m)>>, <<Unit("H", m)>>, <<Unit("H", m), Unit("D", m)>>}
<1>1. /\ mgr[e].pc = "send" /\ half[c][e] \in {"open", "void"} /\ UNCHANGED <<rcv, got, inq>>
      /\ SendWhole(e) \/ SendFailed(e)
  BY DEF SendWhole, SendPartial, SendFailed, mgrUnchanged
<1>2. UNCHANGED pipe \/ (half[c][o] \notin Gone /\ \E x \in parts : Grows(e, x))
  <2>1. CASE SendWhole(e) BY <2>1 DEF SendWhole, Grows
  <2>2. CASE SendPartial(e) BY <2>2 DEF SendPartial, Grows, Gone
  <2> QED BY <2>1, <2>2
<1>3. TypeOK /\ TypeOK' /\ SenderOrder /\ Numbered BY DEF IInv, CInv
<1>4. Numbered' /\ OfferKeeps /\ \A n \in Nat : n = m => Offered(e, n)' BY <1>1, <1>3, OfferSent
<1>5. SameTaken BY <1>1 DEF SameTaken, Taken
<1>6. CASE UNCHANGED pipe
  <2>1. Shrinks BY <1>3, <1>6, SamePipes
  <2> QED BY <1>1, <1>3, <1>4, <1>5, <2>1, CShrink
<1>7. CASE half[c][o] \notin Gone /\ \E x \in parts : Grows(e, x)
  <2>1. PICK x \in parts : Grows(e, x) BY <1>7
  <2>2. m \in Nat BY <1>3, SenderType
  <2>3. Units(x, m) /\ AllOf(x, m) BY <2>2, UnitsOf
  <2>4. UnitOrder' /\ NewUnits(e, TRUE) BY <1>1, <1>7, <2>1, <2>3, GrowUnits
  <2> QED BY <1>1, <1>3, <1>4, <1>5, <2>4, CKept
<1> QED BY <1>2, <1>6, <1>7

-----------------------------------------------------------------------------
\* The first unit of the pipe that e reads is not after any that it leaves.
LEMMA FirstUnit ==
  ASSUME IInv, CInv, NEW e \in End, NEW c \in Conn, c = sock[e], Len(pipe[c][e]) >= 1,
         Takes(e, c, 1)
  PROVE  pipe[c][e][1] \in OnWay(e) /\ \A v \in OnWay(e)' : NotAfter(pipe[c][e][1], v)
<1> DEFINE p == pipe[c][e]
<1>1. TypeOK /\ Places /\ UnitOrder BY DEF IInv, CInv
<1>2. p \in Seq(UnitType) /\ DOMAIN p = 1 .. Len(p) /\ Len(p) \in Nat
  <2>1. p \in Seq(UnitType) BY <1>1, PipeType
  <2> QED BY <2>1
<1>3. 1 \in DOMAIN p /\ 1 \in 0 .. Len(p)
  <2> HIDE DEF p
  <2>1. Len(p) >= 1 BY DEF p
  <2> QED BY <1>2, <2>1
<1>4. /\ pipe'[c][e] \in Seq(UnitType) /\ Len(pipe'[c][e]) = Len(p) - 1
      /\ \A i \in 1 .. Len(pipe'[c][e]) : pipe'[c][e][i] = p[i + 1]
      /\ \A d \in Conn, f \in End : d # c \/ f # e => pipe'[d][f] = pipe[d][f]
  BY <1>1, <1>3, ReceiverPipes
<1>5. ASSUME NEW v \in OnWay(e)' PROVE NotAfter(p[1], v)
  <2>1. PICK d \in Conn : \E j \in DOMAIN pipe'[d][e] : v = pipe'[d][e][j] BY DEF OnWay
  <2>2. PICK j \in DOMAIN pipe'[d][e] : v = pipe'[d][e][j] BY <2>1
  <2>3. CASE d = c
    <3>1. j \in 1 .. Len(pipe'[c][e]) BY <1>4, <2>3
    <3>2. j + 1 \in 1 .. Len(p) /\ 1 < j + 1
      <4>1. Len(pipe'[c][e]) = Len(p) - 1 /\ Len(p) \in Nat BY <1>2, <1>4
      <4> HIDE DEF p
      <4> QED BY ONLY <3>1, <4>1
    <3>3. v = p[j + 1] BY <1>4, <2>2, <2>3, <3>1
    <3>4. Before(c, 1, c, j + 1) BY <3>2 DEF Before
    <3> QED BY <1>1, <1>2, <1>3, <3>2, <3>3, <3>4 DEF UnitOrder
  <2>4. CASE d # c
    <3>1. pipe'[d][e] = pipe[d][e] /\ j \in DOMAIN pipe[d][e] BY <1>4, <2>4
    <3>2. pipe[d][e] # << >> /\ c # 0 BY <3>1, Ends
    <3>3. c < d BY <1>1, <2>4, <3>2, FirstPipe
    <3>4. Before(c, 1, d, j) BY <3>3 DEF Before
    <3> QED BY <1>1, <1>3, <2>2, <3>1, <3>4 DEF UnitOrder
  <2> QED BY <2>3, <2>4
<1> QED BY <1>3, <1>5, OnWayIs

\* A record that stays behind what is left.
LEMMA BehindKept ==
  ASSUME OfferKeeps, NEW e \in End, NEW r \in Received, Behind(e, r), OnWay(e)' \subseteq OnWay(e),
         Busy(e)' => Precedes(r, rcv'[e].msg)
  PROVE  Behind(e, r)'
<1>1. r.msg \in Nat /\ Other(e) \in End BY Ends DEF Received
<1>2. IF r.form = "garbage" THEN r.msg = 0 ELSE Offered(Other(e), r.msg)'
  BY <1>1 DEF Behind, OfferKeeps
<1>3. \A u \in OnWay(e)' : Precedes(r, u.msg) BY DEF Behind
<1> QED BY <1>2, <1>3 DEF Behind

\* What is delivered next keeps its turn.
LEMMA InTurnAppend ==
  ASSUME NEW s \in Seq(Received), NEW r \in Received, InTurn(s),
         r.form # "garbage" => \A n \in DOMAIN s : Precedes(s[n], r.msg)
  PROVE  /\ InTurn(Append(s, r))
         /\ \A i \in DOMAIN Append(s, r) :
              (i \in DOMAIN s /\ Append(s, r)[i] = s[i]) \/ Append(s, r)[i] = r
<1> DEFINE t == Append(s, r)
<1>1. /\ DOMAIN t = 1 .. Len(s) + 1 /\ DOMAIN s = 1 .. Len(s) /\ Len(s) \in Nat
      /\ t[Len(s) + 1] = r /\ \A i \in 1 .. Len(s) : t[i] = s[i]
  OBVIOUS
<1> HIDE DEF t
<1>2. /\ \A i \in 1 .. Len(s) + 1 : i \in 1 .. Len(s) \/ i = Len(s) + 1
      /\ \A i, j \in 1 .. Len(s) + 1 : i < j => i \in 1 .. Len(s)
  BY <1>1
<1>3. ASSUME NEW i \in DOMAIN t, NEW j \in DOMAIN t, i < j, t[j].form # "garbage"
      PROVE  Precedes(t[i], t[j].msg)
  <2>1. i \in DOMAIN s /\ t[i] = s[i] BY <1>1, <1>2, <1>3
  <2>2. CASE j \in DOMAIN s /\ t[j] = s[j] BY <1>3, <2>1, <2>2 DEF InTurn
  <2>3. CASE t[j] = r BY <1>3, <2>1, <2>3
  <2> QED BY <1>1, <1>2, <2>2, <2>3
<1>4. InTurn(t) BY <1>3 DEF InTurn
<1>5. \A i \in DOMAIN t : (i \in DOMAIN s /\ t[i] = s[i]) \/ t[i] = r BY <1>1, <1>2
<1> QED BY <1>4, <1>5 DEF t

\* What is read next is behind what was received, and what is delivered behind what is left.
LEMMA CReceiver ==
  ASSUME IInv, IInv', CInv, NEW e \in End, Receiver(e)
  PROVE  CInv'
<1>1. /\ TypeOK /\ TypeOK' /\ Places /\ Reading
      /\ Numbered /\ UnitsOffered /\ UnitOrder /\ CurrentOrder /\ TakenOrder
  BY DEF IInv, CInv
<1>2. PICK c \in Conn : c = sock[e] BY <1>1, ReceiverStep
<1>3. PICK k \in 0 .. Len(pipe[c][e]), t \in RcvThread :
        Takes(e, c, k) /\ GoesOn(e, c, k, t) /\ Gives(e, c, k)
  BY <1>1, <1>2, ReceiverStep
<1>4. UNCHANGED <<handed, outq, retry, mgr, got>> BY <1>1, ReceiverStep DEF rcvUnchanged
<1>5. Numbered' /\ OfferKeeps BY <1>1, <1>4, OfferIdle
<1>6. UnitOrder' /\ \A f \in End : OnWay(f)' \subseteq OnWay(f)
  <2>1. pipe \in Pipes BY <1>1, <1>2, PipeType
  <2>2. pipe' \in Pipes /\ Shrinks BY <1>1, <1>3, ReceiverPipes
  <2> QED BY <1>1, <2>1, <2>2, ShrinkUnits
<1>7. rcv'[e] = t /\ \A f \in End \ {e} : rcv'[f] = rcv[f]
  <2>1. rcv \in [End -> RcvThread] BY <1>1, TypeParts DEF ThreadType
  <2> QED BY <1>3, <2>1 DEF GoesOn
<1>8. t.msg \in Nat /\ rcv[e].msg \in Nat BY <1>1, Numbers DEF RcvThread
<1>9. k = 1 /\ Len(pipe[c][e]) >= 1 =>
        /\ pipe[c][e][1] \in OnWay(e) /\ pipe[c][e][1].msg \in Nat
        /\ \A v \in OnWay(e)' : NotAfter(pipe[c][e][1], v)
  BY <1>1, <1>2, <1>3, FirstUnit, Numbers
<1>10. UnitsOffered'
  <2> SUFFICES ASSUME NEW f \in End, NEW u \in OnWay(f)' PROVE Offered(Other(f), u.msg)'
    BY DEF UnitsOffered
  <2>1. u \in OnWay(f) /\ Other(f) \in End BY <1>6, Ends
  <2>2. u.msg \in Nat /\ Offered(Other(f), u.msg) BY <1>1, <2>1, Numbers DEF UnitsOffered
  <2> QED BY <1>5, <2>1, <2>2 DEF OfferKeeps
<1>11. ASSUME t.pc \in {"data", "tail"}
       PROVE  \/ k = 1 /\ Len(pipe[c][e]) >= 1 /\ t.msg = pipe[c][e][1].msg /\ pipe[c][e][1].kind = "H"
              \/ Busy(e) /\ t.msg = rcv[e].msg /\ rcv[e].pc = "data"
  BY <1>3, <1>11 DEF GoesOn, Busy
<1>12. CurrentOrder'
  <2> SUFFICES ASSUME NEW f \in End, Busy(f)' PROVE Current(f)'
    BY DEF CurrentOrder
  <2>0. Other(f) \in End BY Ends
  <2>1. PICK n \in Nat : n = rcv'[f].msg BY <1>1, Numbers, Ends DEF TypeOK
  <2>2. Offered(Other(f), n) /\ \A u \in OnWay(f)' : n <= u.msg
    <3>1. CASE f # e
      <4>1. Busy(f) /\ rcv[f].msg = n BY <1>7, <2>1, <3>1 DEF Busy
      <4> QED BY <1>1, <1>6, <4>1 DEF CurrentOrder, Current
    <3>2. CASE f = e
      <4>0. t.pc \in {"data", "tail"} /\ t.msg = n BY <1>7, <2>1, <3>2 DEF Busy
      <4>1. CASE k = 1 /\ Len(pipe[c][e]) >= 1 /\ t.msg = pipe[c][e][1].msg
        BY <1>1, <1>9, <3>2, <4>0, <4>1 DEF UnitsOffered, NotAfter
      <4>2. CASE Busy(e) /\ t.msg = rcv[e].msg
        BY <1>1, <1>6, <3>2, <4>0, <4>2 DEF CurrentOrder, Current
      <4> QED BY <1>11, <4>0, <4>1, <4>2
    <3> QED BY <3>1, <3>2
  <2>3. Offered(Other(f), n)' BY <1>5, <2>0, <2>2 DEF OfferKeeps
  <2> QED BY <2>1, <2>2, <2>3 DEF Current, Offered
<1>13. ASSUME NEW f \in End, NEW r \in Received, Behind(f, r) PROVE Behind(f, r)'
  <2>1. Busy(f)' => Precedes(r, rcv'[f].msg)
    <3>1. CASE f # e BY <1>7, <1>13, <3>1 DEF Busy, Behind
    <3>2. CASE f = e /\ Busy(f)'
      <4>0. t.pc \in {"data", "tail"} /\ rcv'[f].msg = t.msg BY <1>7, <3>2 DEF Busy
      <4>1. CASE k = 1 /\ Len(pipe[c][e]) >= 1 /\ t.msg = pipe[c][e][1].msg
        BY <1>9, <1>13, <3>2, <4>0, <4>1 DEF Behind
      <4>2. CASE Busy(e) /\ t.msg = rcv[e].msg BY <1>13, <3>2, <4>0, <4>2 DEF Behind
      <4> QED BY <1>11, <4>0, <4>1, <4>2
    <3> QED BY <3>1, <3>2
  <2> QED BY <1>5, <1>6, <1>13, <2>1, BehindKept
<1>14. ASSUME NEW f \in End, Taken(f)' = Taken(f)
       PROVE  InTurn(Taken(f))' /\ \A n \in DOMAIN Taken(f)' : Behind(f, Taken(f)[n])'
  <2>1. InTurn(Taken(f))' BY <1>1, <1>14 DEF TakenOrder, InTurn
  <2>2. ASSUME NEW n \in DOMAIN Taken(f) PROVE Behind(f, Taken(f)[n])'
    <3>1. PICK r \in Received : r = Taken(f)[n] BY <1>1, Numbers
    <3>2. Behind(f, r)' BY <1>1, <1>13, <3>1 DEF TakenOrder
    <3> QED BY <1>14, <3>1, <3>2 DEF Behind
  <2> QED BY <1>14, <2>1, <2>2
<1>15. ASSUME NEW r \in Received, Genuine(e, c, k, r)
       PROVE  /\ r.form # "garbage" => Busy(e) /\ r.msg = rcv[e].msg
              /\ Behind(e, r)'
  <2>1. CASE r.form = "garbage" BY <1>15, <2>1 DEF Genuine, Behind, Precedes
  <2>2. CASE r.form \in {"whole", "cut"}
    <3>1. rcv[e].pc = "tail" /\ r.msg = rcv[e].msg BY <1>15, <2>2 DEF Genuine
    <3>2. Busy(e) /\ Current(e) BY <1>1, <3>1 DEF Busy, CurrentOrder
    <3>3. Other(e) \in End BY Ends
    <3>4. Offered(Other(e), r.msg)' BY <1>5, <1>8, <3>1, <3>2, <3>3 DEF Current, OfferKeeps
    <3>5. ASSUME NEW u \in OnWay(e)' PROVE Precedes(r, u.msg)
      <4>1. CASE r.form = "whole"
        <5>1. k = 1 /\ Len(pipe[c][e]) >= 1 /\ pipe[c][e][1].kind = "T"
          BY <1>15, <4>1 DEF Genuine
        <5>2. pipe[c][e] # << >> BY <1>1, <5>1, PipeType
        <5>3. pipe[c][e][1] = Unit("T", rcv[e].msg) BY <1>1, <1>2, <3>1, <5>2 DEF Reading
        <5>4. pipe[c][e][1].msg = rcv[e].msg BY <5>3 DEF Unit
        <5> QED BY <1>9, <3>1, <4>1, <5>1, <5>4 DEF Precedes, NotAfter
      <4>2. CASE r.form = "cut"
        BY <1>6, <3>1, <3>2, <4>2 DEF Precedes, Current
      <4> QED BY <2>2, <4>1, <4>2
    <3>6. ~Busy(e)'
      <4>1. k = 0 \/ pipe[c][e][1].kind = "T" BY <1>15, <2>2 DEF Genuine
      <4>2. t.pc \notin {"data", "tail"} BY <1>3, <3>1, <4>1 DEF GoesOn
      <4> QED BY <1>7, <4>2 DEF Busy
    <3> QED BY <2>2, <3>1, <3>2, <3>4, <3>5, <3>6 DEF Behind
  <2> QED BY <2>1, <2>2 DEF Received
<1>16. ASSUME \E r \in Received : Taken(e)' = Append(Taken(e), r) /\ Genuine(e, c, k, r)
       PROVE  InTurn(Taken(e))' /\ \A n \in DOMAIN Taken(e)' : Behind(e, Taken(e)[n])'
  <2>1. PICK r \in Received : Taken(e)' = Append(Taken(e), r) /\ Genuine(e, c, k, r) BY <1>16
  <2>2. PICK s \in Seq(Received) : s = Taken(e) BY <1>1, TakenType
  <2>3. InTurn(s) /\ \A n \in DOMAIN s : s[n] \in Received /\ Behind(e, s[n])
    BY <1>1, <2>2, Numbers DEF TakenOrder
  <2>4. r.form # "garbage" => \A n \in DOMAIN s : Precedes(s[n], r.msg)
    BY <1>15, <2>1, <2>3 DEF Behind
  <2>5. /\ InTurn(Append(s, r))
        /\ \A i \in DOMAIN Append(s, r) :
              (i \in DOMAIN s /\ Append(s, r)[i] = s[i]) \/ Append(s, r)[i] = r
    BY <2>3, <2>4, InTurnAppend
  <2>6. PICK x : x = Append(s, r) OBVIOUS
  <2>7. Taken(e)' = x BY <2>1, <2>2, <2>6
  <2>8. InTurn(Taken(e))' BY <2>5, <2>6, <2>7 DEF InTurn
  <2>9. ASSUME NEW n \in DOMAIN x PROVE Behind(e, x[n])'
    <3>1. CASE n \in DOMAIN s /\ x[n] = s[n]
      <4>1. PICK y \in Received : y = s[n] /\ Behind(e, y) BY <2>3, <3>1
      <4>2. Behind(e, y)' BY <1>13, <4>1
      <4> QED BY <3>1, <4>1, <4>2 DEF Behind
    <3>2. CASE x[n] = r
      <4>1. Behind(e, r)' BY <1>15, <2>1
      <4> QED BY <3>2, <4>1 DEF Behind
    <3> QED BY <2>5, <2>6, <3>1, <3>2
  <2> QED BY <2>7, <2>8, <2>9 DEF Behind
<1>17. TakenOrder'
  <2>1. /\ \A f \in End \ {e} : Taken(f)' = Taken(f)
        /\ \/ Taken(e)' = Taken(e)
           \/ \E r \in Received : Taken(e)' = Append(Taken(e), r) /\ Genuine(e, c, k, r)
    BY <1>1, <1>2, <1>3, <1>4, ReceiverTaken
  <2> QED BY <1>14, <1>16, <2>1 DEF TakenOrder
<1> QED BY <1>5, <1>6, <1>10, <1>12, <1>17 DEF CInv

\* Initially nothing was handed over.
LEMMA CInit == Init => CInv
<1> SUFFICES ASSUME Init PROVE CInv OBVIOUS
<1>1. /\ \A e \in End : /\ outq[e] = << >> /\ inq[e] = << >> /\ retry[e] = << >>
                        /\ mgr[e].pc = "open" /\ rcv[e].pc = "none" /\ got[e] = << >>
      /\ \A c \in Conn, e \in End : pipe[c][e] = << >>
  BY DEF Init
<1>2. DOMAIN << >> = {} /\ << >> \o << >> = << >> OBVIOUS
<1>3. Numbered BY <1>1, <1>2 DEF Numbered, NumbersOf
<1>4. \A e \in End : OnWay(e) = {} BY <1>1, <1>2 DEF OnWay
<1>5. UnitsOffered /\ UnitOrder BY <1>1, <1>2, <1>4 DEF UnitsOffered, UnitOrder
<1>6. CurrentOrder BY <1>1 DEF CurrentOrder, Busy
<1>7. \A e \in End : Taken(e) = << >> BY <1>1, <1>2 DEF Taken
<1>8. TakenOrder BY <1>2, <1>7 DEF TakenOrder, InTurn
<1> QED BY <1>3, <1>5, <1>6, <1>8 DEF CInv

\* The invariant is inductive, given IInv.
LEMMA CStep == IInv /\ IInv' /\ CInv /\ [Next]_vars => CInv'
<1> SUFFICES ASSUME IInv, IInv', CInv, [Next]_vars PROVE CInv' OBVIOUS
<1>1. CASE UNCHANGED vars BY <1>1, CQuiet, Ends
<1>2. ASSUME NEW e \in End, SendMessage(e) \/ RecvMessage(e) PROVE CInv' BY <1>2, CQuiet
<1>3. ASSUME NEW e \in End, Manager(e) PROVE CInv'
  <2>1. CASE Opens(e) BY <2>1, COpens
  <2>2. CASE Loop(e) \/ Take(e) BY <2>2, CQuiet
  <2>3. CASE SendWhole(e) \/ SendPartial(e) BY <2>3, CSends
  <2>4. CASE SendFails(e) BY <2>4, CFails
  <2>5. CASE Join(e) BY <2>5, CJoin
  <2> QED BY <1>3, <2>1, <2>2, <2>3, <2>4, <2>5 DEF Manager
<1>4. ASSUME NEW e \in End, Receiver(e) PROVE CInv' BY <1>4, CReceiver
<1>5. ASSUME NEW c \in Conn, NEW e \in End, Reset(c, e) \/ Break(c, e) PROVE CInv'
  BY <1>5, CNetwork
<1> QED BY <1>1, <1>2, <1>3, <1>4, <1>5 DEF Next

-----------------------------------------------------------------------------
\* recvMessage returns the first that was received: a message of the other end that
\* follows those returned before, or garbage.
LEMMA Returns ==
  ASSUME IInv, CInv, NEW e \in End, RecvMessage(e)
  PROVE  Channel!ReturnMessage(e) \/ Channel!ReturnGarbage(e)
<1>1. TypeOK /\ TakenOrder BY DEF IInv, CInv
<1>2. PICK g \in Seq(Received), q \in Seq(Received) : g = got[e] /\ q = inq[e] BY <1>1, TakenType
<1>3. /\ q # << >> /\ got' = [got EXCEPT ![e] = Append(@, Head(q))] /\ UNCHANGED handed
  BY <1>2 DEF RecvMessage
<1>4. PICK r \in Received : r = Head(q) BY <1>2, <1>3
<1>5. Channel!Return(e, r) BY <1>3, <1>4 DEF Channel!Return
<1>6. /\ DOMAIN g = 1 .. Len(g) /\ Len(g) \in Nat
      /\ Len(g) + 1 \in DOMAIN (g \o q) /\ (g \o q)[Len(g) + 1] = r
      /\ \A i \in 1 .. Len(g) : i \in DOMAIN (g \o q) /\ (g \o q)[i] = g[i] /\ i < Len(g) + 1
  <2> DEFINE s == g \o q
  <2>1. Len(q) \in Nat /\ Len(q) >= 1 /\ q[1] = r BY <1>3, <1>4
  <2>2. DOMAIN g = 1 .. Len(g) /\ Len(g) \in Nat OBVIOUS
  <2>3. /\ DOMAIN s = 1 .. Len(g) + Len(q)
        /\ \A i \in 1 .. Len(g) + Len(q) : s[i] = IF i <= Len(g) THEN g[i] ELSE q[i - Len(g)]
    <3>1. s \in Seq(Received) /\ Len(s) = Len(g) + Len(q) BY ConcatProperties
    <3>2. DOMAIN s = 1 .. Len(s) BY <3>1, LenProperties
    <3> QED BY <3>1, <3>2, ConcatProperties
  <2> HIDE DEF s
  <2>4. Len(g) + 1 \in 1 .. Len(g) + Len(q) /\ ~(Len(g) + 1 <= Len(g)) /\ Len(g) + 1 - Len(g) = 1
    BY <2>1, <2>2
  <2>5. Len(g) + 1 \in DOMAIN s /\ s[Len(g) + 1] = r BY <2>1, <2>3, <2>4
  <2>6. \A i \in 1 .. Len(g) : i \in 1 .. Len(g) + Len(q) /\ i <= Len(g) /\ i < Len(g) + 1
    BY <2>1, <2>2
  <2>7. \A i \in 1 .. Len(g) : i \in DOMAIN s /\ s[i] = g[i] /\ i < Len(g) + 1
    BY <2>3, <2>6
  <2> QED BY <2>2, <2>5, <2>7 DEF s
<1>7. Taken(e) = g \o q BY <1>2 DEF Taken
<1>8. Behind(e, r) /\ (r.form # "garbage" => \A i \in DOMAIN g : Precedes(g[i], r.msg))
  <2> DEFINE s == g \o q  n == Len(g) + 1
  <2>1. InTurn(s) /\ Behind(e, s[n]) /\ s[n] = r BY <1>1, <1>6, <1>7 DEF TakenOrder
  <2>2. n \in DOMAIN s /\ \A i \in DOMAIN g : i \in DOMAIN s /\ s[i] = g[i] /\ i < n BY <1>6
  <2> HIDE DEF s, n
  <2> QED BY <2>1, <2>2 DEF InTurn
<1>9. CASE r.form = "garbage"
  <2>1. r.msg = 0 BY <1>8, <1>9 DEF Behind
  <2>2. r = [form |-> "garbage", msg |-> 0] BY <1>9, <2>1 DEF Received
  <2> QED BY <1>5, <2>2 DEF Channel!ReturnGarbage
<1>10. CASE r.form \in {"whole", "cut"}
  <2>1. Other(e) \in End \ {e} BY Ends
  <2>2. r.msg \in Nat BY DEF Received
  <2>3. r.msg \in 1 .. handed[Other(e)] BY <1>1, <1>8, <1>10, <2>1, <2>2, SenderType DEF Behind, Offered
  <2>4. Channel!Follows(e, r.msg)
    BY <1>2, <1>8, <1>10 DEF Channel!Follows, Precedes
  <2>5. r = [form |-> r.form, msg |-> r.msg] BY DEF Received
  <2>6. Channel!Return(e, [form |-> r.form, msg |-> r.msg]) BY <1>5, <2>5
  <2> QED BY <1>10, <2>1, <2>3, <2>4, <2>6 DEF Channel!ReturnMessage
<1> QED BY <1>9, <1>10 DEF Received

\* Every other step hands over a message, or is hidden.
LEMMA ChannelStep == IInv /\ CInv /\ [Next]_vars => [Channel!Next]_Channel!vars
<1> SUFFICES ASSUME IInv, CInv, [Next]_vars PROVE [Channel!Next]_Channel!vars OBVIOUS
<1>1. ASSUME NEW e \in End, SendMessage(e) PROVE Channel!Next
  <2>1. handed' = [handed EXCEPT ![e] = @ + 1] /\ UNCHANGED got BY <1>1 DEF SendMessage
  <2>2. Channel!Hand(e) BY <2>1 DEF Channel!Hand
  <2> QED BY <2>2 DEF Channel!Next
<1>2. ASSUME NEW e \in End, RecvMessage(e) PROVE Channel!Next
  BY <1>2, Returns DEF Channel!Next
<1>3. ASSUME NEW e \in End, Manager(e) PROVE UNCHANGED <<handed, got>>
  BY <1>3 DEF Manager, Opens, Connect, Accept, Connected, Loop, Take, SendWhole, SendFails,
     SendPartial, SendFailed, Join, mgrUnchanged
<1>4. ASSUME NEW e \in End, Receiver(e) PROVE UNCHANGED <<handed, got>>
  BY <1>4, ReceiverStep DEF IInv, rcvUnchanged
<1>5. ASSUME NEW c \in Conn, NEW e \in End, Reset(c, e) \/ Break(c, e) PROVE UNCHANGED <<handed, got>>
  BY <1>5 DEF Reset, Break, ends
<1>6. CASE UNCHANGED vars BY <1>6 DEF vars, Channel!vars
<1>7. CASE Next BY <1>1, <1>2, <1>3, <1>4, <1>5, <1>7 DEF Next, Channel!vars
<1> QED BY <1>6, <1>7

\* A TCP bearer implements the message channel.
THEOREM BearerIsChannel == Spec => ChannelSpec
<1>1. Init => Channel!Init BY DEF Init, Channel!Init
<1> QED BY InvInit, InvStep, CInit, CStep, ChannelStep, <1>1, PTL DEF Spec, ChannelSpec, Channel!Spec
=============================================================================
