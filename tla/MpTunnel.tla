------------------------------ MODULE MpTunnel ------------------------------
(***************************************************************************)
(* The multi-path tunnels of acsgw (net/tunnel/TunnelMgr.cc, MpTunnel.h,   *)
(* VirtualIfMgr.cc, TunTap, the bearer loop of TunnelBuilder.cc).          *)
(*                                                                         *)
(* A gateway is one acsgw process.  Its main thread adds the configured    *)
(* bearers one by one; one transmit thread reads packets from the tunnel   *)
(* devices and mirrors each of them on every bearer of the device's        *)
(* tunnel; one receive thread per bearer takes messages off its socket,    *)
(* discards the ones its process has already seen, and announces the       *)
(* others on the device.  All threads interleave with the network, which   *)
(* reorders messages, and on a faulty bearer also loses and duplicates     *)
(* them.  A process may crash and start again with nothing but its         *)
(* configuration.                                                          *)
(*                                                                         *)
(* A bearer is one path between two gateways, and both ends use the same   *)
(* protocol.  Each bearer has a socket of its own at each end; but sockets *)
(* bound to one local address share what arrives there, since none of them *)
(* is connected and the threads look at no source address.                 *)
(***************************************************************************)
EXTENDS Integers, Sequences, FiniteSets, Ip4DupDetector

CONSTANTS
  Gateway,        \* acsgw processes
  Dev,            \* names of tunnel devices
  Bearer,         \* paths between two gateways
  Addr,           \* remote addresses of bearers
  Packet,         \* IP packets; the host writes each at most once
  Order,          \* Order[g]: the bearers g adds, in the order it adds them
  Ifname,         \* Ifname[g][b]: the tunnel of g that lists bearer b
  Remote,         \* Remote[g][b]: the remote address g has configured for b
  Peer,           \* Peer[g][b]: the gateway at the other end of b
  Proto,          \* Proto[b] \in {"gre", "udp", "tcp"}
  Sockets,        \* Sockets[g][b]: the bearers of g bound to b's local address
  Faulty,         \* bearers whose sockets or network may fail
  Junk,           \* what a thread may find on its stack instead of a pktid
  Source,         \* Source[p]: where the host writes p, [gw, dev]
  NoDev,          \* no device
  NoPkt,          \* no packet
  MaxReadFail,    \* bound: reads of a device that fail while pktid is below it
  MaxBoot         \* bound: restarts of a gateway

ASSUME ConfigAssumption ==
  /\ Order \in [Gateway -> Seq(Bearer)]
  /\ Ifname \in [Gateway -> [Bearer -> Dev]]
  /\ Remote \in [Gateway -> [Bearer -> Addr]]
  /\ Peer \in [Gateway -> [Bearer -> Gateway]]
  /\ Proto \in [Bearer -> {"gre", "udp", "tcp"}]
  /\ Sockets \in [Gateway -> [Bearer -> SUBSET Bearer]]
  /\ \A g \in Gateway, b \in Bearer :
       /\ b \in Sockets[g][b]
       /\ \A c \in Sockets[g][b] : /\ Proto[c] = Proto[b]
                                   /\ Proto[c] = "tcp" => c = b
  /\ Source \in [Packet -> [gw: Gateway, dev: Dev]] /\ Junk \subseteq Nat
  /\ Faulty \subseteq Bearer /\ IsFiniteSet(Bearer)
  /\ NoDev \notin Dev /\ NoPkt \notin Packet
  /\ MaxReadFail \in Nat /\ MaxBoot \in Nat
  /\ DOMAIN Flow = Packet /\ DOMAIN UniqueId = Packet /\ Icmp \subseteq Packet

VARIABLES
  up,             \* up[g]: the process runs
  boot,           \* boot[g]: how many times it has been restarted
  next,           \* next[g]: index in Order[g] of the next bearer to add
  devs,           \* VirtualIfMgr::_devs, its keys
  front,          \* the key at _devs.begin(), or NoDev
  rpeer2dev,      \* MpTunnelMgr::_rpeer2dev, NoDev where it has no entry
  dev2mpTunnel,   \* MpTunnelMgr::_dev2mpTunnel, << >> where it has no entry
  xmit,           \* the transmit thread: pc and its local variables
  recv,           \* recv[g][b]: the receive thread of bearer b
  dup,            \* the static Ip4DupDetector of the process
  tap,            \* tap[g][d]: packets the host has written to device d
  net,            \* messages in flight
  out,            \* out[g]: packets the process has announced, in order
  written,        \* packets the host has written so far
  idOf            \* auxiliary: the pktid p was sent with, 0 before

vars == <<up, boot, next, devs, front, rpeer2dev, dev2mpTunnel, xmit, recv,
          dup, tap, net, out, written, idOf>>

\* Untouched by everything but the main thread.
cfgVars == <<next, devs, front, rpeer2dev, dev2mpTunnel>>

\* A message sent on bearer via arrives at the socket of bearer at.  form is
\* auxiliary: "whole" for a message that is as it was sent.
Msg == [to: Gateway, via: Bearer, at: Bearer, id: Nat, pkt: Packet,
        form: {"whole", "cut"}]
NoMsg == [to |-> NoDev, via |-> NoDev, at |-> NoDev, id |-> 0, pkt |-> NoPkt,
          form |-> "cut"]

Numbered(b) == Proto[b] \in {"udp", "tcp"}

XmitIdle == [pc |-> "none", dev |-> NoDev, pkt |-> NoPkt, pktid |-> 0,
             paths |-> << >>]
RecvIdle == [pc |-> "none", msg |-> NoMsg]

Init ==
  /\ up = [g \in Gateway |-> TRUE]
  /\ boot = [g \in Gateway |-> 0]
  /\ next = [g \in Gateway |-> 1]
  /\ devs = [g \in Gateway |-> {}]
  /\ front = [g \in Gateway |-> NoDev]
  /\ rpeer2dev = [g \in Gateway |-> [a \in Addr |-> NoDev]]
  /\ dev2mpTunnel = [g \in Gateway |-> [d \in Dev |-> << >>]]
  /\ xmit = [g \in Gateway |-> XmitIdle]
  /\ recv = [g \in Gateway |-> [b \in Bearer |-> RecvIdle]]
  /\ dup = [g \in Gateway |-> NewDetector]
  /\ tap = [g \in Gateway |-> [d \in Dev |-> << >>]]
  /\ net = {}
  /\ out = [g \in Gateway |-> << >>]
  /\ written = {}
  /\ idOf = [p \in Packet |-> 0]

-----------------------------------------------------------------------------
(***************************************************************************)
(* The process.  Everything it holds is lost when it ends, its devices     *)
(* with the packets queued in them included.                               *)
(***************************************************************************)
ProcessEnds(g) ==
  /\ up' = [up EXCEPT ![g] = FALSE]
  /\ next' = [next EXCEPT ![g] = 1]
  /\ devs' = [devs EXCEPT ![g] = {}]
  /\ front' = [front EXCEPT ![g] = NoDev]
  /\ rpeer2dev' = [rpeer2dev EXCEPT ![g] = [a \in Addr |-> NoDev]]
  /\ dev2mpTunnel' = [dev2mpTunnel EXCEPT ![g] = [d \in Dev |-> << >>]]
  /\ xmit' = [xmit EXCEPT ![g] = XmitIdle]
  /\ recv' = [recv EXCEPT ![g] = [b \in Bearer |-> RecvIdle]]
  /\ dup' = [dup EXCEPT ![g] = NewDetector]
  /\ tap' = [tap EXCEPT ![g] = [d \in Dev |-> << >>]]
  /\ out' = [out EXCEPT ![g] = << >>]
  /\ UNCHANGED <<boot, net, written, idOf>>

Crash(g) == up[g] /\ boot[g] < MaxBoot /\ ProcessEnds(g)

Restart(g) ==
  /\ ~up[g] /\ boot[g] < MaxBoot
  /\ up' = [up EXCEPT ![g] = TRUE]
  /\ boot' = [boot EXCEPT ![g] = @ + 1]
  /\ UNCHANGED <<cfgVars, xmit, recv, dup, tap, net, out, written, idOf>>

-----------------------------------------------------------------------------
(***************************************************************************)
(* MpTunnelMgr::addBearer, called by TunnelBuilder::createTunnel for each  *)
(* bearer in turn, under the manager's lock.  Its caller goes on to the    *)
(* next bearer whatever it returns.                                        *)
(***************************************************************************)
Adding(g, b) == up[g] /\ next[g] <= Len(Order[g]) /\ b = Order[g][next[g]]

NextBearer(g) == next' = [next EXCEPT ![g] = @ + 1]

\* VirtualIfMgr::addIf; where the hash table puts a new key is not determined.
AddIf(g, d) ==
  /\ devs' = [devs EXCEPT ![g] = @ \cup {d}]
  /\ IF d \in devs[g] THEN UNCHANGED front
     ELSE \E f \in devs[g] \cup {d} : front' = [front EXCEPT ![g] = f]

\* The path just made is destroyed.  A TCP path has started its connection
\* thread by then, nothing joins it, and std::thread's destructor terminates
\* the process.
DropPath(g, b) ==
  IF Proto[b] = "tcp" THEN ProcessEnds(g)
  ELSE /\ NextBearer(g)
       /\ UNCHANGED <<up, boot, rpeer2dev, dev2mpTunnel, xmit, recv, dup, tap,
                      net, out, written, idOf>>

\* make*Socket or makeTcpConnection fails.
AddBearerNoTransport(g, b) ==
  /\ Adding(g, b) /\ b \in Faulty
  /\ NextBearer(g)
  /\ UNCHANGED <<up, boot, devs, front, rpeer2dev, dev2mpTunnel, xmit, recv,
                 dup, tap, net, out, written, idOf>>

\* The device cannot be created.
AddBearerNoIf(g, b) ==
  /\ Adding(g, b) /\ b \in Faulty
  /\ Ifname[g][b] \notin devs[g]
  /\ DropPath(g, b)
  /\ (Proto[b] # "tcp") => UNCHANGED <<devs, front>>

\* The remote address is registered already, for this tunnel or for another;
\* the device stays.
AddBearerRefused(g, b) ==
  /\ Adding(g, b)
  /\ rpeer2dev[g][Remote[g][b]] # NoDev
  /\ DropPath(g, b)
  /\ (Proto[b] # "tcp") => AddIf(g, Ifname[g][b])

\* Mutant: an address that is registered already is taken over.
AddBearerUnchecked(g, b) ==
  LET d == Ifname[g][b] IN
  /\ Adding(g, b)
  /\ NextBearer(g)
  /\ AddIf(g, d)
  /\ rpeer2dev' = [rpeer2dev EXCEPT ![g][Remote[g][b]] = d]
  /\ dev2mpTunnel' = [dev2mpTunnel EXCEPT ![g][d] = Append(@, b)]
  /\ xmit' = IF xmit[g].pc = "none" THEN [xmit EXCEPT ![g].pc = "get"] ELSE xmit
  /\ recv' = [recv EXCEPT ![g][b] = [RecvIdle EXCEPT !.pc = "poll"]]
  /\ UNCHANGED <<up, boot, dup, tap, net, out, written, idOf>>

\* The path joins the tunnel, the transmit thread starts unless it runs, and
\* the path's receive thread starts.
AddBearer(g, b) ==
  LET d == Ifname[g][b] IN
  /\ Adding(g, b)
  /\ rpeer2dev[g][Remote[g][b]] = NoDev
  /\ NextBearer(g)
  /\ AddIf(g, d)
  /\ rpeer2dev' = [rpeer2dev EXCEPT ![g][Remote[g][b]] = d]
  /\ dev2mpTunnel' = [dev2mpTunnel EXCEPT ![g][d] = Append(@, b)]
  /\ xmit' = IF xmit[g].pc = "none" THEN [xmit EXCEPT ![g].pc = "get"] ELSE xmit
  /\ recv' = [recv EXCEPT ![g][b] = [RecvIdle EXCEPT !.pc = "poll"]]
  /\ UNCHANGED <<up, boot, dup, tap, net, out, written, idOf>>

-----------------------------------------------------------------------------
\* The host writes a packet to a device that exists.
HostWrite(p) ==
  LET s == Source[p] IN
  /\ p \notin written
  /\ s.dev \in devs[s.gw]
  /\ written' = written \cup {p}
  /\ tap' = [tap EXCEPT ![s.gw][s.dev] = Append(@, p)]
  /\ UNCHANGED <<up, boot, cfgVars, xmit, recv, dup, net, out, idOf>>

(***************************************************************************)
(* tunnelXmitThreadFunc, one thread per process.                           *)
(***************************************************************************)
xmitUnchanged == UNCHANGED <<up, boot, cfgVars, recv, dup, out, written>>

\* VirtualIfMgr::getPacket takes the first device and blocks in read.
XmitGetPacket(g) ==
  /\ xmit[g].pc = "get"
  /\ xmit' = [xmit EXCEPT ![g] = [@ EXCEPT !.pc = "read", !.dev = front[g]]]
  /\ xmitUnchanged /\ UNCHANGED <<tap, net, idOf>>

\* Mutant: packets are not counted.
XmitReadUncounted(g) ==
  LET d == xmit[g].dev  p == Head(tap[g][d])  n == xmit[g].pktid IN
  /\ xmit[g].pc = "read"
  /\ tap[g][d] # << >>
  /\ tap' = [tap EXCEPT ![g][d] = Tail(@)]
  /\ xmit' = [xmit EXCEPT ![g] = [@ EXCEPT !.pc = "lookup", !.pkt = p]]
  /\ idOf' = [idOf EXCEPT ![p] = n]
  /\ xmitUnchanged /\ UNCHANGED net

\* A packet is read; pktid counts it.
XmitRead(g) ==
  LET d == xmit[g].dev  p == Head(tap[g][d])  n == xmit[g].pktid + 1 IN
  /\ xmit[g].pc = "read"
  /\ tap[g][d] # << >>
  /\ tap' = [tap EXCEPT ![g][d] = Tail(@)]
  /\ xmit' = [xmit EXCEPT ![g] = [@ EXCEPT !.pc = "lookup", !.pkt = p, !.pktid = n]]
  /\ idOf' = [idOf EXCEPT ![p] = n]
  /\ xmitUnchanged /\ UNCHANGED net

\* Mutant: the number of a failed read is given back once too often.
XmitReadGivesBack(g) ==
  /\ xmit[g].pc = "read"
  /\ xmit[g].pktid < MaxReadFail
  /\ xmit' = [xmit EXCEPT ![g] = [@ EXCEPT !.pc = "get",
                                            !.pktid = xmit[g].pktid - 1]]
  /\ xmitUnchanged /\ UNCHANGED <<tap, net, idOf>>

\* The read fails: pktid is incremented nevertheless.
XmitReadFails(g) ==
  /\ xmit[g].pc = "read"
  /\ xmit[g].pktid < MaxReadFail
  /\ xmit' = [xmit EXCEPT ![g] = [@ EXCEPT !.pc = "get",
                                            !.pktid = xmit[g].pktid + 1]]
  /\ xmitUnchanged /\ UNCHANGED <<tap, net, idOf>>

\* getMpTunnel copies the list of paths under the lock; when the device has no
\* tunnel it throws and the packet is dropped.
XmitLookup(g) ==
  LET paths == dev2mpTunnel[g][xmit[g].dev] IN
  /\ xmit[g].pc = "lookup"
  /\ xmit' = [xmit EXCEPT ![g] =
                [@ EXCEPT !.pc = IF paths = << >> THEN "get" ELSE "send",
                          !.paths = paths]]
  /\ xmitUnchanged /\ UNCHANGED <<tap, net, idOf>>

\* Mutant: pktid counts messages, not packets.
MsgNumbered(g, b, c) == [to |-> Peer[g][b], via |-> b, at |-> c,
                         pkt |-> xmit[g].pkt, form |-> "whole",
                         id |-> IF Numbered(b)
                                THEN xmit[g].pktid + Len(xmit[g].paths) ELSE 0]

\* The message for the next path, b, at the socket of c.  A GRE message carries
\* no pktid.
MsgFor(g, b, c) == [to |-> Peer[g][b], via |-> b, at |-> c, pkt |-> xmit[g].pkt,
                    form |-> "whole",
                    id |-> IF Numbered(b) THEN xmit[g].pktid ELSE 0]

\* The sets of messages that one call of sendto may put on the way.  Every raw
\* socket bound to the address gets a copy; of the UDP sockets, which bind with
\* SO_REUSEADDR, one gets it, and the kernel says which.
Copies(g, b) ==
  LET all == {MsgFor(g, b, c) : c \in Sockets[Peer[g][b]][b]} IN
  IF Proto[b] = "gre" THEN {all} ELSE {{m} : m \in all}

\* The loop goes on to the next path whether or not this one takes the message
\* (sendto's -1 is a large size_t, a full TCP queue is skipped).
XmitAdvance(g) ==
  LET rest == Tail(xmit[g].paths) IN
  xmit' = [xmit EXCEPT ![g] =
             [@ EXCEPT !.pc = IF rest = << >> THEN "get" ELSE "send",
                       !.paths = rest]]

XmitSend(g) ==
  /\ xmit[g].pc = "send"
  /\ \E ms \in Copies(g, Head(xmit[g].paths)) : net' = net \cup ms
  /\ XmitAdvance(g)
  /\ xmitUnchanged /\ UNCHANGED <<tap, idOf>>

\* Mutant: a failure gives up the other paths.
XmitSendGivesUp(g) ==
  /\ xmit[g].pc = "send"
  /\ Head(xmit[g].paths) \in Faulty
  /\ xmit' = [xmit EXCEPT ![g] = [@ EXCEPT !.pc = "get", !.paths = << >>]]
  /\ xmitUnchanged /\ UNCHANGED <<tap, net, idOf>>

XmitSendFails(g) ==
  /\ xmit[g].pc = "send"
  /\ Head(xmit[g].paths) \in Faulty
  /\ XmitAdvance(g)
  /\ xmitUnchanged /\ UNCHANGED <<tap, net, idOf>>

-----------------------------------------------------------------------------
(***************************************************************************)
(* tunnelRecvThreadFunc, one thread per bearer; the detector is shared by  *)
(* all of them, and locks itself.                                          *)
(***************************************************************************)
recvUnchanged == UNCHANGED <<up, boot, cfgVars, xmit, tap, written, idOf>>

\* What recvMessage can return for m.  When a TCP connection fails in the last
\* eight bytes of a message, the packet is all there, and zeroes stand for the
\* missing bytes of its number, the high ones (numbers are below 2^32 here);
\* TcpConnectionMgr, which shows how, sends the message again later.
Arrivals(m) ==
  {m} \cup IF Proto[m.via] = "tcp" /\ m.via \in Faulty
           THEN {[m EXCEPT !.id = m.id % w, !.form = "cut"] :
                   w \in {1, 256, 65536, 16777216}}
           ELSE {}

\* A message arrives; a faulty bearer may deliver it again later.  Where it
\* comes from is not looked at.
RecvPoll(g, b) ==
  /\ recv[g][b].pc = "poll"
  /\ \E m \in net :
       /\ m.to = g /\ m.at = b
       /\ \E r \in Arrivals(m) :
            recv' = [recv EXCEPT ![g][b] = [pc |-> "check", msg |-> r]]
       /\ net' = net \ {m} \/ (m.via \in Faulty /\ UNCHANGED net)
  /\ recvUnchanged /\ UNCHANGED <<dup, out>>

\* The duplicate test: by pktid on UDP and TCP, by IP header and for ICMP only
\* on GRE.
IsDuplicate(g, b) ==
  LET m == recv[g][b].msg IN
  IF Numbered(b) THEN IdIsDuplicate(dup[g], m.id)
                 ELSE m.pkt \in Icmp /\ PktIsDuplicate(dup[g], m.pkt)

\* Mutant: only UDP messages are recorded.
DetectorAfterUdp(g, b) ==
  LET m == recv[g][b].msg IN
  IF Proto[b] = "udp" THEN AfterId(dup[g], m.id) ELSE dup[g]

DetectorAfter(g, b) ==
  LET m == recv[g][b].msg IN
  CASE Numbered(b) -> AfterId(dup[g], m.id)
    [] ~Numbered(b) /\ m.pkt \in Icmp -> AfterPkt(dup[g], m.pkt)
    [] OTHER -> dup[g]

RecvDiscard(g, b) ==
  /\ recv[g][b].pc = "check"
  /\ IsDuplicate(g, b)
  /\ dup' = [dup EXCEPT ![g] = DetectorAfter(g, b)]
  /\ recv' = [recv EXCEPT ![g][b].pc = "poll"]
  /\ recvUnchanged /\ UNCHANGED <<net, out>>

RecvAccept(g, b) ==
  /\ recv[g][b].pc = "check"
  /\ ~IsDuplicate(g, b)
  /\ dup' = [dup EXCEPT ![g] = DetectorAfter(g, b)]
  /\ recv' = [recv EXCEPT ![g][b].pc = "announce"]
  /\ recvUnchanged /\ UNCHANGED <<net, out>>

\* VirtualIfMgr::announcePacket on the device the thread was started for.
RecvAnnounce(g, b) ==
  /\ recv[g][b].pc = "announce"
  /\ out' = [out EXCEPT ![g] = Append(@, [dev |-> Ifname[g][b],
                                          pkt |-> recv[g][b].msg.pkt,
                                          form |-> recv[g][b].msg.form])]
  /\ recv' = [recv EXCEPT ![g][b].pc = "poll"]
  /\ recvUnchanged /\ UNCHANGED <<dup, net>>

\* recvfrom fails.  Its -1 becomes a length of 2^64 - 1, which passes for a
\* message: the thread takes for a pktid the eight bytes at buf - 9, which are
\* none of buf, and asks the detector about it.  Whatever the answer, no packet
\* comes of it: announcePacket limits the length to 65536 and stores it in 16
\* bits, as 0 (VirtualIfMgr.cc, line 69), and the device refuses an empty write.
\* On GRE there is no pktid, and what buf holds, nothing or the outer header of
\* a GRE packet, is not ICMP: nothing changes.
RecvFails(g, b) ==
  /\ recv[g][b].pc = "poll" /\ b \in Faulty /\ Proto[b] = "udp"
  /\ \E n \in Junk : dup' = [dup EXCEPT ![g] = AfterId(@, n)]
  /\ recvUnchanged /\ UNCHANGED <<recv, net, out>>

\* The poll of a socket reports an error: the thread returns.
RecvDies(g, b) ==
  /\ recv[g][b].pc = "poll" /\ b \in Faulty /\ Proto[b] # "tcp"
  /\ recv' = [recv EXCEPT ![g][b].pc = "dead"]
  /\ recvUnchanged /\ UNCHANGED <<dup, net, out>>

\* A message is lost on a faulty bearer, or when nobody listens at its end.
Lose(m) ==
  /\ \/ m.via \in Faulty \/ m.at \in Faulty
     \/ recv[m.to][m.at].pc \in {"none", "dead"}
  /\ net' = net \ {m}
  /\ recvUnchanged /\ UNCHANGED <<recv, dup, out>>

-----------------------------------------------------------------------------
Build(g) == \E b \in Bearer : \/ AddBearerNoTransport(g, b)
                              \/ AddBearerNoIf(g, b)
                              \/ AddBearerRefused(g, b)
                              \/ AddBearer(g, b)

Xmit(g) == \/ XmitGetPacket(g) \/ XmitRead(g) \/ XmitReadFails(g)
           \/ XmitLookup(g) \/ XmitSend(g) \/ XmitSendFails(g)

Recv(g, b) == \/ RecvPoll(g, b) \/ RecvDiscard(g, b) \/ RecvAccept(g, b)
              \/ RecvAnnounce(g, b) \/ RecvFails(g, b) \/ RecvDies(g, b)

Next == \/ \E g \in Gateway : \/ Crash(g) \/ Restart(g)
                              \/ Build(g) \/ Xmit(g)
                              \/ \E b \in Bearer : Recv(g, b)
        \/ \E p \in Packet : HostWrite(p)
        \/ \E m \in net : Lose(m)

Spec == Init /\ [][Next]_vars

\* Every thread of a running process is scheduled; host and network owe nothing.
Fairness == \A g \in Gateway : /\ WF_vars(Build(g)) /\ WF_vars(Xmit(g))
                               /\ \A b \in Bearer : WF_vars(Recv(g, b))

FairSpec == Spec /\ Fairness

-----------------------------------------------------------------------------
(***************************************************************************)
(* Properties.                                                             *)
(***************************************************************************)
XmitThread == [pc: {"none", "get", "read", "lookup", "send"},
               dev: Dev \cup {NoDev}, pkt: Packet \cup {NoPkt},
               pktid: Nat, paths: Seq(Bearer)]
RecvThread == [pc: {"none", "poll", "check", "announce", "dead"},
               msg: Msg \cup {NoMsg}]

Announcement == [dev: Dev, pkt: Packet, form: {"whole", "cut"}]

CfgTypeOK ==
  /\ up \in [Gateway -> BOOLEAN] /\ boot \in [Gateway -> Nat]
  /\ next \in [Gateway -> Nat]
  /\ devs \in [Gateway -> SUBSET Dev]
  /\ front \in [Gateway -> Dev \cup {NoDev}]
  /\ rpeer2dev \in [Gateway -> [Addr -> Dev \cup {NoDev}]]
  /\ dev2mpTunnel \in [Gateway -> [Dev -> Seq(Bearer)]]

ThreadTypeOK ==
  /\ xmit \in [Gateway -> XmitThread]
  /\ recv \in [Gateway -> [Bearer -> RecvThread]]
  /\ dup \in [Gateway -> Detector]

DataTypeOK ==
  /\ tap \in [Gateway -> [Dev -> Seq(Packet)]]
  /\ net \subseteq Msg
  /\ out \in [Gateway -> Seq(Announcement)]
  /\ written \subseteq Packet /\ idOf \in [Packet -> Nat]

\* The type invariant, in three parts: the tables, the threads' locals and the
\* messages hold values of the kind the code stores in them.
TypeOK == CfgTypeOK /\ ThreadTypeOK /\ DataTypeOK

\* The bearers of the tunnel p is written to, and the devices they lead to:
\* those of their own tunnel, and those of the tunnels that share their sockets.
PathsOf(p) == {b \in Bearer : Ifname[Source[p].gw][b] = Source[p].dev}
LeadsTo(p, b, e) == /\ e.gw = Peer[Source[p].gw][b]
                    /\ \E c \in Sockets[e.gw][b] : e.dev = Ifname[e.gw][c]
Exits == [p \in Packet |-> {e \in [gw: Gateway, dev: Dev] :
                             \E b \in PathsOf(p) : LeadsTo(p, b, e)}]

\* The packets whose duplicates are recognised on every bearer of their tunnel.
Filtered == {p \in Packet : \A b \in PathsOf(p) : Numbered(b)}

Announced(g) == {out[g][i].pkt : i \in DOMAIN out[g]}
Announcing(g) == {recv[g][b].msg.pkt : b \in {c \in Bearer :
                                               recv[g][c].pc = "announce"}}

\* A packet mirrored over several UDP or TCP bearers, and duplicated by the
\* network at that, is announced at most once by one run of the process: the
\* receive threads' test and insert in the shared detector is what makes the
\* copies race safely.  The copies that a TCP connection has cut short are not
\* counted: their number is wrong.
AnnouncedOnce ==
  \A g \in Gateway : \A i, j \in DOMAIN out[g] :
    /\ out[g][i].pkt = out[g][j].pkt /\ out[g][i].pkt \in Filtered
    /\ out[g][i].form = "whole" /\ out[g][j].form = "whole"
    => i = j

\* The ICMP packets mirrored over at most two bearers, GRE bearers that work and
\* whose sockets share no address at the other end, and told apart by their
\* digest from the other ICMP packets of their flow (IpPacketParser says which
\* packets a digest can confuse).
Paired == {p \in Icmp :
             /\ \A b \in PathsOf(p) : /\ Proto[b] = "gre" /\ b \notin Faulty
                                 /\ Sockets[Peer[Source[p].gw][b]][b] = {b}
             /\ Cardinality(PathsOf(p)) <= 2
             /\ \A q \in Icmp : Flow[q] = Flow[p] /\ UniqueId[q] = UniqueId[p] => q = p}

\* An ICMP packet mirrored over two working GRE bearers is announced once,
\* although the detector forgets digests when its history is full: it forgets
\* only those whose second copy has come (Ip4DupDetector.cc, lines 19-31).  Two
\* packets with one digest would use up each other's entry in the history.
IcmpAnnouncedOnce ==
  \A g \in Gateway : \A i, j \in DOMAIN out[g] :
    out[g][i].pkt = out[g][j].pkt /\ out[g][i].pkt \in Paired => i = j

\* The tables addBearer writes under the lock agree: the paths of a tunnel are
\* the bearers that have a receive thread, each is registered under its remote
\* address, no address serves two paths, and the transmit thread runs as soon
\* as there is a path (addBearer, lines 490-534).
TablesAgree ==
  \A g \in Gateway :
    /\ \A d \in Dev : \A i \in DOMAIN dev2mpTunnel[g][d] :
         LET b == dev2mpTunnel[g][d][i] IN
         /\ d = Ifname[g][b] /\ d \in devs[g]
         /\ rpeer2dev[g][Remote[g][b]] = d
         /\ recv[g][b].pc # "none"
         /\ xmit[g].pc # "none"
         /\ \A j \in DOMAIN dev2mpTunnel[g][d] :
              Remote[g][dev2mpTunnel[g][d][j]] = Remote[g][b] => j = i
    /\ \A b \in Bearer : recv[g][b].pc # "none" =>
         \E i \in DOMAIN dev2mpTunnel[g][Ifname[g][b]] :
           dev2mpTunnel[g][Ifname[g][b]][i] = b
    /\ xmit[g].pc # "none" => front[g] # NoDev

\* What a receive thread discards as a duplicate was already accepted by this
\* run of the process ("discarded DUP PACKET", line 248).
OnlyDuplicatesDiscarded ==
  [][\A g \in Gateway, b \in Bearer :
       recv[g][b].pc = "check" /\ recv'[g][b].pc = "poll"
         => recv[g][b].msg.pkt \in Announced(g) \cup Announcing(g)]_vars

\* A tunnel masks the failure of its other bearers: a packet about to be sent
\* on a bearer that works, to a gateway that listens on it with a socket of its
\* own, is announced there whatever the faulty bearers do to their copies,
\* unless a failed read has found the packet's number on the stack.
Redundancy ==
  \A p \in Packet, b \in Bearer \ Faulty :
    LET g == Source[p].gw  h == Peer[g][b] IN
      (/\ xmit[g].pc = "send" /\ xmit[g].pkt = p
       /\ \E i \in DOMAIN xmit[g].paths : xmit[g].paths[i] = b
       /\ Sockets[h][b] = {b} /\ idOf[p] \notin Junk
       /\ recv[h][b].pc # "none") ~> (p \in Announced(h))

\* Every packet the host writes to a device that has a tunnel is read and sent
\* on ("There is a single tx thread for all the tunnels", line 511).
AllTunnelsServed ==
  \A g \in Gateway, d \in Dev, p \in Packet :
    (/\ dev2mpTunnel[g][d] # << >>
     /\ \E i \in DOMAIN tap[g][d] : tap[g][d][i] = p) ~> (idOf[p] # 0)

-----------------------------------------------------------------------------
(***************************************************************************)
(* The inductive invariant behind AnnouncedOnce and PathSpec, in named     *)
(* parts.  The chain is: a packet is read once, so it has one pktid        *)
(* (IdInv, TapInv, XmitInv); every copy carries that pktid and stays       *)
(* within the tunnel (TunnelInv, NetInv, RecvInv); a pktid is in the       *)
(* detector from before its packet is announced (SeenInv).                 *)
(***************************************************************************)
DevInv ==
  \A g \in Gateway : /\ devs[g] # {} => front[g] \in Dev
                     /\ xmit[g].pc # "none" => devs[g] # {}
                     /\ xmit[g].pc = "read" => xmit[g].dev \in Dev

TunnelInv ==
  \A g \in Gateway, d \in Dev : \A i \in DOMAIN dev2mpTunnel[g][d] :
    Ifname[g][dev2mpTunnel[g][d][i]] = d

IdInv == \A p \in Packet : idOf[p] # 0 => p \in written

TapInv ==
  \A g \in Gateway, d \in Dev : \A i \in DOMAIN tap[g][d] :
    /\ tap[g][d][i] \in written
    /\ idOf[tap[g][d][i]] = 0
    /\ Source[tap[g][d][i]] = [gw |-> g, dev |-> d]
    /\ \A j \in DOMAIN tap[g][d] : tap[g][d][i] = tap[g][d][j] => i = j

XmitInv ==
  \A g \in Gateway :
    /\ xmit[g].pc \in {"lookup", "send"} =>
         /\ xmit[g].pkt \in written
         /\ idOf[xmit[g].pkt] = xmit[g].pktid /\ xmit[g].pktid # 0
         /\ Source[xmit[g].pkt] = [gw |-> g, dev |-> xmit[g].dev]
    /\ xmit[g].pc = "send" =>
         /\ xmit[g].paths # << >>
         /\ \A i \in DOMAIN xmit[g].paths :
              Ifname[g][xmit[g].paths[i]] = xmit[g].dev

\* What holds of a message wherever it is.
Travels(m) ==
  /\ m.pkt \in written /\ idOf[m.pkt] # 0
  /\ m.via \in PathsOf(m.pkt)
  /\ m.to = Peer[Source[m.pkt].gw][m.via] /\ m.at \in Sockets[m.to][m.via]
  /\ Numbered(m.via) /\ m.form = "whole" => m.id = idOf[m.pkt]

NetInv == \A m \in net : Travels(m)

RecvInv ==
  \A g \in Gateway, b \in Bearer :
    recv[g][b].pc \in {"check", "announce"} =>
      /\ recv[g][b].msg \in Msg /\ Travels(recv[g][b].msg)
      /\ recv[g][b].msg.to = g /\ recv[g][b].msg.at = b

\* b's thread is about to announce a whole message; p has passed the test of
\* g's detector.
Ready(g, b) == recv[g][b].pc = "announce" /\ recv[g][b].msg.form = "whole"
Seen(g, p) == p \in Filtered => idOf[p] \in dup[g].ids

SeenInv ==
  \A g \in Gateway :
    /\ \A i \in DOMAIN out[g] : /\ idOf[out[g][i].pkt] # 0
                                /\ out[g][i].form = "whole" => Seen(g, out[g][i].pkt)
    /\ \A b \in Bearer : Ready(g, b) =>
         LET p == recv[g][b].msg.pkt IN
         /\ Seen(g, p)
         /\ p \in Filtered =>
              /\ \A i \in DOMAIN out[g] : out[g][i].form = "whole" => out[g][i].pkt # p
              /\ \A c \in Bearer : Ready(g, c) /\ recv[g][c].msg.pkt = p => c = b

IInv == TypeOK /\ DevInv /\ TunnelInv /\ IdInv /\ TapInv /\ XmitInv /\ NetInv
        /\ RecvInv /\ SeenInv /\ AnnouncedOnce

(***************************************************************************)
(* The inductive invariant behind IcmpAnnouncedOnce.  A bearer that works  *)
(* carries one copy of a packet, which is first to be sent, then in        *)
(* flight, then tested, and is gone once it has been tested.  The history  *)
(* holds a digest only when no copy is left to come, so that forgetting it *)
(* lets nothing pass.                                                      *)
(***************************************************************************)
Unsent(p, b) ==
  \/ idOf[p] = 0
  \/ LET t == xmit[Source[p].gw] IN
     /\ t.pkt = p
     /\ \/ t.pc = "lookup"
        \/ t.pc = "send" /\ \E i \in DOMAIN t.paths : t.paths[i] = b
Flying(p, b) == \E m \in net : m.pkt = p /\ m.via = b
Testing(p, b) ==
  LET t == recv[Peer[Source[p].gw][b]][b] IN t.pc = "check" /\ t.msg.pkt = p

\* The bearers on which a copy of p is still to come to h.
Coming(h, p) == {b \in PathsOf(p) : /\ Peer[Source[p].gw][b] = h
                                    /\ Unsent(p, b) \/ Flying(p, b) \/ Testing(p, b)}

PathsInv == \A g \in Gateway : xmit[g].pc = "send" =>
              \A i, j \in DOMAIN xmit[g].paths :
                xmit[g].paths[i] = xmit[g].paths[j] => i = j

CopyInv ==
  \A p \in Paired : \A b \in PathsOf(p) :
    /\ ~(Unsent(p, b) /\ Flying(p, b))
    /\ ~(Unsent(p, b) /\ Testing(p, b))
    /\ ~(Flying(p, b) /\ Testing(p, b))
    /\ \A m, n \in net : m.pkt = p /\ m.via = b /\ n.pkt = p /\ n.via = b => m = n

InTable(h, p) == UniqueId[p] \in dup[h].tbl[Flow[p]]
InHistory(h, p) == UniqueId[p] \in Range_(dup[h].hist[Flow[p]])

DigestInv ==
  \A h \in Gateway, p \in Paired :
    /\ InTable(h, p) => \A b, c \in Coming(h, p) : b = c
    /\ InHistory(h, p) => Coming(h, p) = {}
    /\ p \in Announced(h) \cup Announcing(h) => InTable(h, p) \/ Coming(h, p) = {}

HandedInv ==
  \A h \in Gateway, b \in Bearer :
    LET p == recv[h][b].msg.pkt IN
      recv[h][b].pc = "announce" /\ p \in Paired =>
        /\ p \notin Announced(h)
        /\ \A c \in Bearer :
             recv[h][c].pc = "announce" /\ recv[h][c].msg.pkt = p => c = b

IcmpInv == PathsInv /\ CopyInv /\ DigestInv /\ HandedInv /\ IcmpAnnouncedOnce

(***************************************************************************)
(* The inductive invariant behind OnlyDuplicatesDiscarded.  Nothing marks  *)
(* a pktid with its sender, so it says which packet it numbers only where  *)
(* the packets come from one gateway that has not been restarted, no TCP   *)
(* connection cuts a number short, and no failed read puts a number in the *)
(* detector; likewise a digest, only where no other packet has it.         *)
(***************************************************************************)
Ends(p) == {Peer[Source[p].gw][b] : b \in PathsOf(p)}

\* The gateways that can tell the packets led to them.
Lone == {h \in Gateway : \A p, q \in Packet : h \in Ends(p) /\ h \in Ends(q) =>
           /\ Source[p].gw = Source[q].gw
           /\ \A b \in PathsOf(p) : ~(Proto[b] = "tcp" /\ b \in Faulty)
           /\ p \in Icmp /\ q \in Icmp /\ Flow[p] = Flow[q] /\ UniqueId[p] = UniqueId[q]
                => p = q}

Handed(h, p) == p \in Announced(h) \cup Announcing(h)

NumberInv ==
  \A g \in Gateway : boot[g] = 0 =>
    /\ ~up[g] => xmit[g].pc = "none"
    /\ \A p \in Packet : Source[p].gw = g /\ idOf[p] # 0 =>
         /\ up[g] => idOf[p] <= xmit[g].pktid
         /\ \A q \in Packet : Source[q].gw = g /\ idOf[q] = idOf[p] => q = p

WholeInv ==
  /\ \A m \in net : m.form = "whole"
  /\ \A h \in Lone, b \in Bearer :
       recv[h][b].pc \in {"check", "announce"} => recv[h][b].msg.form = "whole"

RecordedInv ==
  \A h \in Lone :
    /\ \A id \in dup[h].ids \ Junk : \E p \in Packet :
         idOf[p] = id /\ id # 0 /\ h \in Ends(p) /\ Handed(h, p)
    /\ \A p \in Icmp : h \in Ends(p) /\ InTable(h, p) => Handed(h, p)

DiscardInv == NumberInv /\ WholeInv /\ RecordedInv

\* What a gateway of Lone discards, while the sender has not been restarted, it
\* has accepted before, unless a failed read may have found its number on the
\* stack ("discarded DUP PACKET", line 248).
LoneDiscards ==
  [][\A h \in Lone, b \in Bearer :
       LET p == recv[h][b].msg.pkt IN
         /\ recv[h][b].pc = "check" /\ recv'[h][b].pc = "poll"
         /\ boot[Source[p].gw] = 0 /\ (Numbered(b) => idOf[p] \notin Junk)
         => Handed(h, p)]_vars

-----------------------------------------------------------------------------
\* What a tunnel promises, whatever the network does (see PacketPath).
Path == INSTANCE PacketPath WITH
          offered <- written,
          delivered <- out

PathSpec == Path!Spec
=============================================================================
