--------------------------- MODULE MpTunnel_proofs ---------------------------
(***************************************************************************)
(* Proofs about MpTunnel, for any number of gateways, tunnels, bearers and *)
(* packets: its type invariant, that a mirrored packet is announced at     *)
(* most once, whether its bearers number it or carry it in GRE, that what  *)
(* is discarded was accepted before, that the tables agree, and that the   *)
(* gateways implement PacketPath.  The invariants they rest on, IInv,      *)
(* IcmpInv and DiscardInv, are in MpTunnel.                                *)
(*                                                                         *)
(* Order: the types; what the transmit and receive threads may do to their *)
(* own state in one step; then one lemma per part of IInv; the tables; the *)
(* ICMP packets of GRE bearers; the steps of PacketPath; what is           *)
(* discarded; the digest of a packet's header.                             *)
(***************************************************************************)
EXTENDS MpTunnel, IpPacketParser, FiniteSetTheorems, TLAPS

LEMMA DetectorType ==
  ASSUME NEW det \in Detector
  PROVE  /\ \A id \in Nat : AfterId(det, id) \in Detector
         /\ \A p \in Packet : AfterPkt(det, p) \in Detector
<1>1. \A id \in Nat : AfterId(det, id) \in Detector
  BY DEF AfterId, Detector
<1>2. ASSUME NEW p \in Packet PROVE AfterPkt(det, p) \in Detector
  <2> DEFINE f == Flow[p]  u == UniqueId[p]  h == Append(det.hist[f], u)
  <2>1. f \in Flows /\ u \in Range_(UniqueId)
    BY ConfigAssumption DEF Flows, Range_
  <2>2. h \in Seq(Range_(UniqueId)) /\ h # << >>
    BY <2>1 DEF Detector
  <2>3. Tail(h) \in Seq(Range_(UniqueId))
    BY <2>2
  <2> HIDE DEF f, u, h
  <2>4. [det EXCEPT !.tbl[f] = @ \cup {u}] \in Detector
    BY <2>1 DEF Detector
  <2>5. [det EXCEPT !.hist[f] = h] \in Detector
    BY <2>1, <2>2 DEF Detector
  <2>6. [det EXCEPT !.hist[f] = Tail(h), !.tbl[f] = @ \ {Head(h)}] \in Detector
    BY <2>1, <2>3 DEF Detector
  <2> QED BY <2>4, <2>5, <2>6 DEF AfterPkt, f, u, h
<1> QED BY <1>1, <1>2

LEMMA IdleType ==
  XmitIdle \in XmitThread /\ RecvIdle \in RecvThread /\ NewDetector \in Detector
BY DEF XmitIdle, RecvIdle, XmitThread, RecvThread, NewDetector, Detector

LEMMA TypeInit == Init => TypeOK
<1> SUFFICES ASSUME Init PROVE TypeOK OBVIOUS
<1>1. CfgTypeOK BY DEF Init, CfgTypeOK
<1>2. ThreadTypeOK BY IdleType DEF Init, ThreadTypeOK
<1>3. DataTypeOK BY DEF Init, DataTypeOK
<1> QED BY <1>1, <1>2, <1>3 DEF TypeOK

\* The types of the configuration, one constant at a time.
LEMMA ConfigType ==
  /\ \A g \in Gateway, b \in Bearer : /\ Ifname[g][b] \in Dev
                                      /\ Remote[g][b] \in Addr
                                      /\ Peer[g][b] \in Gateway
  /\ \A p \in Packet : /\ Source[p].gw \in Gateway /\ Source[p].dev \in Dev
                       /\ Source[p] = [gw |-> Source[p].gw, dev |-> Source[p].dev]
BY ConfigAssumption

\* The fields of a thread's record may change independently.
LEMMA XmitType ==
  ASSUME NEW t \in XmitThread,
         NEW c \in {"none", "get", "read", "lookup", "send"},
         NEW d \in Dev \cup {NoDev}, NEW p \in Packet, NEW n \in Nat,
         NEW s \in Seq(Bearer)
  PROVE  /\ [t EXCEPT !.pc = c] \in XmitThread
         /\ [t EXCEPT !.pc = c, !.dev = d] \in XmitThread
         /\ [t EXCEPT !.pc = c, !.pkt = p, !.pktid = n] \in XmitThread
         /\ [t EXCEPT !.pc = c, !.pktid = n] \in XmitThread
         /\ [t EXCEPT !.pc = c, !.paths = s] \in XmitThread
BY DEF XmitThread

LEMMA RecvType ==
  ASSUME NEW t \in RecvThread, NEW c \in {"none", "poll", "check", "announce", "dead"}
  PROVE  [t EXCEPT !.pc = c] \in RecvThread
BY DEF RecvThread

\* A message that has been cut is still one of the same packet, to the same end.
LEMMA ArrivalsType ==
  ASSUME NEW m \in Msg, NEW r \in Arrivals(m)
  PROVE  /\ r \in Msg
         /\ r.to = m.to /\ r.via = m.via /\ r.at = m.at /\ r.pkt = m.pkt
         /\ r = m \/ r.form = "cut"
<1>1. CASE r = m BY <1>1
<1>2. ASSUME NEW w \in {1, 256, 65536, 16777216},
             r = [m EXCEPT !.id = m.id % w, !.form = "cut"]
      PROVE  /\ r \in Msg /\ r.form = "cut"
             /\ r.to = m.to /\ r.via = m.via /\ r.at = m.at /\ r.pkt = m.pkt
  <2> DEFINE n == m.id % w
  <2>1. n \in Nat
    <3>1. m.id \in Nat BY DEF Msg
    <3> QED BY <1>2, <3>1
  <2>2. r = [m EXCEPT !.id = n, !.form = "cut"]
    BY <1>2
  <2> HIDE DEF n
  <2>3. [m EXCEPT !.id = n] \in Msg
    BY <2>1 DEF Msg
  <2>4. PICK k \in Msg : k = [m EXCEPT !.id = n]
    BY <2>3
  <2>5. k.to = m.to /\ k.via = m.via /\ k.at = m.at /\ k.pkt = m.pkt
    BY <2>4 DEF Msg
  <2>6. r = [k EXCEPT !.form = "cut"]
    BY <2>2, <2>4
  <2>7. /\ r \in Msg /\ r.form = "cut"
        /\ r.to = k.to /\ r.via = k.via /\ r.at = k.at /\ r.pkt = k.pkt
    BY <2>6 DEF Msg
  <2> QED BY <2>5, <2>7
<1> QED BY <1>1, <1>2 DEF Arrivals

\* What one call of sendto puts on the way: messages to sockets of the other end.
LEMMA CopiesAre ==
  ASSUME NEW g \in Gateway, NEW b \in Bearer, NEW ms \in Copies(g, b), NEW m \in ms
  PROVE  /\ m.at \in Sockets[Peer[g][b]][b] /\ m.at \in Bearer
         /\ m = MsgFor(g, b, m.at)
<1>1. Sockets[Peer[g][b]][b] \subseteq Bearer
  BY ConfigType, ConfigAssumption
<1>2. \E c \in Sockets[Peer[g][b]][b] : m = MsgFor(g, b, c)
  <2>1. CASE Proto[b] = "gre" BY <2>1 DEF Copies
  <2>2. CASE Proto[b] # "gre" BY <2>2 DEF Copies
  <2> QED BY <2>1, <2>2
<1>3. PICK c \in Sockets[Peer[g][b]][b] : m = MsgFor(g, b, c)
  BY <1>2
<1>4. m.at = c
  BY <1>3 DEF MsgFor
<1> QED BY <1>1, <1>3, <1>4

\* The sockets that share what arrives carry messages of one kind.
LEMMA SocketKind ==
  ASSUME NEW g \in Gateway, NEW b \in Bearer, NEW c \in Sockets[g][b]
  PROVE  /\ Proto[c] = Proto[b] /\ (Numbered(c) <=> Numbered(b))
         /\ Proto[b] = "tcp" => c = b
<1>1. Proto[c] = Proto[b] /\ (Proto[c] = "tcp" => c = b)
  BY ConfigAssumption
<1> QED BY <1>1 DEF Numbered

\* What a receive thread holds has come to its own socket.
LEMMA Landed ==
  ASSUME RecvInv, NEW g \in Gateway, NEW b \in Bearer,
         recv[g][b].pc \in {"check", "announce"}
  PROVE  LET m == recv[g][b].msg IN
         /\ m \in Msg /\ Travels(m) /\ m.to = g /\ m.at = b /\ m.via \in Bearer
         /\ b \in Sockets[g][m.via] /\ Proto[m.via] = Proto[b]
         /\ Numbered(b) <=> Numbered(m.via)
<1> DEFINE m == recv[g][b].msg
<1>1. m \in Msg /\ Travels(m) /\ m.to = g /\ m.at = b
  BY DEF RecvInv
<1>2. m.via \in Bearer /\ b \in Sockets[g][m.via]
  BY <1>1 DEF Travels, Msg
<1> HIDE DEF m
<1>3. Proto[m.via] = Proto[b] /\ (Numbered(b) <=> Numbered(m.via))
  BY <1>2, SocketKind
<1> QED BY <1>1, <1>2, <1>3 DEF m

LEMMA TypeStep ==
  ASSUME TypeOK, DevInv, XmitInv, RecvInv, [Next]_vars
  PROVE  TypeOK'
<1>t. CfgTypeOK /\ ThreadTypeOK /\ DataTypeOK
  BY DEF TypeOK
<1>e. ASSUME NEW g \in Gateway, ProcessEnds(g) PROVE TypeOK'
  <2>1. CfgTypeOK' BY <1>t, <1>e DEF ProcessEnds, CfgTypeOK
  <2>2. ThreadTypeOK' BY <1>t, <1>e, IdleType DEF ProcessEnds, ThreadTypeOK
  <2>3. DataTypeOK' BY <1>t, <1>e DEF ProcessEnds, DataTypeOK
  <2> QED BY <2>1, <2>2, <2>3 DEF TypeOK
<1>c. ASSUME UNCHANGED <<xmit, recv, dup, tap, net, out, written, idOf>>, CfgTypeOK'
      PROVE  TypeOK'
  BY <1>t, <1>c DEF TypeOK, ThreadTypeOK, DataTypeOK
<1>1. ASSUME NEW g \in Gateway, Crash(g) PROVE TypeOK'
  BY <1>1, <1>e DEF Crash
<1>2. ASSUME NEW g \in Gateway, Restart(g) PROVE TypeOK'
  <2>1. CfgTypeOK' BY <1>t, <1>2 DEF Restart, cfgVars, CfgTypeOK
  <2> QED BY <1>2, <1>c, <2>1 DEF Restart
<1>3. ASSUME NEW g \in Gateway, NEW b \in Bearer, AddBearerNoTransport(g, b)
      PROVE  TypeOK'
  <2>1. CfgTypeOK' BY <1>t, <1>3 DEF AddBearerNoTransport, NextBearer, CfgTypeOK
  <2> QED BY <1>3, <1>c, <2>1 DEF AddBearerNoTransport
<1>a. ASSUME NEW g \in Gateway, NEW d \in Dev, AddIf(g, d)
      PROVE  /\ devs' \in [Gateway -> SUBSET Dev]
             /\ front' \in [Gateway -> Dev \cup {NoDev}]
  <2>1. /\ devs \in [Gateway -> SUBSET Dev]
        /\ front \in [Gateway -> Dev \cup {NoDev}]
    BY <1>t DEF CfgTypeOK
  <2>2. devs' \in [Gateway -> SUBSET Dev]
    BY <1>a, <2>1 DEF AddIf
  <2>3. CASE d \in devs[g]
    BY <1>a, <2>1, <2>2, <2>3 DEF AddIf
  <2>4. CASE d \notin devs[g]
    <3>1. PICK f \in devs[g] \cup {d} : front' = [front EXCEPT ![g] = f]
      BY <1>a, <2>4 DEF AddIf
    <3>2. f \in Dev BY <2>1, <3>1
    <3> QED BY <2>1, <2>2, <3>1, <3>2
  <2> QED BY <2>3, <2>4
<1>d. ASSUME NEW g \in Gateway, NEW b \in Bearer, DropPath(g, b),
             (Proto[b] # "tcp") => /\ devs' \in [Gateway -> SUBSET Dev]
                                 /\ front' \in [Gateway -> Dev \cup {NoDev}]
      PROVE  TypeOK'
  <2>1. CASE Proto[b] = "tcp"
    BY <1>d, <1>e, <2>1 DEF DropPath
  <2>2. CASE Proto[b] # "tcp"
    <3>1. CfgTypeOK' BY <1>t, <1>d, <2>2 DEF DropPath, NextBearer, CfgTypeOK
    <3> QED BY <1>c, <1>d, <2>2, <3>1 DEF DropPath
  <2> QED BY <2>1, <2>2
<1>4. ASSUME NEW g \in Gateway, NEW b \in Bearer, AddBearerNoIf(g, b)
      PROVE  TypeOK'
  <2>1. (Proto[b] # "tcp") => /\ devs' \in [Gateway -> SUBSET Dev]
                              /\ front' \in [Gateway -> Dev \cup {NoDev}]
    BY <1>t, <1>4 DEF AddBearerNoIf, CfgTypeOK
  <2> QED BY <1>4, <1>d, <2>1 DEF AddBearerNoIf
<1>5. ASSUME NEW g \in Gateway, NEW b \in Bearer, AddBearerRefused(g, b)
      PROVE  TypeOK'
  <2>1. (Proto[b] # "tcp") => AddIf(g, Ifname[g][b])
    BY <1>5 DEF AddBearerRefused
  <2>2. DropPath(g, b) /\ Ifname[g][b] \in Dev
    BY <1>5, ConfigType DEF AddBearerRefused
  <2>3. (Proto[b] # "tcp") => /\ devs' \in [Gateway -> SUBSET Dev]
                              /\ front' \in [Gateway -> Dev \cup {NoDev}]
    BY <2>1, <2>2, <1>a
  <2> QED BY <2>2, <2>3, <1>d
<1>6. ASSUME NEW g \in Gateway, NEW b \in Bearer, AddBearer(g, b)
      PROVE  TypeOK'
  <2>a. Ifname[g][b] \in Dev /\ Remote[g][b] \in Addr
    BY ConfigType
  <2>1. CfgTypeOK'
    <3>1. /\ devs' \in [Gateway -> SUBSET Dev]
          /\ front' \in [Gateway -> Dev \cup {NoDev}]
      BY <1>6, <1>a, <2>a DEF AddBearer
    <3>2. rpeer2dev' \in [Gateway -> [Addr -> Dev \cup {NoDev}]]
      BY <1>t, <1>6, <2>a DEF AddBearer, CfgTypeOK
    <3>3. dev2mpTunnel' \in [Gateway -> [Dev -> Seq(Bearer)]]
      <4>1. /\ dev2mpTunnel \in [Gateway -> [Dev -> Seq(Bearer)]]
            /\ Append(dev2mpTunnel[g][Ifname[g][b]], b) \in Seq(Bearer)
        BY <1>t, <2>a DEF CfgTypeOK
      <4> QED BY <1>6, <2>a, <4>1 DEF AddBearer
    <3>4. /\ next' \in [Gateway -> Nat] /\ up' \in [Gateway -> BOOLEAN]
          /\ boot' \in [Gateway -> Nat]
      BY <1>t, <1>6 DEF AddBearer, NextBearer, CfgTypeOK
    <3> QED BY <3>1, <3>2, <3>3, <3>4 DEF CfgTypeOK
  <2>2. ThreadTypeOK'
    <3>1. xmit' \in [Gateway -> XmitThread]
      <4>1. /\ xmit \in [Gateway -> XmitThread]
            /\ [xmit[g] EXCEPT !.pc = "get"] \in XmitThread
        BY <1>t DEF ThreadTypeOK, XmitThread
      <4>2. xmit' = [xmit EXCEPT ![g] = [xmit[g] EXCEPT !.pc = "get"]] \/ xmit' = xmit
        BY <1>6 DEF AddBearer
      <4> QED BY <4>1, <4>2
    <3>2. [RecvIdle EXCEPT !.pc = "poll"] \in RecvThread
      BY IdleType, RecvType
    <3>3. recv \in [Gateway -> [Bearer -> RecvThread]] /\ dup' \in [Gateway -> Detector]
      BY <1>t, <1>6 DEF AddBearer, ThreadTypeOK
    <3>4. recv' = [recv EXCEPT ![g][b] = [RecvIdle EXCEPT !.pc = "poll"]]
      BY <1>6 DEF AddBearer
    <3>5. recv' \in [Gateway -> [Bearer -> RecvThread]]
      BY <3>2, <3>3, <3>4
    <3> QED BY <3>1, <3>3, <3>5 DEF ThreadTypeOK
  <2>3. DataTypeOK'
    BY <1>t, <1>6 DEF AddBearer, DataTypeOK
  <2> QED BY <2>1, <2>2, <2>3 DEF TypeOK
<1>7. ASSUME NEW p \in Packet, HostWrite(p) PROVE TypeOK'
  <2>1. CfgTypeOK' /\ ThreadTypeOK'
    BY <1>t, <1>7 DEF HostWrite, cfgVars, CfgTypeOK, ThreadTypeOK
  <2> DEFINE g == Source[p].gw  d == Source[p].dev
  <2>2. /\ g \in Gateway /\ d \in Dev
        /\ tap \in [Gateway -> [Dev -> Seq(Packet)]]
    BY <1>t, ConfigType DEF DataTypeOK
  <2>3. Append(tap[g][d], p) \in Seq(Packet)
    BY <2>2
  <2>4. tap' = [tap EXCEPT ![g][d] = Append(tap[g][d], p)]
    BY <1>7 DEF HostWrite
  <2> HIDE DEF g, d
  <2>5. tap' \in [Gateway -> [Dev -> Seq(Packet)]]
    BY <2>2, <2>3, <2>4
  <2>6. DataTypeOK'
    BY <1>t, <1>7, <2>5 DEF HostWrite, DataTypeOK
  <2> QED BY <2>1, <2>6 DEF TypeOK
<1>x. ASSUME xmitUnchanged, xmit' \in [Gateway -> XmitThread],
             tap' \in [Gateway -> [Dev -> Seq(Packet)]],
             net' \subseteq Msg, idOf' \in [Packet -> Nat]
      PROVE  TypeOK'
  BY <1>t, <1>x DEF xmitUnchanged, cfgVars, CfgTypeOK, ThreadTypeOK, DataTypeOK, TypeOK
<1>h. /\ xmit \in [Gateway -> XmitThread] /\ recv \in [Gateway -> [Bearer -> RecvThread]]
      /\ dup \in [Gateway -> Detector] /\ tap \in [Gateway -> [Dev -> Seq(Packet)]]
      /\ net \subseteq Msg /\ out \in [Gateway -> Seq(Announcement)]
      /\ idOf \in [Packet -> Nat]
  BY <1>t DEF ThreadTypeOK, DataTypeOK
<1>i. ASSUME NEW g \in Gateway
      PROVE  /\ xmit[g] \in XmitThread /\ xmit[g].pktid \in Nat
             /\ xmit[g].pkt \in Packet \cup {NoPkt} /\ xmit[g].paths \in Seq(Bearer)
             /\ xmit[g].dev \in Dev \cup {NoDev} /\ front[g] \in Dev \cup {NoDev}
  BY <1>t, <1>h DEF XmitThread, CfgTypeOK
<1>8. ASSUME NEW g \in Gateway, XmitGetPacket(g) PROVE TypeOK'
  <2>1. [xmit[g] EXCEPT !.pc = "read", !.dev = front[g]] \in XmitThread
    BY <1>i DEF XmitThread
  <2>2. xmit' \in [Gateway -> XmitThread]
    BY <1>8, <1>h, <2>1 DEF XmitGetPacket
  <2> QED BY <1>8, <1>h, <1>x, <2>2 DEF XmitGetPacket
<1>9. ASSUME NEW g \in Gateway, XmitRead(g) PROVE TypeOK'
  <2> DEFINE d == xmit[g].dev  p == Head(tap[g][d])  n == xmit[g].pktid + 1
  <2>1. d \in Dev /\ tap[g][d] \in Seq(Packet) /\ tap[g][d] # << >>
    BY <1>9, <1>h DEF XmitRead, DevInv
  <2>2. p \in Packet /\ n \in Nat /\ Tail(tap[g][d]) \in Seq(Packet)
    BY <1>i, <2>1
  <2>3. [xmit[g] EXCEPT !.pc = "lookup", !.pkt = p, !.pktid = n] \in XmitThread
    BY <1>i, <2>2 DEF XmitThread
  <2>4. /\ xmit' = [xmit EXCEPT ![g] =
                     [xmit[g] EXCEPT !.pc = "lookup", !.pkt = p, !.pktid = n]]
        /\ tap' = [tap EXCEPT ![g][d] = Tail(tap[g][d])]
        /\ idOf' = [idOf EXCEPT ![p] = n]
        /\ net' = net /\ xmitUnchanged
    BY <1>9 DEF XmitRead
  <2> HIDE DEF d, p, n
  <2>5. xmit' \in [Gateway -> XmitThread] /\ idOf' \in [Packet -> Nat]
    BY <1>h, <2>2, <2>3, <2>4
  <2>6. tap' \in [Gateway -> [Dev -> Seq(Packet)]]
    BY <1>h, <2>1, <2>2, <2>4
  <2> QED BY <1>h, <1>x, <2>4, <2>5, <2>6
<1>10. ASSUME NEW g \in Gateway, XmitReadFails(g) PROVE TypeOK'
  <2> DEFINE n == xmit[g].pktid + 1
  <2>0. n \in Nat
    BY <1>i
  <2>a. xmit' = [xmit EXCEPT ![g] = [xmit[g] EXCEPT !.pc = "get", !.pktid = n]]
    BY <1>10 DEF XmitReadFails
  <2> HIDE DEF n
  <2>1. [xmit[g] EXCEPT !.pc = "get", !.pktid = n] \in XmitThread
    BY <1>i, <2>0 DEF XmitThread
  <2>2. xmit' \in [Gateway -> XmitThread]
    BY <1>h, <2>1, <2>a
  <2> QED BY <1>10, <1>h, <1>x, <2>2 DEF XmitReadFails
<1>k. ASSUME NEW g \in Gateway, xmit[g].pc \in {"lookup", "send"}
      PROVE  /\ xmit[g].pkt \in Packet /\ xmit[g].dev \in Dev
             /\ xmit[g].pc = "send" => xmit[g].paths # << >>
  <2>1. xmit[g].pkt \in written /\ Source[xmit[g].pkt] = [gw |-> g, dev |-> xmit[g].dev]
    BY <1>k DEF XmitInv
  <2>2. xmit[g].pkt \in Packet
    BY <1>t, <2>1 DEF DataTypeOK
  <2>3. Source[xmit[g].pkt].dev \in Dev
    BY <2>2, ConfigType
  <2>4. xmit[g].pc = "send" => xmit[g].paths # << >>
    BY DEF XmitInv
  <2> QED BY <2>1, <2>2, <2>3, <2>4
<1>j. ASSUME NEW g \in Gateway, NEW s \in Seq(Bearer)
      PROVE  [xmit[g] EXCEPT !.pc = IF s = << >> THEN "get" ELSE "send",
                             !.paths = s] \in XmitThread
  BY <1>i DEF XmitThread
<1>11. ASSUME NEW g \in Gateway, XmitLookup(g) PROVE TypeOK'
  <2> DEFINE s == dev2mpTunnel[g][xmit[g].dev]
  <2>1. xmit[g].dev \in Dev
    BY <1>k, <1>11 DEF XmitLookup
  <2>2. s \in Seq(Bearer)
    BY <1>t, <2>1 DEF CfgTypeOK
  <2>3. xmit' = [xmit EXCEPT ![g] =
                   [xmit[g] EXCEPT !.pc = IF s = << >> THEN "get" ELSE "send",
                                   !.paths = s]]
    BY <1>11 DEF XmitLookup
  <2> HIDE DEF s
  <2>4. xmit' \in [Gateway -> XmitThread]
    BY <1>h, <1>j, <2>2, <2>3
  <2> QED BY <1>11, <1>h, <1>x, <2>4 DEF XmitLookup
<1>y. ASSUME NEW g \in Gateway, xmit[g].pc = "send", XmitAdvance(g)
      PROVE  xmit' \in [Gateway -> XmitThread]
  <2> DEFINE s == Tail(xmit[g].paths)
  <2>1. s \in Seq(Bearer)
    BY <1>k, <1>y, <1>i
  <2>2. xmit' = [xmit EXCEPT ![g] =
                   [xmit[g] EXCEPT !.pc = IF s = << >> THEN "get" ELSE "send",
                                   !.paths = s]]
    BY <1>y DEF XmitAdvance
  <2> HIDE DEF s
  <2> QED BY <1>h, <1>j, <2>1, <2>2
<1>12. ASSUME NEW g \in Gateway, XmitSend(g) PROVE TypeOK'
  <2>1. Head(xmit[g].paths) \in Bearer
    BY <1>k, <1>12, <1>i DEF XmitSend
  <2>2. xmit[g].pkt \in Packet
    BY <1>k, <1>12 DEF XmitSend
  <2> DEFINE b == Head(xmit[g].paths)
  <2>3. ASSUME NEW c \in Bearer PROVE MsgFor(g, b, c) \in Msg
    BY <1>i, <2>1, <2>2, ConfigType DEF MsgFor, Msg
  <2>4. PICK ms \in Copies(g, b) : net' = net \cup ms
    BY <1>12 DEF XmitSend
  <2>5. ms \subseteq Msg
    <3>1. ASSUME NEW m \in ms PROVE m \in Msg
      BY <2>1, <2>3, CopiesAre
    <3> QED BY <3>1
  <2>6. net' \subseteq Msg
    BY <1>h, <2>4, <2>5
  <2> QED BY <1>12, <1>h, <1>x, <1>y, <2>6 DEF XmitSend
<1>13. ASSUME NEW g \in Gateway, XmitSendFails(g) PROVE TypeOK'
  BY <1>13, <1>h, <1>x, <1>y DEF XmitSendFails
<1>r. ASSUME recvUnchanged, recv' \in [Gateway -> [Bearer -> RecvThread]],
             dup' \in [Gateway -> Detector], net' \subseteq Msg,
             out' \in [Gateway -> Seq(Announcement)]
      PROVE  TypeOK'
  BY <1>t, <1>r DEF recvUnchanged, cfgVars, CfgTypeOK, ThreadTypeOK, DataTypeOK, TypeOK
<1>s. ASSUME NEW g \in Gateway, NEW b \in Bearer,
             NEW c \in {"none", "poll", "check", "announce", "dead"},
             recv' = [recv EXCEPT ![g][b].pc = c]
      PROVE  recv' \in [Gateway -> [Bearer -> RecvThread]]
  <2>1. [recv[g][b] EXCEPT !.pc = c] \in RecvThread
    <3>1. recv[g][b] \in RecvThread BY <1>h
    <3> QED BY <3>1 DEF RecvThread
  <2> QED BY <1>h, <1>s, <2>1
<1>14. ASSUME NEW g \in Gateway, NEW b \in Bearer, RecvPoll(g, b) PROVE TypeOK'
  <2>1. PICK m \in net : \E r \in Arrivals(m) :
          /\ recv' = [recv EXCEPT ![g][b] = [pc |-> "check", msg |-> r]]
          /\ net' = net \ {m} \/ (m.via \in Faulty /\ UNCHANGED net)
    BY <1>14 DEF RecvPoll
  <2>a. PICK r \in Arrivals(m) :
          recv' = [recv EXCEPT ![g][b] = [pc |-> "check", msg |-> r]]
    BY <2>1
  <2>b. r \in Msg
    BY <1>h, ArrivalsType
  <2>2. [pc |-> "check", msg |-> r] \in RecvThread
    BY <2>b DEF RecvThread
  <2>3. recv' \in [Gateway -> [Bearer -> RecvThread]]
    BY <1>h, <2>2, <2>a
  <2> QED BY <1>14, <1>h, <1>r, <2>1, <2>3 DEF RecvPoll
<1>15. ASSUME NEW g \in Gateway, NEW b \in Bearer, recv[g][b].pc = "check"
       PROVE  [dup EXCEPT ![g] = DetectorAfter(g, b)] \in [Gateway -> Detector]
  <2>1. /\ dup[g] \in Detector
        /\ recv[g][b].msg.id \in Nat /\ recv[g][b].msg.pkt \in Packet
    BY <1>15, <1>h DEF RecvInv, Msg
  <2>2. DetectorAfter(g, b) \in Detector
    BY <2>1, DetectorType DEF DetectorAfter
  <2> QED BY <1>h, <2>2
<1>16. ASSUME NEW g \in Gateway, NEW b \in Bearer, RecvDiscard(g, b) PROVE TypeOK'
  BY <1>16, <1>15, <1>h, <1>r, <1>s DEF RecvDiscard
<1>17. ASSUME NEW g \in Gateway, NEW b \in Bearer, RecvAccept(g, b) PROVE TypeOK'
  BY <1>17, <1>15, <1>h, <1>r, <1>s DEF RecvAccept
<1>18. ASSUME NEW g \in Gateway, NEW b \in Bearer, RecvAnnounce(g, b) PROVE TypeOK'
  <2> DEFINE a == [dev |-> Ifname[g][b], pkt |-> recv[g][b].msg.pkt,
                   form |-> recv[g][b].msg.form]
  <2>1. a \in Announcement
    BY <1>18, ConfigType DEF RecvAnnounce, RecvInv, Msg, Announcement
  <2>2. Append(out[g], a) \in Seq(Announcement)
    BY <1>h, <2>1
  <2>3. out' = [out EXCEPT ![g] = Append(out[g], a)]
    BY <1>18 DEF RecvAnnounce
  <2> HIDE DEF a
  <2>4. out' \in [Gateway -> Seq(Announcement)]
    BY <1>h, <2>2, <2>3
  <2> QED BY <1>18, <1>h, <1>r, <1>s, <2>4 DEF RecvAnnounce
<1>19. ASSUME NEW g \in Gateway, NEW b \in Bearer, RecvDies(g, b) PROVE TypeOK'
  BY <1>19, <1>h, <1>r, <1>s DEF RecvFails, RecvDies
<1>22. ASSUME NEW g \in Gateway, NEW b \in Bearer, RecvFails(g, b) PROVE TypeOK'
  <2>1. PICK n \in Junk : dup' = [dup EXCEPT ![g] = AfterId(dup[g], n)]
    BY <1>22 DEF RecvFails
  <2>2. n \in Nat BY ConfigAssumption
  <2>3. AfterId(dup[g], n) \in Detector
    BY <1>h, <2>2, DetectorType
  <2>4. dup' \in [Gateway -> Detector]
    BY <1>h, <2>1, <2>3
  <2> QED BY <1>22, <1>h, <1>r, <2>4 DEF RecvFails
<1>20. ASSUME NEW m \in net, Lose(m) PROVE TypeOK'
  BY <1>20, <1>h, <1>r DEF Lose
<1>21. ASSUME UNCHANGED vars PROVE TypeOK'
  BY <1>t, <1>21 DEF vars, CfgTypeOK, ThreadTypeOK, DataTypeOK, TypeOK
<1> QED
  BY <1>1, <1>2, <1>3, <1>4, <1>5, <1>6, <1>7, <1>8, <1>9, <1>10, <1>11, <1>12,
     <1>13, <1>14, <1>16, <1>17, <1>18, <1>19, <1>20, <1>21, <1>22
  DEF Next, Build, Xmit, Recv

-----------------------------------------------------------------------------
\* What a step of the main thread that ends no process leaves to the others.
Quiet ==
  /\ UNCHANGED <<dup, tap, net, out, written, idOf>>
  /\ \A g \in Gateway : xmit'[g] = xmit[g] \/ xmit'[g].pc = "get"
  /\ \A g \in Gateway, b \in Bearer :
       recv'[g][b] = recv[g][b] \/ recv'[g][b].pc = "poll"

\* One field of one receive thread changes.
LEMMA RecvPc ==
  ASSUME ThreadTypeOK, NEW g \in Gateway, NEW b \in Bearer, NEW c,
         recv' = [recv EXCEPT ![g][b].pc = c]
  PROVE  \A h \in Gateway, e \in Bearer :
           /\ recv'[h][e].msg = recv[h][e].msg
           /\ recv'[h][e].pc = IF h = g /\ e = b THEN c ELSE recv[h][e].pc
<1> SUFFICES ASSUME NEW h \in Gateway, NEW e \in Bearer
    PROVE  /\ recv'[h][e].msg = recv[h][e].msg
           /\ recv'[h][e].pc = IF h = g /\ e = b THEN c ELSE recv[h][e].pc
  OBVIOUS
<1>1. recv \in [Gateway -> [Bearer -> RecvThread]] /\ recv[g][b] \in RecvThread
  BY DEF ThreadTypeOK
<1>2. /\ [recv[g][b] EXCEPT !.pc = c].pc = c
      /\ [recv[g][b] EXCEPT !.pc = c].msg = recv[g][b].msg
  BY <1>1 DEF RecvThread
<1>3. recv'[h][e] = IF h = g /\ e = b THEN [recv[g][b] EXCEPT !.pc = c]
                                     ELSE recv[h][e]
  BY <1>1
<1>4. CASE h = g /\ e = b BY <1>2, <1>3, <1>4
<1>5. CASE ~(h = g /\ e = b) BY <1>3, <1>5
<1> QED BY <1>4, <1>5

\* Every field of the records AddBearer makes.
LEMMA RecvStarts ==
  [RecvIdle EXCEPT !.pc = "poll"].pc = "poll"
BY DEF RecvIdle

LEMMA XmitStarts ==
  ASSUME NEW t \in XmitThread PROVE [t EXCEPT !.pc = "get"].pc = "get"
BY DEF XmitThread

LEMMA Forms ==
  ASSUME TypeOK, [Next]_vars
  PROVE  \/ \E g \in Gateway : ProcessEnds(g)
         \/ Quiet
         \/ \E p \in Packet : HostWrite(p)
         \/ \E g \in Gateway : Xmit(g)
         \/ \E g \in Gateway, b \in Bearer : Recv(g, b)
         \/ \E m \in net : Lose(m)
<1> DEFINE F == \/ \E g \in Gateway : ProcessEnds(g)
                \/ Quiet
<1>1. ASSUME NEW g \in Gateway, NEW b \in Bearer, DropPath(g, b) PROVE F
  BY <1>1 DEF DropPath, Quiet
<1>2. ASSUME NEW g \in Gateway, NEW b \in Bearer, AddBearer(g, b) PROVE F
  <2>1. /\ xmit \in [Gateway -> XmitThread]
        /\ recv \in [Gateway -> [Bearer -> RecvThread]]
    BY DEF TypeOK, ThreadTypeOK
  <2>2. \A h \in Gateway : xmit'[h] = xmit[h] \/ xmit'[h].pc = "get"
    <3>1. CASE xmit' = xmit BY <3>1
    <3>2. CASE xmit' = [xmit EXCEPT ![g].pc = "get"]
      BY <2>1, <3>2, XmitStarts
    <3> QED BY <1>2, <3>1, <3>2 DEF AddBearer
  <2>3. \A h \in Gateway, e \in Bearer :
          recv'[h][e] = recv[h][e] \/ recv'[h][e].pc = "poll"
    <3>1. recv' = [recv EXCEPT ![g][b] = [RecvIdle EXCEPT !.pc = "poll"]]
      BY <1>2 DEF AddBearer
    <3> QED BY <2>1, <3>1, RecvStarts
  <2> QED BY <1>2, <2>2, <2>3 DEF AddBearer, Quiet
<1>3. ASSUME NEW g \in Gateway, Build(g) PROVE F
  <2>1. ASSUME NEW b \in Bearer, AddBearerNoTransport(g, b) PROVE F
    BY <2>1 DEF AddBearerNoTransport, Quiet
  <2>2. ASSUME NEW b \in Bearer, AddBearerNoIf(g, b) \/ AddBearerRefused(g, b) PROVE F
    BY <1>1, <2>2 DEF AddBearerNoIf, AddBearerRefused
  <2> QED BY <1>2, <1>3, <2>1, <2>2 DEF Build
<1>4. ASSUME NEW g \in Gateway, Crash(g) \/ Restart(g) PROVE F
  BY <1>4 DEF Crash, Restart, Quiet
<1>5. ASSUME UNCHANGED vars PROVE F
  BY <1>5 DEF vars, Quiet
<1> QED BY <1>3, <1>4, <1>5 DEF Next

\* A packet keeps its number once it has one.
LEMMA Persists ==
  ASSUME TypeOK, TapInv, DevInv, [Next]_vars
  PROVE  /\ written \subseteq written'
         /\ \A p \in Packet : idOf[p] # 0 => idOf'[p] = idOf[p]
<1> DEFINE K == /\ written \subseteq written'
                /\ \A p \in Packet : idOf[p] # 0 => idOf'[p] = idOf[p]
<1>1. ASSUME UNCHANGED <<written, idOf>> PROVE K
  BY <1>1
<1>2. ASSUME NEW g \in Gateway, XmitRead(g) PROVE K
  <2> DEFINE d == xmit[g].dev  p == Head(tap[g][d])
  <2>1. d \in Dev /\ tap[g][d] \in Seq(Packet) /\ tap[g][d] # << >>
    BY <1>2 DEF XmitRead, DevInv, TypeOK, DataTypeOK
  <2>2. 1 \in DOMAIN tap[g][d] /\ p = tap[g][d][1]
    BY <2>1
  <2> HIDE DEF d
  <2>a. \A i \in DOMAIN tap[g][d] : idOf[tap[g][d][i]] = 0
    BY <2>1, ZenonT(30) DEF TapInv
  <2>3. idOf[p] = 0
    BY <2>2, <2>a
  <2> USE DEF d
  <2> QED BY <1>2, <2>3 DEF XmitRead, xmitUnchanged, TypeOK, DataTypeOK
<1>3. ASSUME NEW g \in Gateway, Xmit(g) PROVE K
  BY <1>1, <1>2, <1>3 DEF Xmit, XmitGetPacket, XmitReadFails, XmitLookup,
                          XmitSend, XmitSendFails, xmitUnchanged
<1>4. ASSUME NEW g \in Gateway, NEW b \in Bearer, Recv(g, b) PROVE K
  BY <1>1, <1>4 DEF Recv, RecvPoll, RecvDiscard, RecvAccept, RecvAnnounce,
                    RecvFails, RecvDies, recvUnchanged
<1>5. ASSUME NEW p \in Packet, HostWrite(p) PROVE K
  BY <1>5 DEF HostWrite
<1> QED BY <1>1, <1>3, <1>4, <1>5, Forms DEF ProcessEnds, Quiet, Lose, recvUnchanged

LEMMA TravelsOn ==
  ASSUME TypeOK, TapInv, DevInv, [Next]_vars, NEW m, Travels(m)
  PROVE  Travels(m)'
<1>1. m.pkt \in Packet
  BY DEF Travels, TypeOK, DataTypeOK
<1> QED BY <1>1, Persists DEF Travels, PathsOf

-----------------------------------------------------------------------------
\* Steps that leave the receive threads' side to itself, and their converse.
LEMMA XmitFrame ==
  ASSUME TypeOK, NEW g \in Gateway, Xmit(g)
  PROVE  /\ xmitUnchanged
         /\ \A h \in Gateway : h # g => xmit'[h] = xmit[h]
         /\ ~XmitRead(g) => UNCHANGED <<tap, idOf>>
<1>1. xmit \in [Gateway -> XmitThread]
  BY DEF TypeOK, ThreadTypeOK
<1> QED BY <1>1 DEF Xmit, XmitGetPacket, XmitRead, XmitReadFails, XmitLookup,
                    XmitSend, XmitSendFails, XmitAdvance

\* The transmit thread's locals after each of its steps.
LEMMA XmitAfter ==
  ASSUME TypeOK, NEW g \in Gateway
  PROVE  LET t == xmit[g]  t1 == xmit'[g] IN
         /\ XmitGetPacket(g) => t1.pc = "read" /\ t1.dev = front[g]
         /\ XmitRead(g) => /\ t1.pc = "lookup" /\ t1.dev = t.dev
                           /\ t1.pkt = Head(tap[g][t.dev]) /\ t1.pktid = t.pktid + 1
         /\ XmitReadFails(g) => t1.pc = "get"
         /\ XmitLookup(g) =>
              /\ t1.dev = t.dev /\ t1.pkt = t.pkt /\ t1.pktid = t.pktid
              /\ t1.paths = dev2mpTunnel[g][t.dev]
              /\ t1.pc = IF t1.paths = << >> THEN "get" ELSE "send"
         /\ XmitAdvance(g) =>
              /\ t1.dev = t.dev /\ t1.pkt = t.pkt /\ t1.pktid = t.pktid
              /\ t1.paths = Tail(t.paths)
              /\ t1.pc = IF t1.paths = << >> THEN "get" ELSE "send"
<1>1. xmit \in [Gateway -> XmitThread] /\ xmit[g] \in XmitThread
  BY DEF TypeOK, ThreadTypeOK
<1>a. ASSUME NEW r, xmit' = [xmit EXCEPT ![g] = r] PROVE xmit'[g] = r
  BY <1>1, <1>a
<1> DEFINE t == xmit[g]
<1>b. t \in XmitThread
  BY <1>1
<1> HIDE DEF t
<1>2. XmitGetPacket(g) => xmit'[g].pc = "read" /\ xmit'[g].dev = front[g]
  <2> DEFINE d == front[g]
  <2>1. XmitGetPacket(g) => xmit'[g] = [t EXCEPT !.pc = "read", !.dev = d]
    BY <1>a DEF XmitGetPacket, t
  <2> HIDE DEF d
  <2>2. LET r == [t EXCEPT !.pc = "read", !.dev = d] IN r.pc = "read" /\ r.dev = d
    BY <1>b DEF XmitThread
  <2> QED BY <2>1, <2>2 DEF d
<1>3. XmitRead(g) => /\ xmit'[g].pc = "lookup" /\ xmit'[g].dev = t.dev
                     /\ xmit'[g].pkt = Head(tap[g][t.dev])
                     /\ xmit'[g].pktid = t.pktid + 1
  <2> DEFINE p == Head(tap[g][t.dev])  n == t.pktid + 1
  <2>1. XmitRead(g) => xmit'[g] = [t EXCEPT !.pc = "lookup", !.pkt = p, !.pktid = n]
    BY <1>a DEF XmitRead, t
  <2> HIDE DEF p, n
  <2>2. LET r == [t EXCEPT !.pc = "lookup", !.pkt = p, !.pktid = n] IN
        r.pc = "lookup" /\ r.dev = t.dev /\ r.pkt = p /\ r.pktid = n
    BY <1>b DEF XmitThread
  <2> QED BY <2>1, <2>2 DEF p, n
<1>4. XmitReadFails(g) => xmit'[g].pc = "get"
  <2> DEFINE n == t.pktid + 1
  <2>1. XmitReadFails(g) => xmit'[g] = [t EXCEPT !.pc = "get", !.pktid = n]
    BY <1>a DEF XmitReadFails, t
  <2> HIDE DEF n
  <2>2. [t EXCEPT !.pc = "get", !.pktid = n].pc = "get"
    BY <1>b DEF XmitThread
  <2> QED BY <2>1, <2>2
<1> DEFINE Goes(s) == [t EXCEPT !.pc = IF s = << >> THEN "get" ELSE "send", !.paths = s]
<1>5. ASSUME NEW s, xmit'[g] = Goes(s)
      PROVE  /\ xmit'[g].dev = t.dev /\ xmit'[g].pkt = t.pkt /\ xmit'[g].pktid = t.pktid
             /\ xmit'[g].paths = s
             /\ xmit'[g].pc = IF xmit'[g].paths = << >> THEN "get" ELSE "send"
  <2> DEFINE c == IF s = << >> THEN "get" ELSE "send"
  <2>1. xmit'[g] = [t EXCEPT !.pc = c, !.paths = s] BY <1>5
  <2> HIDE DEF c
  <2>2. /\ xmit'[g].dev = t.dev /\ xmit'[g].pkt = t.pkt /\ xmit'[g].pktid = t.pktid
        /\ xmit'[g].paths = s /\ xmit'[g].pc = c
    BY <1>b, <2>1 DEF XmitThread
  <2> QED BY <2>2 DEF c
<1>6. XmitLookup(g) => xmit'[g] = Goes(dev2mpTunnel[g][t.dev])
  BY <1>a DEF XmitLookup, t
<1>7. XmitAdvance(g) => xmit'[g] = Goes(Tail(t.paths))
  BY <1>a DEF XmitAdvance, t
<1> HIDE DEF Goes
<1> QED BY <1>2, <1>3, <1>4, <1>5, <1>6, <1>7 DEF t

LEMMA RecvFrame ==
  ASSUME NEW g \in Gateway, NEW b \in Bearer, Recv(g, b)
  PROVE  /\ recvUnchanged
         /\ net' \subseteq net
BY DEF Recv, RecvPoll, RecvDiscard, RecvAccept, RecvAnnounce, RecvFails, RecvDies

LEMMA IdStep ==
  ASSUME TypeOK, DevInv, IdInv, TapInv, [Next]_vars
  PROVE  IdInv'
<1>1. CASE UNCHANGED idOf
  BY <1>1, Persists DEF IdInv
<1>2. ASSUME NEW g \in Gateway, XmitRead(g) PROVE IdInv'
  <2> DEFINE d == xmit[g].dev  p == Head(tap[g][d])
  <2>1. d \in Dev /\ tap[g][d] \in Seq(Packet) /\ tap[g][d] # << >>
    BY <1>2 DEF XmitRead, DevInv, TypeOK, DataTypeOK
  <2>2. 1 \in DOMAIN tap[g][d] /\ p = tap[g][d][1]
    BY <2>1
  <2> HIDE DEF d
  <2>3. \A i \in DOMAIN tap[g][d] : tap[g][d][i] \in written
    BY <2>1, ZenonT(30) DEF TapInv
  <2>4. p \in written
    BY <2>2, <2>3
  <2>5. /\ idOf' = [idOf EXCEPT ![p] = xmit[g].pktid + 1]
        /\ written' = written
    BY <1>2 DEF XmitRead, xmitUnchanged, d
  <2>6. idOf \in [Packet -> Nat]
    BY DEF TypeOK, DataTypeOK
  <2> HIDE DEF p
  <2> QED BY <2>4, <2>5, <2>6 DEF IdInv
<1> QED
  BY <1>1, <1>2, Forms, XmitFrame, RecvFrame
  DEF ProcessEnds, Quiet, HostWrite, Lose, recvUnchanged

LEMMA DevStep ==
  ASSUME TypeOK, DevInv, [Next]_vars
  PROVE  DevInv'
<1>t. /\ devs \in [Gateway -> SUBSET Dev] /\ front \in [Gateway -> Dev \cup {NoDev}]
      /\ xmit \in [Gateway -> XmitThread] /\ XmitIdle.pc = "none"
  BY DEF TypeOK, CfgTypeOK, ThreadTypeOK, XmitIdle
<1>1. ASSUME NEW g \in Gateway, ProcessEnds(g) PROVE DevInv'
  BY <1>t, <1>1 DEF ProcessEnds, DevInv
<1>2. ASSUME UNCHANGED <<devs, front, xmit>> PROVE DevInv'
  BY <1>2 DEF DevInv
<1>3. ASSUME NEW g \in Gateway, NEW d \in Dev, AddIf(g, d)
      PROVE  \A h \in Gateway : /\ devs[h] \subseteq devs'[h]
                                /\ devs'[h] # {} => front'[h] \in Dev
                                /\ h = g => devs'[h] # {}
  <2>1. CASE d \in devs[g]
    BY <1>t, <1>3, <2>1 DEF AddIf, DevInv
  <2>2. CASE d \notin devs[g]
    <3>1. PICK f \in devs[g] \cup {d} : front' = [front EXCEPT ![g] = f]
      BY <1>3, <2>2 DEF AddIf
    <3>2. f \in Dev BY <1>t, <3>1
    <3> QED BY <1>t, <1>3, <3>1, <3>2 DEF AddIf, DevInv
  <2> QED BY <2>1, <2>2
<1>4. ASSUME NEW g \in Gateway, NEW d \in Dev, AddIf(g, d),
             \A h \in Gateway :
               xmit'[h] = xmit[h] \/ (h = g /\ xmit'[h].pc = "get")
      PROVE  DevInv'
  BY <1>3, <1>4 DEF DevInv
<1>5. ASSUME NEW g \in Gateway, NEW b \in Bearer, AddBearerNoIf(g, b) PROVE DevInv'
  BY <1>1, <1>2, <1>5 DEF AddBearerNoIf, DropPath
<1>6. ASSUME NEW g \in Gateway, NEW b \in Bearer, AddBearerRefused(g, b) PROVE DevInv'
  <2>1. Ifname[g][b] \in Dev BY ConfigType
  <2> QED BY <1>1, <1>4, <1>6, <2>1 DEF AddBearerRefused, DropPath
<1>7. ASSUME NEW g \in Gateway, NEW b \in Bearer, AddBearer(g, b) PROVE DevInv'
  <2>1. Ifname[g][b] \in Dev BY ConfigType
  <2>2. \A h \in Gateway : xmit'[h] = xmit[h] \/ (h = g /\ xmit'[h].pc = "get")
    <3>1. CASE xmit' = xmit BY <3>1
    <3>2. CASE xmit' = [xmit EXCEPT ![g].pc = "get"]
      BY <1>t, <3>2, XmitStarts
    <3> QED BY <1>7, <3>1, <3>2 DEF AddBearer
  <2> QED BY <1>4, <1>7, <2>1, <2>2 DEF AddBearer
<1>8. ASSUME NEW g \in Gateway, Build(g) PROVE DevInv'
  BY <1>2, <1>5, <1>6, <1>7, <1>8 DEF Build, AddBearerNoTransport
<1>9. ASSUME NEW g \in Gateway, Xmit(g) PROVE DevInv'
  <2>1. /\ UNCHANGED <<devs, front>>
        /\ \A h \in Gateway : h # g => xmit'[h] = xmit[h]
    BY <1>9, XmitFrame DEF xmitUnchanged, cfgVars
  <2>2. xmit[g] \in XmitThread /\ xmit[g].pc # "none"
    BY <1>t, <1>9 DEF Xmit, XmitGetPacket, XmitRead, XmitReadFails, XmitLookup,
                      XmitSend, XmitSendFails
  <2>3. ASSUME XmitGetPacket(g) PROVE xmit'[g].dev = front[g]
    BY <2>3, XmitAfter
  <2>4. ASSUME ~XmitGetPacket(g) PROVE xmit'[g].pc \in {"get", "lookup", "send"}
    BY <1>9, <2>4, XmitAfter DEF Xmit, XmitSend, XmitSendFails
  <2> QED BY <2>1, <2>2, <2>3, <2>4 DEF DevInv
<1>10. ASSUME NEW g \in Gateway, Crash(g) \/ Restart(g) PROVE DevInv'
  BY <1>1, <1>2, <1>10 DEF Crash, Restart, cfgVars
<1>11. ASSUME NEW p \in Packet, HostWrite(p) PROVE DevInv'
  BY <1>2, <1>11 DEF HostWrite, cfgVars
<1>12. ASSUME recvUnchanged PROVE DevInv'
  BY <1>2, <1>12 DEF recvUnchanged, cfgVars
<1>13. ASSUME UNCHANGED vars PROVE DevInv'
  BY <1>2, <1>13 DEF vars
<1> QED BY <1>8, <1>9, <1>10, <1>11, <1>12, <1>13, RecvFrame DEF Next, Lose

LEMMA TunnelStep ==
  ASSUME TypeOK, TunnelInv, [Next]_vars
  PROVE  TunnelInv'
<1>t. dev2mpTunnel \in [Gateway -> [Dev -> Seq(Bearer)]]
  BY DEF TypeOK, CfgTypeOK
<1>1. ASSUME UNCHANGED dev2mpTunnel PROVE TunnelInv'
  BY <1>1 DEF TunnelInv
<1>2. ASSUME NEW g \in Gateway, ProcessEnds(g) PROVE TunnelInv'
  BY <1>t, <1>2 DEF ProcessEnds, TunnelInv
<1>3. ASSUME NEW g \in Gateway, NEW b \in Bearer, AddBearer(g, b) PROVE TunnelInv'
  <2> DEFINE d == Ifname[g][b]  s == dev2mpTunnel[g][d]
  <2>1. d \in Dev /\ s \in Seq(Bearer)
    BY <1>t, ConfigType
  <2>2. dev2mpTunnel' = [dev2mpTunnel EXCEPT ![g][d] = Append(s, b)]
    BY <1>3 DEF AddBearer
  <2>3. \A i \in DOMAIN Append(s, b) : Ifname[g][Append(s, b)[i]] = d
    <3>1. \A i \in DOMAIN s : Ifname[g][s[i]] = d BY <2>1 DEF TunnelInv
    <3> HIDE DEF s
    <3>2. ASSUME NEW i \in DOMAIN Append(s, b)
          PROVE  Append(s, b)[i] = b \/ (i \in DOMAIN s /\ Append(s, b)[i] = s[i])
      BY <2>1
    <3> QED BY <3>1, <3>2
  <2> HIDE DEF d, s
  <2>4. ASSUME NEW h \in Gateway, NEW e \in Dev
        PROVE  \A i \in DOMAIN dev2mpTunnel'[h][e] : Ifname[h][dev2mpTunnel'[h][e][i]] = e
    <3>1. CASE h = g /\ e = d
      BY <1>t, <2>1, <2>2, <2>3, <3>1
    <3>2. CASE ~(h = g /\ e = d)
      <4>1. dev2mpTunnel'[h][e] = dev2mpTunnel[h][e]
        BY <1>t, <2>1, <2>2, <3>2
      <4> QED BY <4>1 DEF TunnelInv
    <3> QED BY <3>1, <3>2
  <2> QED BY <2>4 DEF TunnelInv
<1>4. ASSUME NEW g \in Gateway, Build(g) PROVE TunnelInv'
  BY <1>1, <1>2, <1>3, <1>4 DEF Build, AddBearerNoTransport, AddBearerNoIf,
                                AddBearerRefused, DropPath
<1>5. ASSUME NEW g \in Gateway, Crash(g) \/ Restart(g) PROVE TunnelInv'
  BY <1>1, <1>2, <1>5 DEF Crash, Restart, cfgVars
<1> QED
  BY <1>1, <1>4, <1>5, XmitFrame, RecvFrame
  DEF Next, HostWrite, Lose, xmitUnchanged, recvUnchanged, cfgVars, vars

LEMMA TapStep ==
  ASSUME TypeOK, DevInv, IdInv, TapInv, [Next]_vars
  PROVE  TapInv'
<1>t. /\ tap \in [Gateway -> [Dev -> Seq(Packet)]] /\ idOf \in [Packet -> Nat]
      /\ xmit \in [Gateway -> XmitThread]
  BY DEF TypeOK, DataTypeOK, ThreadTypeOK
<1> DEFINE Good(g, d, s, w, ids) ==
             \A i \in DOMAIN s : /\ s[i] \in w /\ ids[s[i]] = 0
                                 /\ Source[s[i]] = [gw |-> g, dev |-> d]
                                 /\ \A j \in DOMAIN s : s[i] = s[j] => i = j
<1>a. \A g \in Gateway, d \in Dev : Good(g, d, tap[g][d], written, idOf)
  BY ZenonT(30) DEF TapInv
<1>b. (\A g \in Gateway, d \in Dev : Good(g, d, tap'[g][d], written', idOf')) => TapInv'
  BY ZenonT(30) DEF TapInv
<1>c. \A g \in Gateway, d \in Dev : Good(g, d, << >>, written', idOf')
  OBVIOUS
<1> HIDE DEF Good
<1>1. ASSUME UNCHANGED <<tap, written, idOf>> PROVE TapInv'
  BY <1>a, <1>b, <1>1
<1>2. ASSUME NEW g \in Gateway, ProcessEnds(g) PROVE TapInv'
  <2>1. ASSUME NEW h \in Gateway, NEW d \in Dev
        PROVE  tap'[h][d] = tap[h][d] \/ tap'[h][d] = << >>
    BY <1>t, <1>2 DEF ProcessEnds
  <2> QED BY <1>a, <1>b, <1>c, <1>2, <2>1 DEF ProcessEnds
<1>3. ASSUME NEW p \in Packet, HostWrite(p) PROVE TapInv'
  <2> DEFINE g == Source[p].gw  d == Source[p].dev  s == tap[g][d]
  <2>1. /\ g \in Gateway /\ d \in Dev /\ s \in Seq(Packet)
        /\ Source[p] = [gw |-> g, dev |-> d]
    BY <1>t, ConfigType
  <2>2. /\ p \notin written /\ idOf[p] = 0 /\ written' = written \cup {p} /\ idOf' = idOf
        /\ tap' = [tap EXCEPT ![g][d] = Append(s, p)]
    BY <1>3, <1>t DEF HostWrite, IdInv
  <2> HIDE DEF g, d
  <2>3. Good(g, d, s, written, idOf)
    BY <1>a, <2>1
  <2> HIDE DEF s
  <2>4. ASSUME NEW i \in DOMAIN Append(s, p)
        PROVE  \/ i = Len(s) + 1 /\ Append(s, p)[i] = p
               \/ i \in DOMAIN s /\ Append(s, p)[i] = s[i]
    BY <2>1
  <2>5. Good(g, d, Append(s, p), written', idOf')
    BY <2>1, <2>2, <2>3, <2>4 DEF Good
  <2>a. \A h \in Gateway, e \in Dev : Good(h, e, tap[h][e], written', idOf')
    BY <1>a, <2>2 DEF Good
  <2>6. ASSUME NEW h \in Gateway, NEW e \in Dev
        PROVE  Good(h, e, tap'[h][e], written', idOf')
    <3>1. CASE h = g /\ e = d
      <4>1. tap'[h][e] = Append(s, p) BY <1>t, <2>1, <2>2, <3>1
      <4> QED BY <2>5, <3>1, <4>1
    <3>2. CASE ~(h = g /\ e = d)
      <4>1. tap'[h][e] = tap[h][e] BY <1>t, <2>1, <2>2, <3>2
      <4> QED BY <2>a, <4>1
    <3> QED BY <3>1, <3>2
  <2> QED BY <1>b, <2>6
<1>4. ASSUME NEW g \in Gateway, XmitRead(g) PROVE TapInv'
  <2> DEFINE d == xmit[g].dev  s == tap[g][d]  p == Head(s)
  <2>1. d \in Dev /\ s \in Seq(Packet) /\ s # << >>
    BY <1>4, <1>t DEF XmitRead, DevInv
  <2>2. /\ written' = written
        /\ idOf' = [idOf EXCEPT ![p] = xmit[g].pktid + 1]
        /\ tap' = [tap EXCEPT ![g][d] = Tail(s)]
    BY <1>4 DEF XmitRead, xmitUnchanged
  <2> HIDE DEF d
  <2>3. Good(g, d, s, written, idOf)
    BY <1>a, <2>1
  <2> HIDE DEF s
  <2>4. 1 \in DOMAIN s /\ p = s[1] /\ p \in Packet
    BY <2>1
  <2>5. ASSUME NEW i \in DOMAIN Tail(s)
        PROVE  i \in Nat /\ i + 1 # 1 /\ i + 1 \in DOMAIN s /\ Tail(s)[i] = s[i + 1]
    BY <2>1
  <2> HIDE DEF p
  <2>6. Source[p] = [gw |-> g, dev |-> d]
    BY <2>3, <2>4 DEF Good
  <2>7. ASSUME NEW i \in DOMAIN Tail(s)
        PROVE  /\ Tail(s)[i] \in written /\ idOf'[Tail(s)[i]] = 0
               /\ Source[Tail(s)[i]] = [gw |-> g, dev |-> d]
               /\ \A j \in DOMAIN Tail(s) : Tail(s)[i] = Tail(s)[j] => i = j
    <3>1. Tail(s)[i] \in Packet BY <2>1
    <3>2. Tail(s)[i] # p BY <2>3, <2>4, <2>5 DEF Good
    <3>3. idOf'[Tail(s)[i]] = idOf[Tail(s)[i]] BY <1>t, <2>2, <3>1, <3>2
    <3>4. \A j \in DOMAIN Tail(s) : Tail(s)[i] = Tail(s)[j] => i = j
      BY <2>3, <2>5 DEF Good
    <3> QED BY <2>3, <2>5, <3>3, <3>4 DEF Good
  <2>b. Good(g, d, Tail(s), written', idOf')
    BY <2>2, <2>7 DEF Good
  <2>8. ASSUME NEW h \in Gateway, NEW e \in Dev
        PROVE  Good(h, e, tap'[h][e], written', idOf')
    <3>1. CASE h = g /\ e = d
      <4>1. tap'[h][e] = Tail(s) BY <1>t, <2>1, <2>2, <3>1
      <4> QED BY <2>b, <3>1, <4>1
    <3>2. CASE ~(h = g /\ e = d)
      <4>1. tap'[h][e] = tap[h][e] BY <1>t, <2>1, <2>2, <3>2
      <4>2. Good(h, e, tap[h][e], written, idOf) BY <1>a
      <4>3. \A i \in DOMAIN tap[h][e] : tap[h][e][i] # p
        BY <2>6, <3>2, <4>2 DEF Good
      <4>4. \A i \in DOMAIN tap[h][e] : idOf'[tap[h][e][i]] = idOf[tap[h][e][i]]
        BY <1>t, <2>2, <4>3
      <4>5. Good(h, e, tap[h][e], written', idOf')
        BY <2>2, <4>2, <4>4 DEF Good
      <4> QED BY <4>1, <4>5
    <3> QED BY <3>1, <3>2
  <2> QED BY <1>b, <2>8
<1> QED
  BY <1>1, <1>2, <1>3, <1>4, Forms, XmitFrame, RecvFrame
  DEF Quiet, Lose, xmitUnchanged, recvUnchanged

LEMMA XmitStep ==
  ASSUME TypeOK, DevInv, TunnelInv, TapInv, XmitInv, [Next]_vars
  PROVE  XmitInv'
<1>t. xmit \in [Gateway -> XmitThread] /\ XmitIdle.pc = "none"
  BY DEF TypeOK, ThreadTypeOK, XmitIdle
\* What the invariant says of one thread's record.
<1> DEFINE Holds(g, t, w, ids) ==
             /\ t.pc \in {"lookup", "send"} =>
                  /\ t.pkt \in w /\ ids[t.pkt] = t.pktid /\ t.pktid # 0
                  /\ Source[t.pkt] = [gw |-> g, dev |-> t.dev]
             /\ t.pc = "send" =>
                  /\ t.paths # << >>
                  /\ \A i \in DOMAIN t.paths : Ifname[g][t.paths[i]] = t.dev
<1>a. \A g \in Gateway : Holds(g, xmit[g], written, idOf)
  BY DEF XmitInv
<1>b. (\A g \in Gateway : Holds(g, xmit'[g], written', idOf')) => XmitInv'
  BY DEF XmitInv
<1>c. \A g \in Gateway : Holds(g, xmit[g], written', idOf')
  BY <1>a, Persists DEF TypeOK, DataTypeOK
<1>d. \A g \in Gateway : \A t : t.pc \notin {"lookup", "send"} => Holds(g, t, written', idOf')
  OBVIOUS
<1>1. ASSUME \A g \in Gateway : xmit'[g] = xmit[g] \/ xmit'[g].pc \in {"none", "get", "read"}
      PROVE  XmitInv'
  BY <1>b, <1>c, <1>d, <1>1
<1>2. ASSUME NEW g \in Gateway, ProcessEnds(g) PROVE XmitInv'
  BY <1>t, <1>1, <1>2 DEF ProcessEnds
<1>3. ASSUME NEW g \in Gateway, Xmit(g), Holds(g, xmit'[g], written', idOf') PROVE XmitInv'
  BY <1>b, <1>c, <1>3, XmitFrame
<1>4. ASSUME NEW g \in Gateway, XmitRead(g) PROVE Holds(g, xmit'[g], written', idOf')
  <2> DEFINE d == xmit[g].dev  s == tap[g][d]  p == Head(s)
  <2>1. d \in Dev /\ s \in Seq(Packet) /\ s # << >> /\ xmit[g].pktid \in Nat
    BY <1>4, <1>t DEF XmitRead, DevInv, TypeOK, DataTypeOK, XmitThread
  <2>2. /\ xmit'[g].pc = "lookup" /\ xmit'[g].dev = d /\ xmit'[g].pkt = p
        /\ xmit'[g].pktid = xmit[g].pktid + 1
    BY <1>4, XmitAfter
  <2>3. written' = written /\ idOf' = [idOf EXCEPT ![p] = xmit[g].pktid + 1]
    BY <1>4 DEF XmitRead, xmitUnchanged
  <2> HIDE DEF d
  <2>4. \A i \in DOMAIN s : s[i] \in written /\ Source[s[i]] = [gw |-> g, dev |-> d]
    BY <2>1, ZenonT(30) DEF TapInv
  <2> HIDE DEF s
  <2>5. p \in written /\ Source[p] = [gw |-> g, dev |-> d] /\ p \in Packet
    BY <2>1, <2>4
  <2> HIDE DEF p
  <2>6. idOf \in [Packet -> Nat] BY DEF TypeOK, DataTypeOK
  <2> QED BY <2>1, <2>2, <2>3, <2>5, <2>6
<1>5. ASSUME NEW g \in Gateway, XmitLookup(g) PROVE Holds(g, xmit'[g], written', idOf')
  <2>1. xmit[g].pc = "lookup" BY <1>5 DEF XmitLookup
  <2>2. xmit[g].dev \in Dev
    <3>1. xmit[g].pkt \in Packet
      BY <1>a, <2>1 DEF TypeOK, DataTypeOK
    <3>0. Source[xmit[g].pkt] = [gw |-> g, dev |-> xmit[g].dev] BY <1>a, <2>1
    <3>2. Source[xmit[g].pkt].dev = xmit[g].dev BY <3>0
    <3> QED BY <3>1, <3>2, ConfigType
  <2>3. \A i \in DOMAIN dev2mpTunnel[g][xmit[g].dev] :
          Ifname[g][dev2mpTunnel[g][xmit[g].dev][i]] = xmit[g].dev
    BY <2>2 DEF TunnelInv
  <2> QED BY <1>5, <1>c, <2>1, <2>3, XmitAfter
<1>6. ASSUME NEW g \in Gateway, xmit[g].pc = "send", XmitAdvance(g)
      PROVE  Holds(g, xmit'[g], written', idOf')
  <2> DEFINE s == xmit[g].paths
  <2>1. /\ s # << >> /\ s \in Seq(Bearer)
        /\ \A i \in DOMAIN s : Ifname[g][s[i]] = xmit[g].dev
    BY <1>a, <1>t, <1>6 DEF XmitThread
  <2> HIDE DEF s
  <2>2. \A i \in DOMAIN Tail(s) : i + 1 \in DOMAIN s /\ Tail(s)[i] = s[i + 1]
    BY <2>1
  <2>3. \A i \in DOMAIN Tail(s) : Ifname[g][Tail(s)[i]] = xmit[g].dev
    BY <2>1, <2>2
  <2>4. /\ xmit'[g].dev = xmit[g].dev /\ xmit'[g].pkt = xmit[g].pkt
        /\ xmit'[g].pktid = xmit[g].pktid
        /\ xmit'[g].paths = Tail(s)
        /\ xmit'[g].pc = IF xmit'[g].paths = << >> THEN "get" ELSE "send"
    BY <1>6, XmitAfter DEF s
  <2>5. /\ xmit[g].pkt \in written' /\ idOf'[xmit[g].pkt] = xmit[g].pktid
        /\ xmit[g].pktid # 0 /\ Source[xmit[g].pkt] = [gw |-> g, dev |-> xmit[g].dev]
    BY <1>c, <1>6
  <2>6. xmit'[g].pc = "send" => Tail(s) # << >>
    BY <2>4
  <2> QED BY <2>3, <2>4, <2>5, <2>6
<1>7. ASSUME NEW g \in Gateway, Xmit(g) PROVE XmitInv'
  <2>1. ASSUME XmitGetPacket(g) \/ XmitReadFails(g) PROVE Holds(g, xmit'[g], written', idOf')
    BY <2>1, XmitAfter
  <2>2. ASSUME XmitSend(g) \/ XmitSendFails(g) PROVE Holds(g, xmit'[g], written', idOf')
    BY <2>2, <1>6 DEF XmitSend, XmitSendFails
  <2> QED BY <1>3, <1>4, <1>5, <1>7, <2>1, <2>2 DEF Xmit
<1>8. ASSUME UNCHANGED xmit PROVE XmitInv'
  BY <1>1, <1>8
<1> QED
  BY <1>1, <1>2, <1>7, <1>8, Forms, RecvFrame DEF Quiet, HostWrite, Lose, recvUnchanged

LEMMA NetStep ==
  ASSUME TypeOK, DevInv, TapInv, XmitInv, NetInv, [Next]_vars
  PROVE  NetInv'
<1>1. ASSUME net' \subseteq net PROVE NetInv'
  BY <1>1, TravelsOn DEF NetInv
<1>2. ASSUME NEW g \in Gateway, XmitSend(g) PROVE NetInv'
  <2> DEFINE b == Head(xmit[g].paths)  p == xmit[g].pkt
  <2>1. /\ p \in written /\ idOf[p] = xmit[g].pktid /\ xmit[g].pktid # 0
        /\ Source[p] = [gw |-> g, dev |-> xmit[g].dev]
    BY <1>2 DEF XmitSend, XmitInv
  <2>2. /\ xmit[g].paths # << >>
        /\ \A i \in DOMAIN xmit[g].paths : Ifname[g][xmit[g].paths[i]] = xmit[g].dev
    BY <1>2 DEF XmitSend, XmitInv
  <2>3. xmit[g].paths \in Seq(Bearer)
    BY DEF TypeOK, ThreadTypeOK, XmitThread
  <2>4. b \in Bearer /\ Ifname[g][b] = xmit[g].dev
    BY <2>2, <2>3
  <2>5. \A c : LET m == MsgFor(g, b, c) IN
          /\ m.to = Peer[g][b] /\ m.via = b /\ m.pkt = p
          /\ Numbered(b) => m.id = xmit[g].pktid
    BY DEF MsgFor
  <2>6. PICK ms \in Copies(g, b) : net' = net \cup ms BY <1>2 DEF XmitSend
  <2> HIDE DEF b, p
  <2>7. b \in PathsOf(p) BY <2>1, <2>4 DEF PathsOf
  <2>8. ASSUME NEW m \in ms PROVE Travels(m)
    <3>1. m.at \in Sockets[Peer[g][b]][b] /\ m = MsgFor(g, b, m.at)
      BY <2>4, CopiesAre
    <3>2. m.to = Peer[g][b] /\ m.via = b /\ m.pkt = p /\ (Numbered(b) => m.id = xmit[g].pktid)
      BY <2>5, <3>1
    <3> QED BY <2>1, <2>7, <3>1, <3>2 DEF Travels
  <2> QED BY <2>6, <2>8, TravelsOn DEF NetInv
<1>3. ASSUME NEW g \in Gateway, Xmit(g) PROVE NetInv'
  BY <1>1, <1>2, <1>3 DEF Xmit, XmitGetPacket, XmitRead, XmitReadFails, XmitLookup,
                          XmitSendFails
<1>4. ASSUME UNCHANGED net PROVE NetInv'
  BY <1>1, <1>4
<1> QED
  BY <1>1, <1>3, <1>4, Forms, RecvFrame DEF ProcessEnds, Quiet, HostWrite, Lose

LEMMA RecvStep ==
  ASSUME TypeOK, DevInv, TapInv, NetInv, RecvInv, [Next]_vars
  PROVE  RecvInv'
<1>t. /\ recv \in [Gateway -> [Bearer -> RecvThread]] /\ RecvIdle.pc = "none"
      /\ ThreadTypeOK
  BY DEF TypeOK, ThreadTypeOK, RecvIdle
<1> DEFINE Old(h, e) == recv[h][e].pc \in {"check", "announce"}
                        /\ recv'[h][e].msg = recv[h][e].msg
           New(h, e) == recv'[h][e].pc \in {"check", "announce"}
<1>1. ASSUME \A h \in Gateway, e \in Bearer : New(h, e) => Old(h, e)
      PROVE  RecvInv'
  BY <1>1, TravelsOn DEF RecvInv
<1>2. ASSUME UNCHANGED recv PROVE RecvInv'
  BY <1>1, <1>2
<1>3. ASSUME Quiet PROVE RecvInv'
  BY <1>1, <1>3 DEF Quiet
<1>4. ASSUME NEW g \in Gateway, ProcessEnds(g) PROVE RecvInv'
  <2>1. \A h \in Gateway, e \in Bearer : recv'[h][e] = recv[h][e] \/ recv'[h][e].pc = "none"
    BY <1>t, <1>4 DEF ProcessEnds
  <2> QED BY <1>1, <2>1
<1>5. ASSUME NEW g \in Gateway, NEW b \in Bearer, RecvPoll(g, b) PROVE RecvInv'
  <2>a. PICK n \in net : /\ n.to = g /\ n.at = b
                         /\ \E r \in Arrivals(n) :
                              recv' = [recv EXCEPT ![g][b] = [pc |-> "check", msg |-> r]]
    BY <1>5 DEF RecvPoll
  <2>b. Travels(n) /\ n \in Msg
    BY DEF NetInv, TypeOK, DataTypeOK
  <2>c. PICK m \in Arrivals(n) :
          recv' = [recv EXCEPT ![g][b] = [pc |-> "check", msg |-> m]]
    BY <2>a
  <2>1. m.to = g /\ m.at = b
    BY <2>a, <2>b, ArrivalsType
  <2>2. Travels(m) /\ m \in Msg
    BY <2>b, ArrivalsType DEF Travels
  <2>3. Travels(m)'
    BY <2>2, TravelsOn
  <2>4. /\ recv'[g][b].msg = m
        /\ \A h \in Gateway, e \in Bearer : ~(h = g /\ e = b) => recv'[h][e] = recv[h][e]
    BY <1>t, <2>c
  <2>5. ASSUME NEW h \in Gateway, NEW e \in Bearer, NEW k, k = recv'[h][e].msg,
               recv'[h][e].pc \in {"check", "announce"}
        PROVE  k \in Msg /\ Travels(k)' /\ k.to = h /\ k.at = e
    <3>1. CASE h = g /\ e = b
      <4>1. k = m BY <2>4, <2>5, <3>1
      <4> QED BY <2>1, <2>2, <2>3, <3>1, <4>1
    <3>2. CASE ~(h = g /\ e = b)
      <4>1. recv'[h][e] = recv[h][e] BY <2>4, <3>2
      <4>2. k \in Msg /\ Travels(k) /\ k.to = h /\ k.at = e
        BY <2>5, <4>1 DEF RecvInv
      <4> QED BY <4>2, TravelsOn
    <3> QED BY <3>1, <3>2
  <2> QED BY <2>5 DEF RecvInv, Travels
<1>6. ASSUME NEW g \in Gateway, NEW b \in Bearer,
             NEW c \in {"poll", "announce", "dead"},
             recv' = [recv EXCEPT ![g][b].pc = c], c = "announce" => recv[g][b].pc = "check"
      PROVE  RecvInv'
  <2>1. \A h \in Gateway, e \in Bearer :
           /\ recv'[h][e].msg = recv[h][e].msg
           /\ recv'[h][e].pc = IF h = g /\ e = b THEN c ELSE recv[h][e].pc
    BY <1>t, <1>6, RecvPc
  <2> QED BY <1>1, <1>6, <2>1
<1>7. ASSUME NEW g \in Gateway, NEW b \in Bearer, Recv(g, b) PROVE RecvInv'
  BY <1>2, <1>5, <1>6, <1>7
  DEF Recv, RecvDiscard, RecvAccept, RecvAnnounce, RecvFails, RecvDies
<1> QED
  BY <1>2, <1>3, <1>4, <1>7, Forms, XmitFrame DEF HostWrite, xmitUnchanged, Lose

\* The detector's numbers after its two calls.
LEMMA DetectorIds ==
  ASSUME NEW det \in Detector
  PROVE  /\ \A id : AfterId(det, id).ids = det.ids \cup {id}
         /\ \A p : AfterPkt(det, p).ids = det.ids
BY DEF AfterId, AfterPkt, Detector

\* The numbers a process has seen stay seen until it ends.
LEMMA IdsGrow ==
  ASSUME TypeOK, [Next]_vars
  PROVE  \/ \E g \in Gateway : ProcessEnds(g)
         \/ \A g \in Gateway : dup[g].ids \subseteq dup'[g].ids
<1>t. dup \in [Gateway -> Detector]
  BY DEF TypeOK, ThreadTypeOK
<1>1. ASSUME NEW g \in Gateway, NEW b \in Bearer, dup' = [dup EXCEPT ![g] = DetectorAfter(g, b)]
      PROVE  \A h \in Gateway : dup[h].ids \subseteq dup'[h].ids
  <2>1. dup[g].ids \subseteq DetectorAfter(g, b).ids
    BY <1>t, DetectorIds DEF DetectorAfter
  <2> QED BY <1>t, <1>1, <2>1
<1>2. ASSUME NEW g \in Gateway, NEW b \in Bearer, RecvFails(g, b)
      PROVE  \A h \in Gateway : dup[h].ids \subseteq dup'[h].ids
  <2>1. PICK n \in Junk : dup' = [dup EXCEPT ![g] = AfterId(dup[g], n)]
    BY <1>2 DEF RecvFails
  <2>2. dup[g].ids \subseteq AfterId(dup[g], n).ids
    BY <1>t, DetectorIds
  <2> QED BY <1>t, <2>1, <2>2
<1> QED
  BY <1>1, <1>2, Forms, XmitFrame
  DEF Quiet, HostWrite, xmitUnchanged, Lose, Recv, RecvPoll, RecvDiscard, RecvAccept,
      RecvAnnounce, RecvDies

LEMMA SeenStep ==
  ASSUME TypeOK, TypeOK', DevInv, TapInv, RecvInv, SeenInv, [Next]_vars
  PROVE  SeenInv'
<1>t. /\ dup \in [Gateway -> Detector] /\ recv \in [Gateway -> [Bearer -> RecvThread]]
      /\ out \in [Gateway -> Seq(Announcement)] /\ RecvIdle.pc = "none"
      /\ ThreadTypeOK
  BY DEF TypeOK, ThreadTypeOK, DataTypeOK, RecvIdle
<1>p. \A p \in Packet : idOf[p] # 0 => idOf'[p] = idOf[p]
  BY Persists
<1>o. \A g \in Gateway : \A i \in DOMAIN out[g] : out[g][i].pkt \in Packet
  <2>1. \A g \in Gateway : \A i \in DOMAIN out[g] : out[g][i] \in Announcement
    BY <1>t
  <2> QED BY <2>1 DEF Announcement
<1>m. \A g \in Gateway, b \in Bearer : recv[g][b].pc \in {"check", "announce"} =>
        recv[g][b].msg.pkt \in Packet /\ idOf[recv[g][b].msg.pkt] # 0
  BY DEF RecvInv, Travels, Msg
<1> DEFINE Out(g) == \A i \in DOMAIN out[g] : /\ idOf[out[g][i].pkt] # 0
                                              /\ out[g][i].form = "whole" => Seen(g, out[g][i].pkt)
           Ann(g, b) == Ready(g, b) =>
              LET p == recv[g][b].msg.pkt IN
              /\ Seen(g, p)
              /\ p \in Filtered =>
                   /\ \A i \in DOMAIN out[g] : out[g][i].form = "whole" => out[g][i].pkt # p
                   /\ \A c \in Bearer : Ready(g, c) /\ recv[g][c].msg.pkt = p => c = b
<1>a. \A g \in Gateway : Out(g) /\ \A b \in Bearer : Ann(g, b)
  BY DEF SeenInv
<1>b. (\A g \in Gateway : Out(g)' /\ \A b \in Bearer : Ann(g, b)') => SeenInv'
  BY DEF SeenInv
\* What was seen before the step is seen after it.
<1>s. ASSUME NEW g \in Gateway, NEW p \in Packet, dup[g].ids \subseteq dup'[g].ids,
             idOf[p] # 0, Seen(g, p)
      PROVE  idOf'[p] # 0 /\ Seen(g, p)'
  BY <1>p, <1>s DEF Seen
\* A gateway that announces nothing and has no new packet to announce.
<1>f. ASSUME NEW g \in Gateway, dup[g].ids \subseteq dup'[g].ids, out'[g] = out[g],
             \A b \in Bearer : recv'[g][b].pc = "announce" =>
               recv[g][b].pc = "announce" /\ recv'[g][b].msg = recv[g][b].msg
      PROVE  Out(g)' /\ \A b \in Bearer : Ann(g, b)'
  <2>1. Out(g)'
    <3>1. ASSUME NEW i \in DOMAIN out[g], NEW p, p = out[g][i].pkt
          PROVE  idOf'[p] # 0 /\ (out[g][i].form = "whole" => Seen(g, p)')
      <4>1. p \in Packet /\ idOf[p] # 0 /\ (out[g][i].form = "whole" => Seen(g, p))
        BY <1>a, <1>o, <3>1
      <4> QED BY <1>f, <1>p, <1>s, <4>1
    <3> QED BY <1>f, <3>1 DEF Seen
  <2>2. ASSUME NEW b \in Bearer, Ready(g, b)', NEW p, p = recv[g][b].msg.pkt
        PROVE  Ann(g, b)'
    <3>1. Ready(g, b) /\ recv'[g][b].msg.pkt = p
      BY <1>f, <2>2 DEF Ready
    <3>a. p = recv[g][b].msg.pkt BY <2>2
    <3>2. Seen(g, p)'
      BY <1>a, <1>f, <1>m, <1>s, <2>2, <3>1 DEF Ready
    <3>3. p \in Filtered => \A i \in DOMAIN out'[g] : out'[g][i].form = "whole" => out'[g][i].pkt # p
      BY <1>a, <1>f, <3>1, <3>a
    <3>4. p \in Filtered => \A c \in Bearer : Ready(g, c)' /\ recv'[g][c].msg.pkt = p => c = b
      BY <1>a, <1>f, <3>1, <3>a DEF Ready
    <3> QED BY <3>1, <3>2, <3>3, <3>4 DEF Seen
  <2> QED BY <2>1, <2>2
<1>1. ASSUME \A g \in Gateway : dup[g].ids \subseteq dup'[g].ids, UNCHANGED out,
             \A g \in Gateway, b \in Bearer : recv'[g][b].pc = "announce" =>
               recv[g][b].pc = "announce" /\ recv'[g][b].msg = recv[g][b].msg
      PROVE  SeenInv'
  <2> HIDE DEF Out, Ann
  <2> QED BY <1>b, <1>f, <1>1
<1>2. ASSUME NEW g \in Gateway, ProcessEnds(g) PROVE SeenInv'
  <2>1. ASSUME NEW h \in Gateway PROVE Out(h)' /\ \A b \in Bearer : Ann(h, b)'
    <3>1. CASE h = g
      <4>1. out'[h] = << >> /\ \A b \in Bearer : recv'[h][b].pc = "none"
        BY <1>t, <1>2, <3>1 DEF ProcessEnds
      <4> QED BY <4>1 DEF Ready
    <3>2. CASE h # g
      <4>1. dup'[h] = dup[h] /\ out'[h] = out[h] /\ \A b \in Bearer : recv'[h][b] = recv[h][b]
        BY <1>t, <1>2, <3>2 DEF ProcessEnds
      <4> HIDE DEF Out, Ann
      <4> QED BY <1>f, <4>1
    <3> QED BY <3>1, <3>2
  <2> HIDE DEF Out, Ann
  <2> QED BY <1>b, <2>1
<1>3. CASE \E g \in Gateway : ProcessEnds(g)
  BY <1>2, <1>3
<1>4. ASSUME \A g \in Gateway : dup[g].ids \subseteq dup'[g].ids,
             NEW g \in Gateway, NEW b \in Bearer, RecvAccept(g, b)
      PROVE  SeenInv'
  <2> DEFINE m == recv[g][b].msg  p == m.pkt
  <2>1. /\ recv[g][b].pc = "check" /\ ~IsDuplicate(g, b) /\ UNCHANGED <<out, idOf>>
        /\ dup' = [dup EXCEPT ![g] = DetectorAfter(g, b)]
        /\ recv' = [recv EXCEPT ![g][b].pc = "announce"]
    BY <1>4 DEF RecvAccept, recvUnchanged
  <2>2. \A h \in Gateway, e \in Bearer :
           /\ recv'[h][e].msg = recv[h][e].msg
           /\ recv'[h][e].pc = IF h = g /\ e = b THEN "announce" ELSE recv[h][e].pc
    BY <1>t, <2>1, RecvPc
  <2>3. p \in Filtered /\ m.form = "whole" =>
          /\ idOf[p] \notin dup[g].ids
          /\ idOf[p] \in dup'[g].ids
    <3>1. p \in Filtered /\ m.form = "whole" => Numbered(b) /\ m.id = idOf[p]
      <4>1. /\ m \in Msg /\ Travels(m) /\ (Numbered(b) <=> Numbered(m.via))
            /\ m.via \in PathsOf(p)
        BY <2>1, Landed DEF Travels
      <4> QED BY <4>1 DEF Travels, Filtered
    <3>2. Numbered(b) => m.id \notin dup[g].ids
      BY <2>1 DEF IsDuplicate, IdIsDuplicate
    <3>3. Numbered(b) => dup'[g].ids = dup[g].ids \cup {m.id}
      BY <1>t, <2>1, DetectorIds DEF DetectorAfter
    <3> QED BY <3>1, <3>2, <3>3
  <2>4. p \in Filtered /\ m.form = "whole" =>
          \A i \in DOMAIN out[g] : out[g][i].form = "whole" => out[g][i].pkt # p
    BY <1>a, <2>3 DEF Seen
  <2>5. p \in Filtered /\ m.form = "whole" =>
          \A c \in Bearer : Ready(g, c) => recv[g][c].msg.pkt # p
    BY <1>a, <2>3 DEF Seen
  <2> HIDE DEF m, p
  <2>6. ASSUME NEW h \in Gateway PROVE Out(h)'
    BY <1>a, <1>4, <1>o, <1>s, <2>1
  <2>7. ASSUME NEW h \in Gateway, NEW e \in Bearer, Ready(h, e)',
               NEW q, q = recv[h][e].msg.pkt
        PROVE  Ann(h, e)'
    <3>0. recv'[h][e].msg.pkt = q /\ recv[h][e].msg.form = "whole" BY <2>2, <2>7 DEF Ready
    <3>1. CASE h = g /\ e = b
      <4>1. q = p /\ m.form = "whole" BY <2>7, <3>0, <3>1 DEF m, p
      <4>2. Seen(h, q)' BY <2>1, <2>3, <3>1, <4>1 DEF Seen
      <4>3. q \in Filtered => \A c \in Bearer : Ready(h, c)' /\ recv'[h][c].msg.pkt = q => c = e
        BY <2>2, <2>5, <3>1, <4>1 DEF Ready
      <4>4. q \in Filtered => \A i \in DOMAIN out'[h] : out'[h][i].form = "whole" => out'[h][i].pkt # q
        BY <2>1, <2>4, <3>1, <4>1
      <4> QED BY <3>0, <4>2, <4>3, <4>4 DEF Seen
    <3>2. CASE ~(h = g /\ e = b)
      <4>1. Ready(h, e) BY <2>2, <2>7, <3>0, <3>2 DEF Ready
      <4>2. Seen(h, q)' BY <1>a, <1>4, <1>m, <1>s, <2>7, <4>1 DEF Ready
      <4>3. q \in Filtered => \A c \in Bearer : Ready(h, c)' /\ recv'[h][c].msg.pkt = q => c = e
        <5>1. q \in Filtered => \A c \in Bearer : Ready(h, c) /\ recv[h][c].msg.pkt = q => c = e
          BY <1>a, <2>7, <4>1
        <5>2. CASE h # g BY <2>2, <5>1, <5>2 DEF Ready
        <5>3. CASE h = g
          <6>1. q \in Filtered /\ m.form = "whole" => q # p BY <2>5, <2>7, <4>1, <5>3
          <6> QED BY <2>2, <5>1, <5>3, <6>1 DEF m, p, Ready
        <5> QED BY <5>2, <5>3
      <4>4. q \in Filtered => \A i \in DOMAIN out'[h] : out'[h][i].form = "whole" => out'[h][i].pkt # q
        BY <1>a, <2>1, <2>7, <4>1
      <4> QED BY <3>0, <4>2, <4>3, <4>4 DEF Seen
    <3> QED BY <3>1, <3>2
  <2>8. ASSUME NEW h \in Gateway, NEW e \in Bearer PROVE Ann(h, e)'
    BY <2>7
  <2> HIDE DEF Out, Ann
  <2> QED BY <1>b, <2>6, <2>8
<1>5. ASSUME \A g \in Gateway : dup[g].ids \subseteq dup'[g].ids,
             NEW g \in Gateway, NEW b \in Bearer, RecvAnnounce(g, b)
      PROVE  SeenInv'
  <2> DEFINE p == recv[g][b].msg.pkt  w == recv[g][b].msg.form
             a == [dev |-> Ifname[g][b], pkt |-> p, form |-> w]
  <2>1. /\ recv[g][b].pc = "announce" /\ UNCHANGED <<dup, idOf>>
        /\ out' = [out EXCEPT ![g] = Append(out[g], a)]
        /\ recv' = [recv EXCEPT ![g][b].pc = "poll"]
    BY <1>5 DEF RecvAnnounce, recvUnchanged
  <2>2. \A h \in Gateway, e \in Bearer :
           /\ recv'[h][e].msg = recv[h][e].msg
           /\ recv'[h][e].pc = IF h = g /\ e = b THEN "poll" ELSE recv[h][e].pc
    BY <1>t, <2>1, RecvPc
  <2>3. a.pkt = p /\ a.form = w OBVIOUS
  <2>4. idOf[p] # 0 /\ (w = "whole" => Seen(g, p)) /\ p \in Packet
    BY <1>a, <1>m, <2>1 DEF Ready
  <2>5. p \in Filtered /\ w = "whole" =>
          \A c \in Bearer : Ready(g, c) /\ recv[g][c].msg.pkt = p => c = b
    BY <1>a, <2>1 DEF Ready
  <2> HIDE DEF a, p, w
  <2>6. ASSUME NEW i \in DOMAIN out'[g]
        PROVE  out'[g][i] = a \/ (i \in DOMAIN out[g] /\ out'[g][i] = out[g][i])
    BY <1>t, <2>1
  <2>7. \A h \in Gateway : h # g => out'[h] = out[h]
    BY <1>t, <2>1
  <2>8. ASSUME NEW h \in Gateway PROVE Out(h)'
    <3>1. CASE h = g
      <4>1. \A i \in DOMAIN out'[g] : /\ idOf[out'[g][i].pkt] # 0
                                      /\ out'[g][i].form = "whole" => Seen(g, out'[g][i].pkt)
        BY <1>a, <2>3, <2>4, <2>6
      <4> QED BY <2>1, <3>1, <4>1 DEF Seen
    <3>2. CASE h # g BY <1>a, <2>1, <2>7, <3>2 DEF Seen
    <3> QED BY <3>1, <3>2
  <2>9. ASSUME NEW h \in Gateway, NEW e \in Bearer, Ready(h, e)',
               NEW q, q = recv[h][e].msg.pkt
        PROVE  Ann(h, e)'
    <3>0. /\ Ready(h, e) /\ ~(h = g /\ e = b)
          /\ recv[h][e].msg.pkt = q /\ recv'[h][e].msg.pkt = q
      BY <2>2, <2>9 DEF Ready
    <3>1. Seen(h, q)' BY <1>a, <2>1, <3>0 DEF Seen
    <3>2. q \in Filtered => \A c \in Bearer : Ready(h, c)' /\ recv'[h][c].msg.pkt = q => c = e
      BY <1>a, <2>2, <3>0 DEF Ready
    <3>3. q \in Filtered => \A i \in DOMAIN out'[h] : out'[h][i].form = "whole" => out'[h][i].pkt # q
      <4>1. CASE h # g BY <1>a, <2>7, <3>0, <4>1
      <4>2. CASE h = g
        <5>1. q \in Filtered /\ w = "whole" => q # p BY <2>5, <3>0, <4>2
        <5>2. q \in Filtered => \A i \in DOMAIN out[g] : out[g][i].form = "whole" => out[g][i].pkt # q
          BY <1>a, <3>0, <4>2
        <5> QED BY <2>3, <2>6, <4>2, <5>1, <5>2
      <4> QED BY <4>1, <4>2
    <3> QED BY <3>0, <3>1, <3>2, <3>3 DEF Seen
  <2>10. ASSUME NEW h \in Gateway, NEW e \in Bearer PROVE Ann(h, e)'
    BY <2>9
  <2> HIDE DEF Out, Ann
  <2> QED BY <1>b, <2>8, <2>10
<1>6. ASSUME \A g \in Gateway : dup[g].ids \subseteq dup'[g].ids,
             NEW g \in Gateway, NEW b \in Bearer, Recv(g, b)
      PROVE  SeenInv'
  <2>1. ASSUME NEW c \in {"poll", "dead"}, recv' = [recv EXCEPT ![g][b].pc = c], UNCHANGED out
        PROVE  SeenInv'
    <3>1. \A h \in Gateway, e \in Bearer :
           /\ recv'[h][e].msg = recv[h][e].msg
           /\ recv'[h][e].pc = IF h = g /\ e = b THEN c ELSE recv[h][e].pc
      BY <1>t, <2>1, RecvPc
    <3> QED BY <1>1, <1>6, <2>1, <3>1
  <2>2. ASSUME RecvPoll(g, b) PROVE SeenInv'
    <3>1. PICK m : recv' = [recv EXCEPT ![g][b] = [pc |-> "check", msg |-> m]]
      BY <2>2 DEF RecvPoll
    <3>2. \A h \in Gateway, e \in Bearer :
            recv'[h][e] = recv[h][e] \/ recv'[h][e].pc = "check"
      BY <1>t, <3>1
    <3>3. UNCHANGED out BY <2>2 DEF RecvPoll
    <3> QED BY <1>1, <1>6, <3>2, <3>3
  <2>3. ASSUME RecvFails(g, b) PROVE SeenInv'
    BY <1>1, <1>6, <2>3 DEF RecvFails
  <2> QED BY <1>4, <1>5, <1>6, <2>1, <2>2, <2>3 DEF Recv, RecvDiscard, RecvDies
<1>7. ASSUME \A g \in Gateway : dup[g].ids \subseteq dup'[g].ids, UNCHANGED out,
             UNCHANGED recv \/ Quiet
      PROVE  SeenInv'
  BY <1>1, <1>7 DEF Quiet
<1> QED
  BY <1>3, <1>6, <1>7, Forms, XmitFrame, IdsGrow
  DEF Quiet, HostWrite, xmitUnchanged, Lose, recvUnchanged

\* The step a receive thread announces in: nothing it announces is there yet.
LEMMA AnnouncesFresh ==
  ASSUME SeenInv, NEW g \in Gateway, NEW b \in Bearer, RecvAnnounce(g, b)
  PROVE  LET p == recv[g][b].msg.pkt IN
         /\ out' = [out EXCEPT ![g] =
                      Append(out[g], [dev |-> Ifname[g][b], pkt |-> p,
                                      form |-> recv[g][b].msg.form])]
         /\ p \in Filtered /\ recv[g][b].msg.form = "whole" =>
              \A i \in DOMAIN out[g] : out[g][i].form = "whole" => out[g][i].pkt # p
BY DEF SeenInv, RecvAnnounce, Ready

\* All other steps leave the list of announcements alone or clear it.
LEMMA OutStep ==
  ASSUME TypeOK, [Next]_vars
  PROVE  \/ UNCHANGED <<out, written>>
         \/ \E p \in Packet : HostWrite(p)
         \/ \E g \in Gateway : ProcessEnds(g)
         \/ \E g \in Gateway, b \in Bearer : RecvAnnounce(g, b)
BY Forms, XmitFrame
DEF Quiet, xmitUnchanged, Lose, recvUnchanged, Recv, RecvPoll, RecvDiscard, RecvAccept,
    RecvFails, RecvDies

LEMMA OnceStep ==
  ASSUME TypeOK, SeenInv, AnnouncedOnce, [Next]_vars
  PROVE  AnnouncedOnce'
<1>t. out \in [Gateway -> Seq(Announcement)]
  BY DEF TypeOK, DataTypeOK
<1>1. ASSUME UNCHANGED out PROVE AnnouncedOnce'
  BY <1>1 DEF AnnouncedOnce
<1>2. ASSUME NEW g \in Gateway, ProcessEnds(g) PROVE AnnouncedOnce'
  <2>1. \A h \in Gateway : out'[h] = out[h] \/ out'[h] = << >>
    BY <1>t, <1>2 DEF ProcessEnds
  <2> QED BY <2>1 DEF AnnouncedOnce
<1>3. ASSUME NEW g \in Gateway, NEW b \in Bearer, RecvAnnounce(g, b) PROVE AnnouncedOnce'
  <2> DEFINE p == recv[g][b].msg.pkt  w == recv[g][b].msg.form
             a == [dev |-> Ifname[g][b], pkt |-> p, form |-> w]
  <2>1. /\ out' = [out EXCEPT ![g] = Append(out[g], a)]
        /\ p \in Filtered /\ w = "whole" =>
             \A i \in DOMAIN out[g] : out[g][i].form = "whole" => out[g][i].pkt # p
    BY <1>3, AnnouncesFresh
  <2>2. a.pkt = p /\ a.form = w OBVIOUS
  <2> HIDE DEF a, p, w
  <2>3. ASSUME NEW i \in DOMAIN out'[g]
        PROVE  \/ i = Len(out[g]) + 1 /\ out'[g][i] = a
               \/ i \in DOMAIN out[g] /\ out'[g][i] = out[g][i]
    BY <1>t, <2>1
  <2>4. \A h \in Gateway : h # g => out'[h] = out[h]
    BY <1>t, <2>1
  <2>5. ASSUME NEW i \in DOMAIN out'[g], NEW j \in DOMAIN out'[g],
               out'[g][i].pkt = out'[g][j].pkt, out'[g][i].pkt \in Filtered,
               out'[g][i].form = "whole", out'[g][j].form = "whole"
        PROVE  i = j
    BY <2>1, <2>2, <2>3, <2>5 DEF AnnouncedOnce
  <2> QED BY <2>4, <2>5 DEF AnnouncedOnce
<1> QED BY <1>1, <1>2, <1>3, OutStep DEF HostWrite

-----------------------------------------------------------------------------
LEMMA InvInit == Init => IInv
<1> SUFFICES ASSUME Init PROVE IInv OBVIOUS
<1>1. TypeOK BY TypeInit
<1>2. /\ XmitIdle.pc = "none" /\ RecvIdle.pc = "none"
  BY DEF XmitIdle, RecvIdle
<1>3. /\ devs = [g \in Gateway |-> {}] /\ xmit = [g \in Gateway |-> XmitIdle]
      /\ recv = [g \in Gateway |-> [b \in Bearer |-> RecvIdle]]
      /\ tap = [g \in Gateway |-> [d \in Dev |-> << >>]]
      /\ dev2mpTunnel = [g \in Gateway |-> [d \in Dev |-> << >>]]
      /\ out = [g \in Gateway |-> << >>] /\ net = {} /\ idOf = [p \in Packet |-> 0]
  BY DEF Init
<1>4. DevInv BY <1>2, <1>3 DEF DevInv
<1>5. TunnelInv BY <1>3 DEF TunnelInv
<1>6. IdInv BY <1>3 DEF IdInv
<1>7. TapInv BY <1>3 DEF TapInv
<1>8. XmitInv BY <1>2, <1>3 DEF XmitInv
<1>9. NetInv BY <1>3 DEF NetInv
<1>10. RecvInv BY <1>2, <1>3 DEF RecvInv
<1>11. SeenInv BY <1>2, <1>3 DEF SeenInv, Ready
<1>12. AnnouncedOnce BY <1>3 DEF AnnouncedOnce
<1> QED BY <1>1, <1>4, <1>5, <1>6, <1>7, <1>8, <1>9, <1>10, <1>11, <1>12 DEF IInv

LEMMA InvStep == IInv /\ [Next]_vars => IInv'
<1> SUFFICES ASSUME IInv, [Next]_vars PROVE IInv' OBVIOUS
<1>1. /\ TypeOK /\ DevInv /\ TunnelInv /\ IdInv /\ TapInv /\ XmitInv /\ NetInv /\ RecvInv
      /\ SeenInv /\ AnnouncedOnce
  BY DEF IInv
<1>2. TypeOK' BY <1>1, TypeStep
<1>3. DevInv' /\ TunnelInv' BY <1>1, DevStep, TunnelStep
<1>4. IdInv' /\ TapInv' BY <1>1, IdStep, TapStep
<1>5. XmitInv' /\ NetInv' BY <1>1, XmitStep, NetStep
<1>6. RecvInv' /\ SeenInv' BY <1>1, <1>2, RecvStep, SeenStep
<1>7. AnnouncedOnce' BY <1>1, OnceStep
<1> QED BY <1>2, <1>3, <1>4, <1>5, <1>6, <1>7 DEF IInv

LEMMA Invariance == Spec => []IInv
BY InvInit, InvStep, PTL DEF Spec

\* The tables, the threads' locals and the messages in flight always hold values
\* of their kinds: no thread reads a device that was never created, and no
\* message lacks its packet or its number.
THEOREM TypeCorrect == Spec => []TypeOK
<1>1. IInv => TypeOK BY DEF IInv
<1> QED BY <1>1, Invariance, PTL

\* A packet all of whose bearers number their messages is announced at most
\* once by one run of a process, however its copies are reordered, lost or
\* duplicated, whatever crashes, and whatever the number of gateways, bearers
\* and packets (tunnelRecvThreadFunc, lines 226-256).  Copies that a TCP
\* connection has cut short are not counted.
THEOREM AtMostOnce == Spec => []AnnouncedOnce
<1>1. IInv => AnnouncedOnce BY DEF IInv
<1> QED BY <1>1, Invariance, PTL

-----------------------------------------------------------------------------
(***************************************************************************)
(* The tables.  The transmit thread's part of TablesAgree is DevInv's; of  *)
(* the rest, there is a part on what is in a tunnel and one on what is not.*)
(***************************************************************************)
PathTables(g) ==
  \A d \in Dev : \A i \in DOMAIN dev2mpTunnel[g][d] :
    LET b == dev2mpTunnel[g][d][i] IN
    /\ d = Ifname[g][b] /\ d \in devs[g]
    /\ rpeer2dev[g][Remote[g][b]] = d
    /\ recv[g][b].pc # "none"
    /\ xmit[g].pc # "none"
    /\ \A j \in DOMAIN dev2mpTunnel[g][d] :
         Remote[g][dev2mpTunnel[g][d][j]] = Remote[g][b] => j = i

ThreadTables(g) ==
  \A b \in Bearer : recv[g][b].pc # "none" =>
    \E i \in DOMAIN dev2mpTunnel[g][Ifname[g][b]] :
      dev2mpTunnel[g][Ifname[g][b]][i] = b

LEMMA TablesParts ==
  ASSUME DevInv
  PROVE  TablesAgree <=> \A g \in Gateway : PathTables(g) /\ ThreadTables(g)
<1>1. \A g \in Gateway : xmit[g].pc # "none" => front[g] # NoDev
  BY ConfigAssumption DEF DevInv
<1> QED BY <1>1 DEF TablesAgree, PathTables, ThreadTables

\* No thread starts or ends, and devices are only added.
LEMMA TablesFrame ==
  ASSUME NEW g \in Gateway, PathTables(g), ThreadTables(g),
         rpeer2dev'[g] = rpeer2dev[g], dev2mpTunnel'[g] = dev2mpTunnel[g],
         devs[g] \subseteq devs'[g],
         xmit'[g].pc = "none" => xmit[g].pc = "none",
         \A b \in Bearer : recv'[g][b].pc = "none" <=> recv[g][b].pc = "none",
         dev2mpTunnel \in [Gateway -> [Dev -> Seq(Bearer)]]
  PROVE  PathTables(g)' /\ ThreadTables(g)'
<1>1. \A d \in Dev : \A i \in DOMAIN dev2mpTunnel[g][d] : dev2mpTunnel[g][d][i] \in Bearer
  OBVIOUS
<1>2. PathTables(g)'
  BY <1>1 DEF PathTables
<1>3. ThreadTables(g)'
  BY DEF ThreadTables
<1> QED BY <1>2, <1>3

LEMMA TablesEmptied ==
  ASSUME TypeOK, NEW g \in Gateway, ProcessEnds(g)
  PROVE  PathTables(g)' /\ ThreadTables(g)'
<1>1. /\ dev2mpTunnel'[g] = [d \in Dev |-> << >>]
      /\ \A b \in Bearer : recv'[g][b].pc = "none"
  BY DEF TypeOK, CfgTypeOK, ThreadTypeOK, ProcessEnds, RecvIdle
<1> QED BY <1>1 DEF PathTables, ThreadTables

LEMMA TablesAdd ==
  ASSUME TypeOK, NEW g \in Gateway, NEW b \in Bearer, AddBearer(g, b),
         PathTables(g), ThreadTables(g)
  PROVE  PathTables(g)' /\ ThreadTables(g)'
<1> DEFINE d == Ifname[g][b]  s == dev2mpTunnel[g][d]  a == Remote[g][b]
<1>t. /\ dev2mpTunnel \in [Gateway -> [Dev -> Seq(Bearer)]]
      /\ rpeer2dev \in [Gateway -> [Addr -> Dev \cup {NoDev}]]
      /\ devs \in [Gateway -> SUBSET Dev]
      /\ xmit \in [Gateway -> XmitThread] /\ recv \in [Gateway -> [Bearer -> RecvThread]]
      /\ NoDev \notin Dev
  BY ConfigAssumption DEF TypeOK, CfgTypeOK, ThreadTypeOK
<1>c. /\ d \in Dev /\ s \in Seq(Bearer)
      /\ \A e \in Bearer : Remote[g][e] \in Addr /\ Ifname[g][e] \in Dev
  BY <1>t, ConfigType
<1>1. /\ rpeer2dev[g][a] = NoDev
      /\ rpeer2dev'[g] = [rpeer2dev[g] EXCEPT ![a] = d]
  BY <1>t, <1>c DEF AddBearer
<1>2. dev2mpTunnel'[g] = [dev2mpTunnel[g] EXCEPT ![d] = Append(s, b)]
  BY <1>t, <1>c DEF AddBearer
<1>3. devs[g] \subseteq devs'[g] /\ d \in devs'[g]
  BY <1>t, <1>c DEF AddBearer, AddIf
<1>4. xmit'[g].pc # "none"
  <2>1. CASE xmit[g].pc = "none"
    BY <1>t, <2>1, XmitStarts DEF AddBearer
  <2>2. CASE xmit[g].pc # "none"
    BY <2>2 DEF AddBearer
  <2> QED BY <2>1, <2>2
<1>5. \A e \in Bearer : recv'[g][e] = IF e = b THEN [RecvIdle EXCEPT !.pc = "poll"] ELSE recv[g][e]
  BY <1>t DEF AddBearer
<1>6. \A e \in Bearer : recv'[g][e].pc # "none" <=> e = b \/ recv[g][e].pc # "none"
  BY <1>5, RecvStarts
<1>7. \* The address is no path's yet.
      ASSUME NEW e \in Dev, NEW i \in DOMAIN dev2mpTunnel[g][e]
      PROVE  /\ dev2mpTunnel[g][e][i] \in Bearer
             /\ Remote[g][dev2mpTunnel[g][e][i]] # a
  BY <1>t, <1>1 DEF PathTables
<1> HIDE DEF d, s, a
<1>8. ASSUME NEW i \in DOMAIN Append(s, b)
      PROVE  \/ i = Len(s) + 1 /\ Append(s, b)[i] = b
             \/ i \in DOMAIN s /\ Append(s, b)[i] = s[i]
  BY <1>c
<1>9. PathTables(g)'
  <2> SUFFICES ASSUME NEW e \in Dev, NEW i \in DOMAIN dev2mpTunnel'[g][e]
      PROVE LET c == dev2mpTunnel'[g][e][i] IN
            /\ e = Ifname[g][c] /\ e \in devs'[g]
            /\ rpeer2dev'[g][Remote[g][c]] = e
            /\ recv'[g][c].pc # "none"
            /\ xmit'[g].pc # "none"
            /\ \A j \in DOMAIN dev2mpTunnel'[g][e] :
                 Remote[g][dev2mpTunnel'[g][e][j]] = Remote[g][c] => j = i
    BY DEF PathTables
  <2> DEFINE c == dev2mpTunnel'[g][e][i]
  <2>a. rpeer2dev[g] \in [Addr -> Dev \cup {NoDev}] /\ dev2mpTunnel[g] \in [Dev -> Seq(Bearer)]
    BY <1>t
  <2>o. ASSUME NEW k \in DOMAIN dev2mpTunnel[g][e], c = dev2mpTunnel[g][e][k]
        PROVE  /\ e = Ifname[g][c] /\ e \in devs'[g]
               /\ rpeer2dev'[g][Remote[g][c]] = e /\ recv'[g][c].pc # "none"
    <3> HIDE DEF c
    <3>1. c \in Bearer /\ Remote[g][c] # a
      BY <1>7, <2>o
    <3>2. /\ e = Ifname[g][c] /\ e \in devs[g]
          /\ rpeer2dev[g][Remote[g][c]] = e /\ recv[g][c].pc # "none"
      BY <2>o DEF PathTables
    <3> QED BY <1>c, <1>1, <1>3, <1>6, <2>a, <3>1, <3>2
  <2>1. CASE e # d
    <3>1. dev2mpTunnel'[g][e] = dev2mpTunnel[g][e]
      BY <1>2, <1>c, <2>a, <2>1
    <3>2. \A j \in DOMAIN dev2mpTunnel[g][e] :
            Remote[g][dev2mpTunnel[g][e][j]] = Remote[g][c] => j = i
      BY <3>1 DEF PathTables
    <3> QED BY <1>4, <2>o, <3>1, <3>2
  <2>2. CASE e = d
    <3>1. dev2mpTunnel'[g][e] = Append(s, b) /\ s = dev2mpTunnel[g][e]
      BY <1>2, <1>c, <2>a, <2>2 DEF s, d
    <3>2. CASE i = Len(s) + 1 /\ c = b
      <4>1. \A j \in DOMAIN Append(s, b) : Remote[g][Append(s, b)[j]] = a => j = i
        BY <1>7, <1>8, <3>1, <3>2
      <4>2. /\ e = Ifname[g][b] /\ e \in devs'[g] /\ rpeer2dev'[g][Remote[g][b]] = e
        <5>1. e = Ifname[g][b] /\ e \in devs'[g]
          BY <1>3, <2>2 DEF d
        <5>2. a \in Addr
          BY <1>c DEF a
        <5>3. rpeer2dev'[g][a] = d
          BY <1>1, <2>a, <5>2
        <5> QED BY <2>2, <5>1, <5>3 DEF a
      <4> QED BY <1>4, <1>6, <3>1, <3>2, <4>1, <4>2 DEF a
    <3>3. CASE i \in DOMAIN s /\ c = s[i]
      <4>1. Remote[g][c] # a
        BY <1>7, <3>1, <3>3
      <4>2. \A j \in DOMAIN s : Remote[g][s[j]] = Remote[g][c] => j = i
        BY <3>1, <3>3 DEF PathTables
      <4>3. \A j \in DOMAIN Append(s, b) : Remote[g][Append(s, b)[j]] = Remote[g][c] => j = i
        BY <1>8, <4>1, <4>2 DEF a
      <4> QED BY <1>4, <2>o, <3>1, <3>3, <4>3
    <3> QED BY <1>8, <3>1, <3>2, <3>3
  <2> QED BY <2>1, <2>2
<1>10. ThreadTables(g)'
  <2> SUFFICES ASSUME NEW e \in Bearer, recv'[g][e].pc # "none"
      PROVE \E i \in DOMAIN dev2mpTunnel'[g][Ifname[g][e]] :
              dev2mpTunnel'[g][Ifname[g][e]][i] = e
    BY DEF ThreadTables
  <2>a. dev2mpTunnel[g] \in [Dev -> Seq(Bearer)]
    BY <1>t
  <2>1. CASE e = b
    <3>1. dev2mpTunnel'[g][Ifname[g][e]] = Append(s, b)
      BY <1>2, <1>c, <2>a, <2>1 DEF d
    <3>2. Len(s) + 1 \in DOMAIN Append(s, b) /\ Append(s, b)[Len(s) + 1] = b
      BY <1>c
    <3> QED BY <2>1, <3>1, <3>2
  <2>2. CASE e # b
    <3>1. PICK i \in DOMAIN dev2mpTunnel[g][Ifname[g][e]] :
            dev2mpTunnel[g][Ifname[g][e]][i] = e
      BY <1>6, <2>2 DEF ThreadTables
    <3>2. CASE Ifname[g][e] = d
      <4>1. dev2mpTunnel'[g][Ifname[g][e]] = Append(s, b) /\ s = dev2mpTunnel[g][Ifname[g][e]]
        BY <1>2, <1>c, <2>a, <3>2 DEF s, d
      <4>2. i \in DOMAIN Append(s, b) /\ Append(s, b)[i] = s[i]
        BY <1>c, <3>1, <4>1
      <4> QED BY <3>1, <4>1, <4>2
    <3>3. CASE Ifname[g][e] # d
      <4>1. dev2mpTunnel'[g][Ifname[g][e]] = dev2mpTunnel[g][Ifname[g][e]]
        BY <1>2, <1>c, <2>a, <3>3
      <4> QED BY <3>1, <4>1
    <3> QED BY <3>2, <3>3
  <2> QED BY <2>1, <2>2
<1> QED BY <1>9, <1>10

LEMMA TablesStep ==
  ASSUME TypeOK, DevInv, DevInv', TablesAgree, [Next]_vars
  PROVE  TablesAgree'
<1>t. /\ dev2mpTunnel \in [Gateway -> [Dev -> Seq(Bearer)]]
      /\ rpeer2dev \in [Gateway -> [Addr -> Dev \cup {NoDev}]]
      /\ devs \in [Gateway -> SUBSET Dev]
      /\ xmit \in [Gateway -> XmitThread] /\ recv \in [Gateway -> [Bearer -> RecvThread]]
  BY DEF TypeOK, CfgTypeOK, ThreadTypeOK
<1>p. \A g \in Gateway : PathTables(g) /\ ThreadTables(g)
  BY TablesParts
<1> SUFFICES ASSUME NEW h \in Gateway PROVE PathTables(h)' /\ ThreadTables(h)'
  <2>1. \A g \in Gateway : xmit'[g].pc # "none" => front'[g] # NoDev
    BY ConfigAssumption DEF DevInv
  <2> QED BY <2>1 DEF TablesAgree, PathTables, ThreadTables
<1>0. ASSUME rpeer2dev'[h] = rpeer2dev[h], dev2mpTunnel'[h] = dev2mpTunnel[h],
             devs[h] \subseteq devs'[h], xmit'[h] = xmit[h], recv'[h] = recv[h]
      PROVE  PathTables(h)' /\ ThreadTables(h)'
  BY <1>0, <1>p, <1>t, TablesFrame
<1>1. ASSUME NEW g \in Gateway, ProcessEnds(g) PROVE PathTables(h)' /\ ThreadTables(h)'
  <2>1. CASE h = g BY <1>1, <2>1, TablesEmptied
  <2>2. CASE h # g BY <1>0, <1>1, <1>t, <2>2 DEF ProcessEnds
  <2> QED BY <2>1, <2>2
<1>2. ASSUME UNCHANGED <<rpeer2dev, dev2mpTunnel, xmit, recv>>, devs[h] \subseteq devs'[h]
      PROVE  PathTables(h)' /\ ThreadTables(h)'
  BY <1>0, <1>2
<1>3. ASSUME NEW g \in Gateway, Build(g) PROVE PathTables(h)' /\ ThreadTables(h)'
  <2> PICK b \in Bearer : \/ AddBearerNoTransport(g, b) \/ AddBearerNoIf(g, b)
                          \/ AddBearerRefused(g, b) \/ AddBearer(g, b)
    BY <1>3 DEF Build
  <2>i. ASSUME NEW d, AddIf(g, d) PROVE devs[h] \subseteq devs'[h]
    BY <1>t, <2>i DEF AddIf
  <2>1. CASE AddBearerNoTransport(g, b)
    BY <1>2, <2>1 DEF AddBearerNoTransport
  <2>2. CASE AddBearerNoIf(g, b)
    BY <1>1, <1>2, <2>2 DEF AddBearerNoIf, DropPath
  <2>3. CASE AddBearerRefused(g, b)
    BY <1>1, <1>2, <2>3, <2>i DEF AddBearerRefused, DropPath
  <2>4. CASE AddBearer(g, b)
    <3>1. CASE h = g BY <1>p, <2>4, <3>1, TablesAdd
    <3>2. CASE h # g
      <4>1. /\ rpeer2dev'[h] = rpeer2dev[h] /\ dev2mpTunnel'[h] = dev2mpTunnel[h]
            /\ recv'[h] = recv[h] /\ xmit'[h] = xmit[h]
        BY <1>t, <2>4, <3>2 DEF AddBearer
      <4>2. devs[h] \subseteq devs'[h]
        BY <2>4, <2>i DEF AddBearer
      <4> QED BY <1>0, <4>1, <4>2
    <3> QED BY <3>1, <3>2
  <2> QED BY <2>1, <2>2, <2>3, <2>4
<1>4. ASSUME NEW g \in Gateway, Xmit(g) PROVE PathTables(h)' /\ ThreadTables(h)'
  <2>1. xmitUnchanged /\ (h # g => xmit'[h] = xmit[h])
    BY <1>4, XmitFrame
  <2>2. h = g => xmit'[h].pc # "none"
    BY <1>4, XmitAfter DEF Xmit, XmitSend, XmitSendFails
  <2> QED BY <1>p, <1>t, <2>1, <2>2, TablesFrame DEF xmitUnchanged, cfgVars
<1>5. ASSUME NEW g \in Gateway, NEW b \in Bearer, Recv(g, b)
      PROVE  PathTables(h)' /\ ThreadTables(h)'
  <2>1. recvUnchanged BY <1>5, RecvFrame
  <2>2. \A e \in Bearer : recv'[h][e].pc = "none" <=> recv[h][e].pc = "none"
    <3>1. CASE RecvPoll(g, b)
      <4>1. PICK r : recv' = [recv EXCEPT ![g][b] = [pc |-> "check", msg |-> r]]
        BY <3>1 DEF RecvPoll
      <4>2. [pc |-> "check", msg |-> r].pc = "check" OBVIOUS
      <4>3. recv[g][b].pc = "poll" BY <3>1 DEF RecvPoll
      <4> QED BY <1>t, <4>1, <4>2, <4>3
    <3>2. ASSUME NEW c \in {"poll", "announce", "dead"},
                 recv' = [recv EXCEPT ![g][b].pc = c], recv[g][b].pc # "none"
          PROVE  \A e \in Bearer : recv'[h][e].pc = "none" <=> recv[h][e].pc = "none"
      <4>1. ThreadTypeOK BY DEF TypeOK
      <4> QED BY <3>2, <4>1, RecvPc
    <3> QED BY <1>5, <3>1, <3>2 DEF Recv, RecvDiscard, RecvAccept, RecvAnnounce, RecvFails, RecvDies
  <2> QED BY <1>p, <1>t, <2>1, <2>2, TablesFrame DEF recvUnchanged, cfgVars
<1>6. ASSUME NEW g \in Gateway, Crash(g) \/ Restart(g) PROVE PathTables(h)' /\ ThreadTables(h)'
  BY <1>1, <1>2, <1>6 DEF Crash, Restart, cfgVars
<1> QED BY <1>2, <1>3, <1>4, <1>5, <1>6
        DEF Next, HostWrite, Lose, recvUnchanged, cfgVars, vars

LEMMA TablesInit == Init => TablesAgree
<1> SUFFICES ASSUME Init PROVE TablesAgree OBVIOUS
<1>1. /\ \A g \in Gateway, b \in Bearer : recv[g][b].pc = "none"
      /\ \A g \in Gateway : xmit[g].pc = "none" /\ dev2mpTunnel[g] = [d \in Dev |-> << >>]
  BY DEF Init, RecvIdle, XmitIdle
<1> QED BY <1>1 DEF TablesAgree

\* Whatever bearers are refused, whatever crashes and whenever the threads look:
\* each path is registered under its own remote address, which no other path of
\* its tunnel has, and paths and receive threads are the same bearers (addBearer,
\* lines 490-534).  The mutex of the manager makes it one step.
THEOREM TablesCorrect == Spec => []TablesAgree
<1>1. IInv => TypeOK /\ DevInv BY DEF IInv
<1>2. IInv /\ IInv' /\ TablesAgree /\ [Next]_vars => TablesAgree'
  BY <1>1, TablesStep, PTL
<1> QED BY <1>2, TablesInit, Invariance, PTL DEF Spec

-----------------------------------------------------------------------------
(***************************************************************************)
(* The ICMP packets of GRE bearers.  Order: what one step does to a copy   *)
(* (CopyMoves, CopyStep); what one test does to the detector (PktEffect);  *)
(* the two together (AcceptFresh, DiscardLast, DigestStep); what has been  *)
(* handed over (HandedStep); the invariant and the theorem.                *)
(***************************************************************************)
\* What makes a packet Paired, as facts.
LEMMA PairedFacts ==
  ASSUME NEW p \in Paired
  PROVE  /\ p \in Icmp /\ p \in Packet
         /\ PathsOf(p) \subseteq Bearer
         /\ \A b \in PathsOf(p) : /\ Proto[b] = "gre" /\ ~Numbered(b) /\ b \notin Faulty
                                  /\ Sockets[Peer[Source[p].gw][b]][b] = {b}
         /\ \A a, b, c \in PathsOf(p) : a = b \/ b = c \/ a = c
         /\ \A q \in Icmp : Flow[q] = Flow[p] /\ UniqueId[q] = UniqueId[p] => q = p
<1>1. /\ p \in Icmp
      /\ \A b \in PathsOf(p) : /\ Proto[b] = "gre" /\ b \notin Faulty
                               /\ Sockets[Peer[Source[p].gw][b]][b] = {b}
      /\ Cardinality(PathsOf(p)) <= 2
      /\ \A q \in Icmp : Flow[q] = Flow[p] /\ UniqueId[q] = UniqueId[p] => q = p
  BY DEF Paired
<1>2. p \in Packet
  BY <1>1, ConfigAssumption
<1>3. PathsOf(p) \subseteq Bearer
  BY DEF PathsOf
<1>4. ASSUME NEW a \in PathsOf(p), NEW b \in PathsOf(p), NEW c \in PathsOf(p),
             a # b, b # c, a # c
      PROVE  FALSE
  <2> DEFINE S == PathsOf(p)
  <2>1. IsFiniteSet(S)
    BY <1>3, ConfigAssumption, FS_Subset
  <2> HIDE DEF S
  <2>2. IsFiniteSet({}) /\ Cardinality({}) = 0
    BY FS_EmptySet
  <2>3. IsFiniteSet({a}) /\ Cardinality({a}) = 1
    BY FS_Singleton
  <2>4. IsFiniteSet({a} \cup {b}) /\ Cardinality({a} \cup {b}) = 2
    BY <1>4, <2>3, FS_AddElement
  <2>5. Cardinality(({a} \cup {b}) \cup {c}) = 3
    <3>1. c \notin {a} \cup {b}
      BY <1>4
    <3>2. PICK T : T = {a} \cup {b}
      OBVIOUS
    <3>3. IsFiniteSet(T) /\ Cardinality(T) = 2 /\ c \notin T
      BY <2>4, <3>1, <3>2
    <3>4. Cardinality(T \cup {c}) = Cardinality(T) + 1
      BY <3>3, FS_AddElement
    <3> QED
      BY <3>2, <3>3, <3>4
  <2>6. ({a} \cup {b}) \cup {c} \subseteq S
    BY DEF S
  <2>7. Cardinality(({a} \cup {b}) \cup {c}) <= Cardinality(S)
    BY <2>1, <2>6, FS_Subset
  <2>8. Cardinality(S) <= 2 BY <1>1 DEF S
  <2>9. Cardinality(S) \in Nat BY <2>1, FS_CardinalityType
  <2> QED BY <2>5, <2>7, <2>8, <2>9
<1>5. \A b \in PathsOf(p) : ~Numbered(b)
  BY <1>1 DEF Numbered
<1> QED BY <1>1, <1>2, <1>3, <1>4, <1>5

\* The list of paths still to be sent on never repeats a bearer.
LEMMA PathsStep ==
  ASSUME TypeOK, XmitInv, PathsInv, TablesAgree, [Next]_vars
  PROVE  PathsInv'
<1>t. xmit \in [Gateway -> XmitThread] /\ XmitIdle.pc = "none"
  BY DEF TypeOK, ThreadTypeOK, XmitIdle
<1>1. ASSUME \A g \in Gateway : xmit'[g] = xmit[g] \/ xmit'[g].pc # "send" PROVE PathsInv'
  BY <1>1 DEF PathsInv
<1>2. ASSUME NEW g \in Gateway, ProcessEnds(g) PROVE PathsInv'
  BY <1>t, <1>1, <1>2 DEF ProcessEnds
<1>3. ASSUME NEW g \in Gateway, Xmit(g) PROVE PathsInv'
  <2>1. \A h \in Gateway : h # g => xmit'[h] = xmit[h]
    BY <1>3, XmitFrame
  <2>2. ASSUME XmitLookup(g) PROVE PathsInv'
    <3> DEFINE d == xmit[g].dev  s == dev2mpTunnel[g][d]
    <3>1. xmit'[g].paths = s
      BY <2>2, XmitAfter
    <3>2. d \in Dev
      <4>1. xmit[g].pkt \in written /\ Source[xmit[g].pkt] = [gw |-> g, dev |-> d]
        BY <2>2 DEF XmitLookup, XmitInv
      <4>2. xmit[g].pkt \in Packet BY <4>1 DEF TypeOK, DataTypeOK
      <4> HIDE DEF d
      <4>3. Source[xmit[g].pkt].dev = d BY <4>1
      <4> QED BY <4>2, <4>3, ConfigType
    <3>3. \A i, j \in DOMAIN s : Remote[g][s[j]] = Remote[g][s[i]] => j = i
      <4> HIDE DEF d
      <4>1. \A i \in DOMAIN dev2mpTunnel[g][d] : \A j \in DOMAIN dev2mpTunnel[g][d] :
              Remote[g][dev2mpTunnel[g][d][j]] = Remote[g][dev2mpTunnel[g][d][i]] => j = i
        BY <3>2, ZenonT(30) DEF TablesAgree
      <4> QED BY <4>1
    <3> HIDE DEF s
    <3>4. \A i, j \in DOMAIN s : s[i] = s[j] => i = j
      BY <3>3
    <3> QED BY <2>1, <3>1, <3>4 DEF PathsInv
  <2>3. ASSUME xmit[g].pc = "send", XmitAdvance(g) PROVE PathsInv'
    <3> DEFINE s == xmit[g].paths
    <3>1. s \in Seq(Bearer) /\ s # << >>
      BY <1>t, <2>3 DEF XmitInv, XmitThread
    <3>2. \A i, j \in DOMAIN s : s[i] = s[j] => i = j
      BY <2>3 DEF PathsInv
    <3>3. xmit'[g].paths = Tail(s)
      BY <2>3, XmitAfter
    <3> HIDE DEF s
    <3>4. \A i \in DOMAIN Tail(s) : i + 1 \in DOMAIN s /\ Tail(s)[i] = s[i + 1] /\ i \in Nat
      BY <3>1
    <3>5. \A i, j \in DOMAIN Tail(s) : Tail(s)[i] = Tail(s)[j] => i = j
      BY <3>2, <3>4
    <3> QED BY <2>1, <3>3, <3>5 DEF PathsInv
  <2>4. ASSUME XmitGetPacket(g) \/ XmitRead(g) \/ XmitReadFails(g) PROVE PathsInv'
    <3>1. xmit'[g].pc # "send" BY <2>4, XmitAfter
    <3> QED BY <1>1, <2>1, <3>1
  <2> QED BY <1>3, <2>2, <2>3, <2>4 DEF Xmit, XmitSend, XmitSendFails
<1> QED
  BY <1>1, <1>2, <1>3, Forms, RecvFrame DEF Quiet, HostWrite, Lose, recvUnchanged

\* A bearer that has no copy left to send gets none.
LEMMA UnsentStep ==
  ASSUME TypeOK, DevInv, TapInv, XmitInv, [Next]_vars,
         NEW p \in Packet, NEW b, Unsent(p, b)'
  PROVE  Unsent(p, b)
<1> DEFINE s == Source[p].gw
           At(t) == t.pkt = p /\ \/ t.pc = "lookup"
                                 \/ t.pc = "send" /\ \E i \in DOMAIN t.paths : t.paths[i] = b
<1>t. xmit \in [Gateway -> XmitThread] /\ XmitIdle.pc = "none" /\ s \in Gateway
  BY ConfigType DEF TypeOK, ThreadTypeOK, XmitIdle
<1>0. Unsent(p, b) <=> idOf[p] = 0 \/ At(xmit[s])
  BY DEF Unsent
<1>1. idOf'[p] = 0 \/ At(xmit'[s])
  BY DEF Unsent
<1>2. idOf'[p] = 0 => idOf[p] = 0
  BY Persists
<1>3. CASE xmit'[s] = xmit[s]
  BY <1>0, <1>1, <1>2, <1>3
<1>4. CASE xmit'[s].pc \notin {"lookup", "send"}
  BY <1>0, <1>1, <1>2, <1>4
<1>5. ASSUME XmitRead(s), At(xmit'[s]) PROVE idOf[p] = 0
  <2> DEFINE d == xmit[s].dev
  <2>1. d \in Dev /\ tap[s][d] \in Seq(Packet) /\ tap[s][d] # << >>
    BY <1>t, <1>5 DEF XmitRead, DevInv, TypeOK, DataTypeOK
  <2>2. p = Head(tap[s][d])
    BY <1>t, <1>5, XmitAfter
  <2> HIDE DEF d
  <2>3. 1 \in DOMAIN tap[s][d] /\ p = tap[s][d][1]
    BY <2>1, <2>2
  <2>4. \A i \in DOMAIN tap[s][d] : idOf[tap[s][d][i]] = 0
    BY <1>t, <2>1, ZenonT(30) DEF TapInv
  <2> QED BY <2>3, <2>4
<1>6. ASSUME XmitLookup(s), At(xmit'[s]) PROVE At(xmit[s])
  BY <1>t, <1>6, XmitAfter DEF XmitLookup
<1>7. ASSUME xmit[s].pc = "send", XmitAdvance(s), At(xmit'[s]) PROVE At(xmit[s])
  <2> DEFINE q == xmit[s].paths
  <2>1. xmit'[s].paths = Tail(q) /\ xmit'[s].pkt = xmit[s].pkt
    BY <1>t, <1>7, XmitAfter
  <2>2. xmit'[s].pc \in {"get", "send"} /\ (xmit'[s].pc = "send" => Tail(q) # << >>)
    BY <1>t, <1>7, XmitAfter
  <2>3. q \in Seq(Bearer) BY <1>t DEF XmitThread
  <2> HIDE DEF q
  <2>4. PICK i \in DOMAIN Tail(q) : Tail(q)[i] = b
    BY <1>7, <2>1, <2>2
  <2>a. q # << >>
    BY <1>7, <1>t DEF XmitInv
  <2>5. i + 1 \in DOMAIN q /\ q[i + 1] = b
    BY <2>3, <2>4, <2>a
  <2> QED BY <1>7, <2>1, <2>5 DEF q
<1>8. ASSUME NEW g \in Gateway, Xmit(g) PROVE Unsent(p, b)
  <2>1. CASE s # g
    BY <1>t, <1>8, <1>3, <2>1, XmitFrame
  <2>2. CASE s = g
    <3>1. CASE XmitGetPacket(s) \/ XmitReadFails(s)
      BY <1>t, <1>4, <3>1, XmitAfter
    <3>2. CASE XmitRead(s) BY <1>0, <1>1, <1>2, <1>5, <3>2
    <3>3. CASE XmitLookup(s) BY <1>0, <1>1, <1>2, <1>6, <3>3
    <3>4. CASE XmitSend(s) \/ XmitSendFails(s)
      BY <1>0, <1>1, <1>2, <1>7, <3>4 DEF XmitSend, XmitSendFails
    <3> QED BY <1>8, <2>2, <3>1, <3>2, <3>3, <3>4 DEF Xmit
  <2> QED BY <2>1, <2>2
<1>9. ASSUME NEW g \in Gateway, ProcessEnds(g) PROVE Unsent(p, b)
  <2>1. xmit'[s] = xmit[s] \/ xmit'[s].pc = "none"
    BY <1>t, <1>9 DEF ProcessEnds
  <2> QED BY <1>3, <1>4, <2>1
<1>10. CASE Quiet
  BY <1>t, <1>3, <1>4, <1>10 DEF Quiet
<1> QED
  BY <1>3, <1>8, <1>9, <1>10, Forms, RecvFrame DEF HostWrite, Lose, recvUnchanged

\* What one step does to the copy of p on b: it stays or is lost; it is sent; or
\* it is received.
Stays(p, b) == /\ \A m \in net' : m.pkt = p /\ m.via = b => m \in net
               /\ Testing(p, b)' => Testing(p, b)
Sent(p, b) == /\ Unsent(p, b) /\ ~Unsent(p, b)'
              /\ Testing(p, b)' => Testing(p, b)
              /\ \E m : \A k \in net' : k.pkt = p /\ k.via = b => k \in net \/ k = m
Received(p, b) == /\ net' \subseteq net
                  /\ \E m \in net : m.pkt = p /\ m.via = b /\ m \notin net'

LEMMA CopyMoves ==
  ASSUME TypeOK, DevInv, TapInv, XmitInv, NetInv, RecvInv, PathsInv, [Next]_vars,
         NEW p \in Paired, NEW b \in PathsOf(p)
  PROVE  Stays(p, b) \/ Sent(p, b) \/ Received(p, b)
<1> DEFINE h == Peer[Source[p].gw][b]
           At(t) == t.pc = "check" /\ t.msg.pkt = p
<1>p. /\ p \in Packet /\ b \in Bearer /\ Proto[b] = "gre" /\ b \notin Faulty
      /\ \A c \in PathsOf(p) : Sockets[Peer[Source[p].gw][c]][c] = {c}
  BY PairedFacts
<1>t. /\ recv \in [Gateway -> [Bearer -> RecvThread]] /\ RecvIdle.pc = "none"
      /\ h \in Gateway /\ ThreadTypeOK
  BY <1>p, ConfigType DEF TypeOK, ThreadTypeOK, RecvIdle
<1>0. Testing(p, b) <=> At(recv[h][b])
  BY DEF Testing
<1>1. Testing(p, b)' <=> At(recv'[h][b])
  BY DEF Testing
<1> HIDE DEF h
<1>2. ASSUME recv'[h][b] = recv[h][b] \/ recv'[h][b].pc # "check", net' \subseteq net
      PROVE  Stays(p, b)
  <2>1. Testing(p, b)' => Testing(p, b)
    BY <1>0, <1>1, <1>2
  <2> QED BY <1>2, <2>1 DEF Stays
<1>3. ASSUME NEW g \in Gateway, ProcessEnds(g) PROVE Stays(p, b)
  <2>1. recv'[h][b] = recv[h][b] \/ recv'[h][b].pc = "none"
    BY <1>p, <1>t, <1>3 DEF ProcessEnds
  <2> QED BY <1>2, <1>3, <2>1 DEF ProcessEnds
<1>4. CASE Quiet
  BY <1>p, <1>t, <1>2, <1>4 DEF Quiet
<1>5. ASSUME NEW g \in Gateway, XmitSend(g) PROVE Stays(p, b) \/ Sent(p, b)
  <2> DEFINE s == xmit[g].paths
  <2>a. s \in Seq(Bearer) /\ s # << >> /\ Head(s) \in Bearer
    <3>1. s \in Seq(Bearer) BY DEF TypeOK, ThreadTypeOK, XmitThread
    <3>2. s # << >> BY <1>5 DEF XmitSend, XmitInv
    <3> QED BY <3>1, <3>2
  <2>b. PICK ms \in Copies(g, Head(s)) : net' = net \cup ms
    BY <1>5 DEF XmitSend
  <2>1. /\ UNCHANGED <<recv, idOf>> /\ xmit[g].pc = "send"
        /\ XmitAdvance(g)
    BY <1>5 DEF XmitSend, xmitUnchanged
  <2>2. Testing(p, b)' => Testing(p, b)
    BY <1>0, <1>1, <2>1
  <2>c. \A m \in ms : /\ m.at \in Sockets[Peer[g][Head(s)]][Head(s)]
                      /\ m = MsgFor(g, Head(s), m.at)
    BY <2>a, <2>b, CopiesAre
  <2>3. \A m \in ms : m.pkt = xmit[g].pkt /\ m.via = Head(s)
    BY <2>c DEF MsgFor
  <2>4. CASE ~(xmit[g].pkt = p /\ Head(s) = b)
    BY <2>b, <2>2, <2>3, <2>4 DEF Stays
  <2>5. CASE xmit[g].pkt = p /\ Head(s) = b
    <3>1. /\ idOf[p] # 0 /\ Source[p] = [gw |-> g, dev |-> xmit[g].dev] /\ s # << >>
      BY <2>1, <2>5 DEF XmitInv
    <3>2. Source[p].gw = g
      BY <3>1
    <3>3. s \in Seq(Bearer)
      BY DEF TypeOK, ThreadTypeOK, XmitThread
    <3>4. 1 \in DOMAIN s /\ s[1] = b
      BY <2>5, <3>1, <3>3
    <3>5. Unsent(p, b)
      BY <2>1, <2>5, <3>2, <3>4 DEF Unsent
    <3>6. \A i, j \in DOMAIN s : s[i] = s[j] => i = j
      BY <2>1 DEF PathsInv
    <3>7. xmit'[g].paths = Tail(s) /\ xmit'[g].pc # "lookup"
      BY <2>1, XmitAfter
    <3>11. \A m \in ms : m = MsgFor(g, b, b)
      <4>1. Sockets[Peer[g][b]][b] = {b} BY <1>p, <3>2
      <4> QED BY <2>5, <2>c, <4>1
    <3> HIDE DEF s
    <3>8. ASSUME NEW i \in DOMAIN Tail(s), Tail(s)[i] = b PROVE FALSE
      <4>1. i \in Nat \ {0} /\ i + 1 \in DOMAIN s /\ s[i + 1] = b
        BY <3>1, <3>3, <3>8
      <4>2. i + 1 = 1 BY <3>4, <3>6, <4>1
      <4> QED BY <4>1, <4>2
    <3>9. ~Unsent(p, b)'
      <4>1. idOf'[p] # 0 BY <2>1, <3>1
      <4> QED BY <3>2, <3>7, <3>8, <4>1 DEF Unsent
    <3>10. \E k : \A n \in net' : n.pkt = p /\ n.via = b => n \in net \/ n = k
      BY <2>b, <3>11
    <3> QED BY <2>2, <3>5, <3>9, <3>10 DEF Sent
  <2> QED BY <2>4, <2>5
<1>6. ASSUME NEW g \in Gateway, Xmit(g), ~XmitSend(g) PROVE Stays(p, b)
  <2>1. recv' = recv
    BY <1>6, XmitFrame DEF xmitUnchanged
  <2>2. net' = net
    BY <1>6 DEF Xmit, XmitGetPacket, XmitRead, XmitReadFails, XmitLookup, XmitSendFails
  <2> QED BY <1>2, <2>1, <2>2
<1>7. ASSUME NEW g \in Gateway, NEW c \in Bearer, RecvPoll(g, c)
      PROVE  Stays(p, b) \/ Received(p, b)
  <2>1. PICK n \in net : /\ n.to = g /\ n.at = c
                         /\ \E r \in Arrivals(n) :
                              recv' = [recv EXCEPT ![g][c] = [pc |-> "check", msg |-> r]]
                         /\ net' = net \ {n} \/ (n.via \in Faulty /\ UNCHANGED net)
    BY <1>7 DEF RecvPoll
  <2>2. PICK r \in Arrivals(n) :
          recv' = [recv EXCEPT ![g][c] = [pc |-> "check", msg |-> r]]
    BY <2>1
  <2>3. n \in Msg
    BY DEF TypeOK, DataTypeOK
  <2>4. r.pkt = n.pkt
    BY <2>3, ArrivalsType
  <2>5. net' \subseteq net
    BY <2>1
  <2>6. CASE ~(g = h /\ c = b)
    <3>1. recv'[h][b] = recv[h][b]
      BY <1>p, <1>t, <2>2, <2>6
    <3> QED BY <1>2, <2>5, <3>1
  <2>7. CASE g = h /\ c = b
    <3>1. recv'[h][b].msg.pkt = n.pkt
      <4>1. recv'[h][b] = [pc |-> "check", msg |-> r]
        BY <1>p, <1>t, <2>2, <2>7
      <4>2. recv'[h][b].msg = r BY <4>1
      <4> QED BY <2>4, <4>2
    <3>3. CASE n.pkt = p
      <4>1. n.via \in PathsOf(p) /\ n.at \in Sockets[n.to][n.via]
            /\ n.to = Peer[Source[p].gw][n.via]
        BY <3>3 DEF NetInv, Travels
      <4>2. n.via = b BY <1>p, <2>1, <2>7, <4>1
      <4>3. net' = net \ {n} BY <1>p, <2>1, <4>2
      <4> QED BY <2>5, <3>3, <4>2, <4>3 DEF Received
    <3>4. CASE n.pkt # p
      <4>1. ~Testing(p, b)' BY <1>1, <3>1, <3>4
      <4> QED BY <2>5, <4>1 DEF Stays
    <3> QED BY <3>3, <3>4
  <2> QED BY <2>6, <2>7
<1>8. ASSUME NEW g \in Gateway, NEW c \in Bearer, NEW e \in {"poll", "announce", "dead"},
             recv' = [recv EXCEPT ![g][c].pc = e], net' = net
      PROVE  Stays(p, b)
  <2>1. /\ recv'[h][b].msg = recv[h][b].msg
        /\ recv'[h][b].pc = IF h = g /\ b = c THEN e ELSE recv[h][b].pc
    BY <1>p, <1>t, <1>8, RecvPc
  <2>2. Testing(p, b)' => Testing(p, b)
    BY <1>0, <1>1, <2>1
  <2> QED BY <1>8, <2>2 DEF Stays
<1>9. ASSUME NEW g \in Gateway, NEW c \in Bearer, Recv(g, c)
      PROVE  Stays(p, b) \/ Received(p, b)
  <2>1. ASSUME RecvFails(g, c) PROVE Stays(p, b)
    BY <1>2, <2>1 DEF RecvFails
  <2> QED
    BY <1>7, <1>8, <1>9, <2>1 DEF Recv, RecvDiscard, RecvAccept, RecvAnnounce, RecvDies
<1>10. ASSUME NEW m \in net, Lose(m) PROVE Stays(p, b)
  BY <1>2, <1>10 DEF Lose
<1>11. ASSUME NEW q \in Packet, HostWrite(q) PROVE Stays(p, b)
  BY <1>2, <1>11 DEF HostWrite
<1> QED
  BY <1>3, <1>4, <1>5, <1>6, <1>9, <1>10, <1>11, Forms

\* A copy is in one place, and a bearer that has brought its copy gets no other.
LEMMA CopyStep ==
  ASSUME TypeOK, DevInv, TapInv, XmitInv, NetInv, RecvInv, PathsInv, CopyInv, [Next]_vars
  PROVE  /\ CopyInv'
         /\ \A h \in Gateway, p \in Paired : Coming(h, p)' \subseteq Coming(h, p)
<1> DEFINE One(p, b) ==
             /\ ~(Unsent(p, b) /\ Flying(p, b))
             /\ ~(Unsent(p, b) /\ Testing(p, b))
             /\ ~(Flying(p, b) /\ Testing(p, b))
             /\ \A m, n \in net : m.pkt = p /\ m.via = b /\ n.pkt = p /\ n.via = b => m = n
           Still(p, b) == Unsent(p, b) \/ Flying(p, b) \/ Testing(p, b)
<1>1. ASSUME NEW p \in Paired, NEW b \in PathsOf(p)
      PROVE  One(p, b)' /\ (Still(p, b)' => Still(p, b))
  <2>1. One(p, b)
    BY DEF CopyInv
  <2>2. Unsent(p, b)' => Unsent(p, b)
    BY PairedFacts, UnsentStep
  <2>3. CASE Stays(p, b)
    <3>1. Flying(p, b)' => Flying(p, b)
      BY <2>3 DEF Stays, Flying
    <3>2. \A m, n \in net' : m.pkt = p /\ m.via = b /\ n.pkt = p /\ n.via = b => m = n
      BY <2>1, <2>3 DEF Stays
    <3>3. Testing(p, b)' => Testing(p, b)
      BY <2>3 DEF Stays
    <3> QED BY <2>1, <2>2, <3>1, <3>2, <3>3
  <2>4. CASE Sent(p, b)
    <3>1. /\ Unsent(p, b) /\ ~Unsent(p, b)'
          /\ ~Flying(p, b) /\ ~Testing(p, b) /\ ~Testing(p, b)'
      BY <2>1, <2>4 DEF Sent
    <3>2. \A m, n \in net' : m.pkt = p /\ m.via = b /\ n.pkt = p /\ n.via = b => m = n
      <4>1. PICK m : \A k \in net' : k.pkt = p /\ k.via = b => k \in net \/ k = m
        BY <2>4 DEF Sent
      <4>2. \A k \in net' : k.pkt = p /\ k.via = b => k = m
        BY <3>1, <4>1 DEF Flying
      <4> QED BY <4>2
    <3> QED BY <3>1, <3>2
  <2>5. CASE Received(p, b)
    <3>1. PICK m \in net : m.pkt = p /\ m.via = b /\ m \notin net'
      BY <2>5 DEF Received
    <3>2. Flying(p, b) /\ ~Unsent(p, b) /\ ~Unsent(p, b)'
      BY <2>1, <2>2, <3>1 DEF Flying
    <3>3. ~Flying(p, b)'
      BY <2>1, <2>5, <3>1 DEF Flying, Received
    <3>4. \A k, n \in net' : k.pkt = p /\ k.via = b /\ n.pkt = p /\ n.via = b => k = n
      BY <2>1, <2>5 DEF Received
    <3> QED BY <3>2, <3>3, <3>4
  <2> QED BY <2>3, <2>4, <2>5, CopyMoves
<1>2. CopyInv'
  <2>1. \A p \in Paired : \A b \in PathsOf(p) : One(p, b)' BY <1>1
  <2> QED BY <2>1 DEF CopyInv
<1>3. \A h \in Gateway, p \in Paired : Coming(h, p)' \subseteq Coming(h, p)
  <2> HIDE DEF One
  <2> QED BY <1>1 DEF Coming
<1> QED BY <1>2, <1>3

\* The elements of a list after the two operations on the history.
LEMMA HistoryRange ==
  ASSUME NEW S, NEW q \in Seq(S), NEW u \in S
  PROVE  /\ \A x \in Range_(Append(q, u)) : x \in Range_(q) \/ x = u
         /\ \A x \in Range_(Tail(Append(q, u))) : x \in Range_(q) \/ x = u
         /\ Head(Append(q, u)) \in Range_(q) \cup {u}
<1> DEFINE h == Append(q, u)
<1>1. h \in Seq(S) /\ h # << >>
  <2>1. h \in Seq(S) /\ Len(h) = Len(q) + 1 /\ Len(q) \in Nat
    OBVIOUS
  <2>2. Len(h) # 0
    BY ONLY <2>1
  <2> HIDE DEF h
  <2> QED BY <2>1, <2>2
<1>2. \A i \in DOMAIN h : (i \in DOMAIN q /\ h[i] = q[i]) \/ h[i] = u
  OBVIOUS
<1>3. \A i \in DOMAIN h : h[i] \in Range_(q) \cup {u}
  BY <1>2 DEF Range_
<1> HIDE DEF h
<1>4. 1 \in DOMAIN h /\ Head(h) = h[1]
  BY <1>1
<1>5. \A i \in DOMAIN Tail(h) : i + 1 \in DOMAIN h /\ Tail(h)[i] = h[i + 1]
  BY <1>1
<1>6. \A i \in DOMAIN Tail(h) : Tail(h)[i] \in Range_(q) \cup {u}
  BY <1>3, <1>5
<1> QED BY <1>3, <1>4, <1>6 DEF Range_, h

\* The test of q leaves the digest of another packet p alone, unless the history
\* pushes it out; a test that does not recognise q records it.
LEMMA PktEffect ==
  ASSUME NEW det \in Detector, NEW q \in Packet, NEW p \in Packet
  PROVE  LET d == AfterPkt(det, q)  f == Flow[p]  u == UniqueId[p] IN
         /\ Flow[q] # Flow[p] \/ UniqueId[q] # UniqueId[p] =>
              /\ u \in d.tbl[f] => u \in det.tbl[f]
              /\ u \in Range_(d.hist[f]) => u \in Range_(det.hist[f])
              /\ u \in det.tbl[f] => u \in d.tbl[f] \/ u \in Range_(det.hist[f])
         /\ q = p /\ ~PktIsDuplicate(det, q) =>
              u \in d.tbl[f] /\ d.hist = det.hist
<1> DEFINE f == Flow[p]  u == UniqueId[p]  e == Flow[q]  v == UniqueId[q]
           t == det.tbl  k == det.hist  h == Append(k[e], v)  d == AfterPkt(det, q)
<1>1. /\ f \in Flows /\ e \in Flows
      /\ u \in Range_(UniqueId) /\ v \in Range_(UniqueId)
  BY ConfigAssumption DEF Flows, Range_
<1>2. /\ t \in [Flows -> SUBSET Range_(UniqueId)]
      /\ k \in [Flows -> Seq(Range_(UniqueId))]
      /\ det = [ids |-> det.ids, tbl |-> t, hist |-> k]
  BY DEF Detector
<1>3. /\ \A x \in Range_(h) : x \in Range_(k[e]) \/ x = v
      /\ \A x \in Range_(Tail(h)) : x \in Range_(k[e]) \/ x = v
      /\ Head(h) \in Range_(k[e]) \cup {v}
  BY <1>1, <1>2, HistoryRange
<1>4. CASE ~PktIsDuplicate(det, q)
  <2>1. d = [det EXCEPT !.tbl[e] = t[e] \cup {v}]
    BY <1>4 DEF AfterPkt
  <2>2. d.tbl = [t EXCEPT ![e] = t[e] \cup {v}] /\ d.hist = k
    <3> DEFINE s == t[e] \cup {v}
    <3> HIDE DEF s
    <3>1. [det EXCEPT !.tbl[e] = s].tbl = [t EXCEPT ![e] = s]
      BY <1>2
    <3>2. [det EXCEPT !.tbl[e] = s].hist = k
      BY <1>2
    <3> QED BY <2>1, <3>1, <3>2 DEF s
  <2> HIDE DEF d, t, k, f, u, e, v
  <2>3. e # f \/ v # u => (u \in d.tbl[f] <=> u \in t[f])
    BY <1>1, <1>2, <2>2
  <2>4. e = f /\ v = u => u \in d.tbl[f]
    BY <1>1, <1>2, <2>2
  <2> QED BY <2>2, <2>3, <2>4 DEF d, t, k, f, u, e, v
<1>5. CASE PktIsDuplicate(det, q)
  <2>1. d = [det EXCEPT !.hist[e] = h] \/ d = [det EXCEPT !.hist[e] = Tail(h), !.tbl[e] = t[e] \ {Head(h)}]
    BY <1>5 DEF AfterPkt
  <2>2. \/ d.tbl = t /\ d.hist = [k EXCEPT ![e] = h]
        \/ d.tbl = [t EXCEPT ![e] = t[e] \ {Head(h)}] /\ d.hist = [k EXCEPT ![e] = Tail(h)]
    <3> DEFINE a == Tail(h)  s == t[e] \ {Head(h)}
    <3> HIDE DEF s, a, h
    <3>1. /\ [det EXCEPT !.hist[e] = h].tbl = t
          /\ [det EXCEPT !.hist[e] = h].hist = [k EXCEPT ![e] = h]
      BY <1>2
    <3>2. /\ [det EXCEPT !.hist[e] = a, !.tbl[e] = s].tbl = [t EXCEPT ![e] = s]
          /\ [det EXCEPT !.hist[e] = a, !.tbl[e] = s].hist = [k EXCEPT ![e] = a]
      BY <1>2
    <3>3. CASE d = [det EXCEPT !.hist[e] = h]
      BY <3>1, <3>3
    <3>4. CASE d = [det EXCEPT !.hist[e] = a, !.tbl[e] = s]
      BY <3>2, <3>4 DEF a, s
    <3> QED BY <2>1, <3>3, <3>4 DEF a, s
  <2> HIDE DEF d, t, k, f, u, e, v, h
  <2>3. u \in d.tbl[f] => u \in t[f]
    BY <1>1, <1>2, <2>2
  <2>4. e # f \/ v # u => (u \in Range_(d.hist[f]) => u \in Range_(k[f]))
    BY <1>1, <1>2, <1>3, <2>2
  <2>5. e # f \/ v # u => (u \in t[f] => u \in d.tbl[f] \/ u \in Range_(k[f]))
    BY <1>1, <1>2, <1>3, <2>2
  <2> QED BY <1>5, <2>3, <2>4, <2>5 DEF d, t, k, f, u, e, v
<1> QED BY <1>4, <1>5

\* Handed, with the announcements and the threads spelt out.
LEMMA HandedMeans ==
  ASSUME NEW h \in Gateway, NEW p
  PROVE  Handed(h, p) <=>
           \/ \E i \in DOMAIN out[h] : out[h][i].pkt = p
           \/ \E b \in Bearer : recv[h][b].pc = "announce" /\ recv[h][b].msg.pkt = p
BY DEF Handed, Announced, Announcing

\* What the detector of h and the threads behind it know of p in one state.
Knows(h, p) ==
  /\ InTable(h, p) => \A b, c \in Coming(h, p) : b = c
  /\ InHistory(h, p) => Coming(h, p) = {}
  /\ Handed(h, p) => InTable(h, p) \/ Coming(h, p) = {}

\* h learns nothing of p in this step.
Unmoved(h, p) ==
  /\ InTable(h, p)' => InTable(h, p)
  /\ InHistory(h, p)' => InHistory(h, p)
  /\ InTable(h, p) => InTable(h, p)' \/ InHistory(h, p)
  /\ Handed(h, p)' => Handed(h, p)

LEMMA UnmovedKnows ==
  ASSUME NEW h, NEW p, Knows(h, p), Unmoved(h, p), Coming(h, p)' \subseteq Coming(h, p)
  PROVE  Knows(h, p)'
BY DEF Knows, Unmoved

\* The copy of a paired packet is held by the thread of the bearer it was sent on.
LEMMA OwnCopy ==
  ASSUME RecvInv, NEW h \in Gateway, NEW b \in Bearer, NEW p \in Paired,
         recv[h][b].pc = "check", recv[h][b].msg.pkt = p
  PROVE  b \in PathsOf(p) /\ Peer[Source[p].gw][b] = h
<1> DEFINE m == recv[h][b].msg
<1>1. Travels(m) /\ m.to = h /\ b \in Sockets[h][m.via]
  BY Landed
<1>2. m.via \in PathsOf(p) /\ Peer[Source[p].gw][m.via] = h
  BY <1>1 DEF Travels
<1> HIDE DEF m
<1>3. Sockets[h][m.via] = {m.via}
  BY <1>2, PairedFacts
<1>4. b = m.via
  BY <1>1, <1>3
<1> QED BY <1>2, <1>4

\* The copy under test: no other is left on its bearer, and its thread comes
\* back to the poll with none.
LEMMA TestedGone ==
  ASSUME TypeOK, DevInv, TapInv, XmitInv, NetInv, RecvInv, PathsInv, CopyInv, [Next]_vars,
         NEW h \in Gateway, NEW b \in Bearer, NEW p \in Paired,
         recv[h][b].pc = "check", recv[h][b].msg.pkt = p,
         recv'[h][b].pc # "check", net' = net
  PROVE  /\ b \in Coming(h, p) /\ b \notin Coming(h, p)'
         /\ Coming(h, p)' \subseteq Coming(h, p)
         /\ Coming(h, p) \subseteq PathsOf(p)
         /\ b \in PathsOf(p) /\ Proto[b] = "gre"
<1>1. /\ b \in PathsOf(p) /\ Peer[Source[p].gw][b] = h
  BY OwnCopy
<1>2. Testing(p, b) /\ ~Testing(p, b)'
  BY <1>1 DEF Testing
<1>3. ~Unsent(p, b) /\ ~Flying(p, b)
  BY <1>1, <1>2 DEF CopyInv
<1>4. ~Unsent(p, b)' /\ ~Flying(p, b)'
  <2>1. ~Unsent(p, b)' BY <1>3, PairedFacts, UnsentStep
  <2>2. ~Flying(p, b)' BY <1>3 DEF Flying
  <2> QED BY <2>1, <2>2
<1>5. b \in Coming(h, p) /\ b \notin Coming(h, p)'
  BY <1>1, <1>2, <1>4 DEF Coming
<1>6. Coming(h, p)' \subseteq Coming(h, p)
  BY CopyStep
<1> QED BY <1>1, <1>5, <1>6, PairedFacts DEF Coming

\* The test of p by a GRE thread is the one on its digest.
LEMMA PairedTest ==
  ASSUME TypeOK, RecvInv, NEW h \in Gateway, NEW b \in Bearer, NEW p \in Paired,
         recv[h][b].pc = "check", recv[h][b].msg.pkt = p
  PROVE  /\ IsDuplicate(h, b) <=> InTable(h, p)
         /\ DetectorAfter(h, b) = AfterPkt(dup[h], p)
<1>1. b \in PathsOf(p)
  BY OwnCopy
<1>2. ~Numbered(b) /\ p \in Icmp
  BY <1>1, PairedFacts
<1> QED BY <1>2 DEF IsDuplicate, DetectorAfter, PktIsDuplicate, InTable

\* The test of another packet.
LEMMA OtherTest ==
  ASSUME TypeOK, RecvInv, NEW h \in Gateway, NEW b \in Bearer, NEW p \in Paired,
         recv[h][b].pc = "check", recv[h][b].msg.pkt # p,
         dup' = [dup EXCEPT ![h] = DetectorAfter(h, b)]
  PROVE  /\ InTable(h, p)' => InTable(h, p)
         /\ InHistory(h, p)' => InHistory(h, p)
         /\ InTable(h, p) => InTable(h, p)' \/ InHistory(h, p)
<1> DEFINE m == recv[h][b].msg  q == m.pkt  d == dup[h]
<1>1. d \in Detector /\ dup'[h] = DetectorAfter(h, b) /\ q \in Packet
  BY DEF TypeOK, ThreadTypeOK, RecvInv, Msg
<1>2. CASE Numbered(b)
  <2>1. dup'[h] = AfterId(d, m.id)
    BY <1>1, <1>2 DEF DetectorAfter
  <2>2. AfterId(d, m.id).tbl = d.tbl /\ AfterId(d, m.id).hist = d.hist
    BY <1>1 DEF AfterId, Detector
  <2> QED BY <2>1, <2>2 DEF InTable, InHistory
<1>3. CASE ~Numbered(b) /\ q \in Icmp
  <2>1. dup'[h] = AfterPkt(d, q)
    BY <1>1, <1>3 DEF DetectorAfter
  <2>2. Flow[q] # Flow[p] \/ UniqueId[q] # UniqueId[p]
    BY <1>3, PairedFacts
  <2> HIDE DEF q, d
  <2>3. /\ UniqueId[p] \in AfterPkt(d, q).tbl[Flow[p]] => UniqueId[p] \in d.tbl[Flow[p]]
        /\ UniqueId[p] \in Range_(AfterPkt(d, q).hist[Flow[p]]) =>
             UniqueId[p] \in Range_(d.hist[Flow[p]])
        /\ UniqueId[p] \in d.tbl[Flow[p]] => \/ UniqueId[p] \in AfterPkt(d, q).tbl[Flow[p]]
                                             \/ UniqueId[p] \in Range_(d.hist[Flow[p]])
    BY <1>1, <2>2, PktEffect, PairedFacts
  <2> QED BY <2>1, <2>3 DEF InTable, InHistory, d
<1>4. CASE ~Numbered(b) /\ q \notin Icmp
  <2>1. dup'[h] = d
    BY <1>1, <1>4 DEF DetectorAfter
  <2> QED BY <2>1 DEF InTable, InHistory
<1> QED BY <1>2, <1>3, <1>4

\* A test ends with the thread at its poll or about to announce.
LEMMA TestEnds ==
  ASSUME TypeOK, NEW g \in Gateway, NEW b \in Bearer, RecvAccept(g, b) \/ RecvDiscard(g, b)
  PROVE  recv'[g][b].pc # "check"
<1>1. PICK c \in {"announce", "poll"} : recv' = [recv EXCEPT ![g][b].pc = c]
  BY DEF RecvAccept, RecvDiscard
<1>t. recv \in [Gateway -> [Bearer -> RecvThread]] /\ ThreadTypeOK
  BY DEF TypeOK, ThreadTypeOK
<1>2. \A h \in Gateway, e \in Bearer :
        /\ recv'[h][e].msg = recv[h][e].msg
        /\ recv'[h][e].pc = IF h = g /\ e = b THEN c ELSE recv[h][e].pc
  BY <1>1, <1>t, RecvPc
<1> QED BY <1>2

\* Before p is accepted nobody has been handed it; afterwards its digest is in
\* the table and not in the history.
LEMMA AcceptFresh ==
  ASSUME TypeOK, DevInv, TapInv, XmitInv, NetInv, RecvInv, PathsInv, CopyInv, [Next]_vars,
         NEW h \in Gateway, NEW b \in Bearer, NEW p \in Paired, Knows(h, p),
         RecvAccept(h, b), recv[h][b].msg.pkt = p
  PROVE  ~Handed(h, p) /\ Knows(h, p)'
<1>1. /\ recv[h][b].pc = "check" /\ ~IsDuplicate(h, b)
      /\ dup' = [dup EXCEPT ![h] = DetectorAfter(h, b)]
      /\ recv' = [recv EXCEPT ![h][b].pc = "announce"] /\ net' = net
  BY DEF RecvAccept
<1>2. recv'[h][b].pc # "check"
  BY TestEnds
<1>3. /\ b \in Coming(h, p) /\ b \notin Coming(h, p)'
      /\ Coming(h, p)' \subseteq Coming(h, p)
      /\ Coming(h, p) \subseteq PathsOf(p) /\ b \in PathsOf(p)
  BY <1>1, <1>2, TestedGone
<1>4. ~InTable(h, p) /\ dup'[h] = AfterPkt(dup[h], p)
  BY <1>1, PairedTest DEF TypeOK, ThreadTypeOK
<1>5. ~InHistory(h, p) /\ ~Handed(h, p)
  BY <1>3, <1>4 DEF Knows
<1>6. InTable(h, p)' /\ ~InHistory(h, p)'
  <2>1. dup[h] \in Detector /\ p \in Packet
    BY PairedFacts DEF TypeOK, ThreadTypeOK
  <2>2. ~PktIsDuplicate(dup[h], p)
    BY <1>4 DEF InTable, PktIsDuplicate
  <2>3. /\ UniqueId[p] \in AfterPkt(dup[h], p).tbl[Flow[p]]
        /\ AfterPkt(dup[h], p).hist = dup[h].hist
    BY <2>1, <2>2, PktEffect
  <2> QED BY <1>4, <1>5, <2>3 DEF InTable, InHistory
<1>7. \A c, e \in Coming(h, p)' : c = e
  BY <1>3, PairedFacts
<1> QED BY <1>5, <1>6, <1>7 DEF Knows

\* The copy that is discarded was the last: what the history forgets is done.
LEMMA DiscardLast ==
  ASSUME TypeOK, DevInv, TapInv, XmitInv, NetInv, RecvInv, PathsInv, CopyInv, [Next]_vars,
         NEW h \in Gateway, NEW b \in Bearer, NEW p \in Paired, Knows(h, p),
         RecvDiscard(h, b), recv[h][b].msg.pkt = p
  PROVE  Knows(h, p)'
<1>1. /\ recv[h][b].pc = "check" /\ IsDuplicate(h, b)
      /\ recv' = [recv EXCEPT ![h][b].pc = "poll"] /\ net' = net
  BY DEF RecvDiscard
<1>2. recv'[h][b].pc # "check"
  BY TestEnds
<1>3. /\ b \in Coming(h, p) /\ b \notin Coming(h, p)'
      /\ Coming(h, p)' \subseteq Coming(h, p)
  BY <1>1, <1>2, TestedGone
<1>4. InTable(h, p)
  BY <1>1, PairedTest
<1>5. Coming(h, p)' = {}
  BY <1>3, <1>4 DEF Knows
<1> QED BY <1>5 DEF Knows

LEMMA DigestStep ==
  ASSUME TypeOK, DevInv, TapInv, XmitInv, NetInv, RecvInv, PathsInv, CopyInv, DigestInv,
         [Next]_vars
  PROVE  DigestInv'
<1>t. /\ dup \in [Gateway -> Detector] /\ recv \in [Gateway -> [Bearer -> RecvThread]]
      /\ out \in [Gateway -> Seq(Announcement)] /\ RecvIdle.pc = "none"
      /\ ThreadTypeOK
  BY DEF TypeOK, ThreadTypeOK, DataTypeOK, RecvIdle
<1> SUFFICES ASSUME NEW h \in Gateway, NEW p \in Paired PROVE Knows(h, p)'
  BY DEF DigestInv, Knows, Handed
<1>k. Knows(h, p)
  BY DEF DigestInv, Knows, Handed
<1>c. Coming(h, p)' \subseteq Coming(h, p)
  BY CopyStep
<1>d. p \in Packet /\ Flow[p] \in Flows
  BY PairedFacts, ConfigAssumption DEF Flows, Range_
<1>1. ASSUME dup'[h] = dup[h], Handed(h, p)' => Handed(h, p) PROVE Knows(h, p)'
  <2>1. Unmoved(h, p)
    BY <1>1 DEF Unmoved, InTable, InHistory
  <2> QED BY <1>c, <1>k, <2>1, UnmovedKnows
<1>2. ASSUME out'[h] = out[h],
             \A b \in Bearer : recv'[h][b].pc = "announce" /\ recv'[h][b].msg.pkt = p =>
               recv[h][b].pc = "announce" /\ recv[h][b].msg.pkt = p
      PROVE  Handed(h, p)' => Handed(h, p)
  BY <1>2 DEF Handed, Announced, Announcing
<1>3. ASSUME NEW g \in Gateway, ProcessEnds(g) PROVE Knows(h, p)'
  <2>1. CASE h # g
    <3>1. dup'[h] = dup[h] /\ out'[h] = out[h] /\ \A b \in Bearer : recv'[h][b] = recv[h][b]
      BY <1>t, <1>3, <2>1 DEF ProcessEnds
    <3> QED BY <1>1, <1>2, <3>1
  <2>2. CASE h = g
    <3>1. /\ dup'[h] = NewDetector /\ out'[h] = << >>
          /\ \A b \in Bearer : recv'[h][b].pc = "none"
      BY <1>t, <1>3, <2>2 DEF ProcessEnds
    <3>2. ~Handed(h, p)'
      BY <3>1 DEF Handed, Announced, Announcing
    <3>3. NewDetector.tbl[Flow[p]] = {} /\ NewDetector.hist[Flow[p]] = << >>
      BY <1>d DEF NewDetector
    <3>4. ~InTable(h, p)' /\ ~InHistory(h, p)'
      BY <3>1, <3>3 DEF InTable, InHistory, Range_
    <3> QED BY <3>2, <3>4 DEF Knows
  <2> QED BY <2>1, <2>2
<1>4. CASE Quiet
  BY <1>t, <1>1, <1>2, <1>4 DEF Quiet
<1>5. ASSUME UNCHANGED <<dup, out, recv>> PROVE Knows(h, p)'
  BY <1>1, <1>2, <1>5
<1>6. ASSUME NEW g \in Gateway, NEW b \in Bearer, RecvPoll(g, b) PROVE Knows(h, p)'
  <2>1. PICK m : recv' = [recv EXCEPT ![g][b] = [pc |-> "check", msg |-> m]]
    BY <1>6 DEF RecvPoll
  <2>2. \A c \in Bearer : recv'[h][c] = recv[h][c] \/ recv'[h][c].pc = "check"
    BY <1>t, <2>1
  <2> QED BY <1>1, <1>2, <1>6, <2>2 DEF RecvPoll
<1>7. ASSUME NEW g \in Gateway, NEW b \in Bearer, RecvDies(g, b) PROVE Knows(h, p)'
  <2>1. \A c \in Bearer : /\ recv'[h][c].msg = recv[h][c].msg
                          /\ recv'[h][c].pc = "announce" => recv[h][c].pc = "announce"
    BY <1>t, <1>7, RecvPc DEF RecvDies
  <2> QED BY <1>1, <1>2, <1>7, <2>1 DEF RecvDies
<1>8. ASSUME NEW g \in Gateway, NEW b \in Bearer, RecvAnnounce(g, b) PROVE Knows(h, p)'
  <2> DEFINE q == recv[g][b].msg.pkt
             a == [dev |-> Ifname[g][b], pkt |-> q, form |-> recv[g][b].msg.form]
  <2>1. /\ recv[g][b].pc = "announce" /\ dup' = dup
        /\ out' = [out EXCEPT ![g] = Append(out[g], a)]
        /\ recv' = [recv EXCEPT ![g][b].pc = "poll"]
    BY <1>8 DEF RecvAnnounce
  <2>2. \A c \in Bearer : /\ recv'[h][c].msg = recv[h][c].msg
                          /\ recv'[h][c].pc = "announce" => recv[h][c].pc = "announce"
    BY <1>t, <2>1, RecvPc
  <2>3. a.pkt = q OBVIOUS
  <2> HIDE DEF a
  <2>4. \A i \in DOMAIN out'[h] : \/ i \in DOMAIN out[h] /\ out'[h][i] = out[h][i]
                                  \/ h = g /\ out'[h][i] = a
    BY <1>t, <2>1
  <2>5. Handed(h, p)' => Handed(h, p)
    BY <2>1, <2>2, <2>3, <2>4 DEF Handed, Announced, Announcing
  <2> QED BY <1>1, <2>1, <2>5
<1>9. ASSUME NEW g \in Gateway, NEW b \in Bearer, RecvAccept(g, b) \/ RecvDiscard(g, b)
      PROVE  Knows(h, p)'
  <2>a. PICK c \in {"announce", "poll"} : recv' = [recv EXCEPT ![g][b].pc = c]
    BY <1>9 DEF RecvAccept, RecvDiscard
  <2>1. /\ recv[g][b].pc = "check" /\ out' = out
        /\ dup' = [dup EXCEPT ![g] = DetectorAfter(g, b)]
        /\ recv' = [recv EXCEPT ![g][b].pc = c]
    BY <1>9, <2>a DEF RecvAccept, RecvDiscard
  <2>2. \A k \in Gateway, e \in Bearer :
          /\ recv'[k][e].msg = recv[k][e].msg
          /\ recv'[k][e].pc = IF k = g /\ e = b THEN c ELSE recv[k][e].pc
    BY <1>t, <2>1, RecvPc
  <2>3. CASE h # g
    BY <1>t, <1>1, <1>2, <2>1, <2>2, <2>3
  <2>4. CASE h = g /\ recv[g][b].msg.pkt = p
    BY <1>k, <1>9, <2>4, AcceptFresh, DiscardLast
  <2>5. CASE h = g /\ recv[g][b].msg.pkt # p
    <3>1. Handed(h, p)' => Handed(h, p)
      BY <1>2, <2>1, <2>2, <2>5
    <3>2. Unmoved(h, p)
      BY <2>1, <2>5, <3>1, OtherTest DEF Unmoved
    <3> QED BY <1>c, <1>k, <3>2, UnmovedKnows
  <2> QED BY <2>3, <2>4, <2>5
<1>11. ASSUME NEW g \in Gateway, NEW b \in Bearer, RecvFails(g, b) PROVE Knows(h, p)'
  <2>1. PICK n \in Junk : dup' = [dup EXCEPT ![g] = AfterId(dup[g], n)]
    BY <1>11 DEF RecvFails
  <2>2. dup'[h].tbl = dup[h].tbl /\ dup'[h].hist = dup[h].hist
    BY <1>t, <2>1 DEF AfterId, Detector
  <2>3. Handed(h, p)' => Handed(h, p)
    BY <1>2, <1>11 DEF RecvFails
  <2>4. Unmoved(h, p)
    BY <2>2, <2>3 DEF Unmoved, InTable, InHistory
  <2> QED BY <1>c, <1>k, <2>4, UnmovedKnows
<1>10. ASSUME NEW g \in Gateway, NEW b \in Bearer, Recv(g, b) PROVE Knows(h, p)'
  BY <1>6, <1>7, <1>8, <1>9, <1>10, <1>11 DEF Recv
<1> QED
  BY <1>3, <1>4, <1>5, <1>10, Forms, XmitFrame
  DEF HostWrite, xmitUnchanged, Lose, recvUnchanged

\* At most one thread is about to announce p, and p has not been announced.
LEMMA HandedStep ==
  ASSUME TypeOK, DevInv, TapInv, XmitInv, NetInv, RecvInv, PathsInv, CopyInv, DigestInv,
         HandedInv, [Next]_vars
  PROVE  HandedInv'
<1>t. /\ recv \in [Gateway -> [Bearer -> RecvThread]] /\ RecvIdle.pc = "none"
      /\ out \in [Gateway -> Seq(Announcement)] /\ ThreadTypeOK
  BY DEF TypeOK, ThreadTypeOK, DataTypeOK, RecvIdle
<1> DEFINE Ann(h, b, p) == recv[h][b].pc = "announce" /\ recv[h][b].msg.pkt = p
           Fresh(h, p) == \A i \in DOMAIN out[h] : out[h][i].pkt # p
           Alone(h, p) == \A b, c \in Bearer : Ann(h, b, p) /\ Ann(h, c, p) => c = b
           Good(h, p) == (\E b \in Bearer : Ann(h, b, p)) => Fresh(h, p) /\ Alone(h, p)
<1>a. \A h \in Gateway, p \in Paired : Good(h, p)
  BY DEF HandedInv, Announced
<1>b. (\A h \in Gateway, p \in Paired : Good(h, p)') => HandedInv'
  BY DEF HandedInv, Announced
<1> SUFFICES ASSUME NEW h \in Gateway, NEW p \in Paired PROVE Good(h, p)'
  BY <1>b
<1>g. Good(h, p)
  BY <1>a
<1>k. Knows(h, p)
  BY DEF DigestInv, Knows, Handed
<1>1. ASSUME out'[h] = out[h], \A b \in Bearer : Ann(h, b, p)' => Ann(h, b, p)
      PROVE  Good(h, p)'
  BY <1>g, <1>1
<1>2. ASSUME out'[h] = out[h], \A b \in Bearer : recv'[h][b] = recv[h][b] \/ recv'[h][b].pc # "announce"
      PROVE  Good(h, p)'
  BY <1>1, <1>2
<1>3. ASSUME NEW g \in Gateway, ProcessEnds(g) PROVE Good(h, p)'
  <2>1. CASE h # g
    <3>1. out'[h] = out[h] /\ \A b \in Bearer : recv'[h][b] = recv[h][b]
      BY <1>t, <1>3, <2>1 DEF ProcessEnds
    <3> QED BY <1>2, <3>1
  <2>2. CASE h = g
    <3>1. \A b \in Bearer : recv'[h][b].pc = "none"
      BY <1>t, <1>3, <2>2 DEF ProcessEnds
    <3> QED BY <3>1
  <2> QED BY <2>1, <2>2
<1>4. CASE Quiet
  <2>1. out'[h] = out[h] /\ \A b \in Bearer : recv'[h][b] = recv[h][b] \/ recv'[h][b].pc # "announce"
    BY <1>4 DEF Quiet
  <2> QED BY <1>2, <2>1
<1>5. ASSUME UNCHANGED <<out, recv>> PROVE Good(h, p)'
  BY <1>1, <1>5
<1>6. ASSUME NEW g \in Gateway, NEW b \in Bearer, RecvPoll(g, b) PROVE Good(h, p)'
  <2>1. PICK m : recv' = [recv EXCEPT ![g][b] = [pc |-> "check", msg |-> m]]
    BY <1>6 DEF RecvPoll
  <2>2. \A c \in Bearer : recv'[h][c] = recv[h][c] \/ recv'[h][c].pc # "announce"
    BY <1>t, <2>1
  <2> QED BY <1>2, <1>6, <2>2 DEF RecvPoll
<1>7. ASSUME NEW g \in Gateway, NEW b \in Bearer, RecvDies(g, b) \/ RecvDiscard(g, b)
      PROVE  Good(h, p)'
  <2>1. PICK c \in {"dead", "poll"} : recv' = [recv EXCEPT ![g][b].pc = c]
    BY <1>7 DEF RecvDies, RecvDiscard
  <2>2. out' = out
    BY <1>7 DEF RecvDies, RecvDiscard
  <2>3. \A e \in Bearer : /\ recv'[h][e].msg = recv[h][e].msg
                          /\ recv'[h][e].pc = IF h = g /\ e = b THEN c ELSE recv[h][e].pc
    BY <1>t, <2>1, RecvPc
  <2>4. \A e \in Bearer : Ann(h, e, p)' => Ann(h, e, p)
    BY <2>3
  <2> QED BY <1>1, <2>2, <2>4
<1>8. ASSUME NEW g \in Gateway, NEW b \in Bearer, RecvAccept(g, b) PROVE Good(h, p)'
  <2>1. recv' = [recv EXCEPT ![g][b].pc = "announce"] /\ out' = out
    BY <1>8 DEF RecvAccept
  <2>2. \A e \in Bearer :
          /\ recv'[h][e].msg = recv[h][e].msg
          /\ recv'[h][e].pc = IF h = g /\ e = b THEN "announce" ELSE recv[h][e].pc
    BY <1>t, <2>1, RecvPc
  <2>3. CASE ~(h = g /\ recv[g][b].msg.pkt = p)
    <3>1. \A e \in Bearer : Ann(h, e, p)' => Ann(h, e, p)
      BY <2>2, <2>3
    <3> QED BY <1>1, <2>1, <3>1
  <2>4. CASE h = g /\ recv[g][b].msg.pkt = p
    <3>1. ~Handed(h, p)
      BY <1>k, <1>8, <2>4, AcceptFresh
    <3>2. /\ \A i \in DOMAIN out[h] : out[h][i].pkt # p
          /\ \A e \in Bearer : ~Ann(h, e, p)
      BY <3>1, HandedMeans
    <3>3. \A e \in Bearer : Ann(h, e, p)' => e = b
      BY <2>2, <3>2
    <3>4. \A i \in DOMAIN out'[h] : out'[h][i].pkt # p
      BY <2>1, <3>2
    <3> QED BY <3>3, <3>4
  <2> QED BY <2>3, <2>4
<1>9. ASSUME NEW g \in Gateway, NEW b \in Bearer, RecvAnnounce(g, b) PROVE Good(h, p)'
  <2> DEFINE q == recv[g][b].msg.pkt
             a == [dev |-> Ifname[g][b], pkt |-> q, form |-> recv[g][b].msg.form]
  <2>1. /\ recv[g][b].pc = "announce"
        /\ out' = [out EXCEPT ![g] = Append(out[g], a)]
        /\ recv' = [recv EXCEPT ![g][b].pc = "poll"]
    BY <1>9 DEF RecvAnnounce
  <2>2. \A e \in Bearer :
          /\ recv'[h][e].msg = recv[h][e].msg
          /\ recv'[h][e].pc = IF h = g /\ e = b THEN "poll" ELSE recv[h][e].pc
    BY <1>t, <2>1, RecvPc
  <2>3. a.pkt = q OBVIOUS
  <2> HIDE DEF a
  <2>4. \A i \in DOMAIN out'[h] : \/ i \in DOMAIN out[h] /\ out'[h][i] = out[h][i]
                                  \/ h = g /\ out'[h][i] = a
    BY <1>t, <2>1
  <2>5. \A e \in Bearer : Ann(h, e, p)' => Ann(h, e, p) /\ ~(h = g /\ e = b)
    BY <2>2
  <2>6. CASE h = g /\ q = p
    <3>1. Ann(h, b, p)
      BY <2>1, <2>6
    <3>2. \A e \in Bearer : ~Ann(h, e, p)'
      BY <1>g, <2>5, <2>6, <3>1
    <3> QED BY <3>2
  <2>7. CASE ~(h = g /\ q = p)
    <3>1. Fresh(h, p) => Fresh(h, p)'
      BY <2>3, <2>4, <2>7
    <3>2. Alone(h, p) => Alone(h, p)'
      BY <2>5
    <3>3. (\E e \in Bearer : Ann(h, e, p)') => (\E e \in Bearer : Ann(h, e, p))
      BY <2>5
    <3> HIDE DEF Fresh, Alone, Ann
    <3> QED BY <1>g, <3>1, <3>2, <3>3
  <2> QED BY <2>6, <2>7
<1>10. ASSUME NEW g \in Gateway, NEW b \in Bearer, Recv(g, b) PROVE Good(h, p)'
  <2> HIDE DEF Good
  <2>1. CASE RecvFails(g, b)
    BY <1>5, <2>1 DEF RecvFails
  <2> QED BY <1>6, <1>7, <1>8, <1>9, <1>10, <2>1 DEF Recv
<1> HIDE DEF Good
<1> QED
  BY <1>3, <1>4, <1>5, <1>10, Forms, XmitFrame
  DEF HostWrite, xmitUnchanged, Lose, recvUnchanged

LEMMA IcmpOnceStep ==
  ASSUME TypeOK, HandedInv, IcmpAnnouncedOnce, [Next]_vars
  PROVE  IcmpAnnouncedOnce'
<1>t. out \in [Gateway -> Seq(Announcement)]
  BY DEF TypeOK, DataTypeOK
<1>1. ASSUME UNCHANGED out PROVE IcmpAnnouncedOnce'
  BY <1>1 DEF IcmpAnnouncedOnce
<1>2. ASSUME NEW g \in Gateway, ProcessEnds(g) PROVE IcmpAnnouncedOnce'
  <2>1. \A h \in Gateway : out'[h] = out[h] \/ out'[h] = << >>
    BY <1>t, <1>2 DEF ProcessEnds
  <2> QED BY <2>1 DEF IcmpAnnouncedOnce
<1>3. ASSUME NEW g \in Gateway, NEW b \in Bearer, RecvAnnounce(g, b) PROVE IcmpAnnouncedOnce'
  <2> DEFINE p == recv[g][b].msg.pkt
             a == [dev |-> Ifname[g][b], pkt |-> p, form |-> recv[g][b].msg.form]
  <2>1. /\ out' = [out EXCEPT ![g] = Append(out[g], a)]
        /\ p \in Paired => \A i \in DOMAIN out[g] : out[g][i].pkt # p
    BY <1>3 DEF RecvAnnounce, HandedInv, Announced
  <2>2. a.pkt = p OBVIOUS
  <2> HIDE DEF a, p
  <2>3. ASSUME NEW i \in DOMAIN out'[g]
        PROVE  \/ i = Len(out[g]) + 1 /\ out'[g][i] = a
               \/ i \in DOMAIN out[g] /\ out'[g][i] = out[g][i]
    BY <1>t, <2>1
  <2>4. \A h \in Gateway : h # g => out'[h] = out[h]
    BY <1>t, <2>1
  <2>5. ASSUME NEW i \in DOMAIN out'[g], NEW j \in DOMAIN out'[g],
               out'[g][i].pkt = out'[g][j].pkt, out'[g][i].pkt \in Paired
        PROVE  i = j
    BY <2>1, <2>2, <2>3, <2>5 DEF IcmpAnnouncedOnce
  <2> QED BY <2>4, <2>5 DEF IcmpAnnouncedOnce
<1> QED BY <1>1, <1>2, <1>3, OutStep DEF HostWrite

LEMMA IcmpInit == Init => IcmpInv
<1> SUFFICES ASSUME Init PROVE IcmpInv OBVIOUS
<1>1. /\ XmitIdle.pc = "none" /\ RecvIdle.pc = "none"
      /\ xmit = [g \in Gateway |-> XmitIdle]
      /\ recv = [g \in Gateway |-> [b \in Bearer |-> RecvIdle]]
      /\ dup = [g \in Gateway |-> NewDetector]
      /\ out = [g \in Gateway |-> << >>] /\ net = {}
  BY DEF Init, XmitIdle, RecvIdle
<1>2. PathsInv BY <1>1 DEF PathsInv
<1>3. CopyInv
  <2>1. ASSUME NEW p \in Paired, NEW b \in PathsOf(p) PROVE ~Flying(p, b) /\ ~Testing(p, b)
    <3>1. Peer[Source[p].gw][b] \in Gateway /\ b \in Bearer
      BY PairedFacts, ConfigType
    <3> QED BY <1>1, <3>1 DEF Flying, Testing
  <2> QED BY <1>1, <2>1 DEF CopyInv
<1>4. DigestInv
  <2>1. ASSUME NEW h \in Gateway, NEW p \in Paired
        PROVE  ~InTable(h, p) /\ ~InHistory(h, p) /\ ~Handed(h, p)
    <3>1. Flow[p] \in Flows
      BY PairedFacts, ConfigAssumption DEF Flows, Range_
    <3>2. NewDetector.tbl[Flow[p]] = {} /\ NewDetector.hist[Flow[p]] = << >>
      BY <3>1 DEF NewDetector
    <3>3. ~Handed(h, p)
      BY <1>1 DEF Handed, Announced, Announcing
    <3> QED BY <1>1, <3>2, <3>3 DEF InTable, InHistory, Range_
  <2> QED BY <2>1 DEF DigestInv, Handed
<1>5. HandedInv BY <1>1 DEF HandedInv
<1>6. IcmpAnnouncedOnce BY <1>1 DEF IcmpAnnouncedOnce
<1> QED BY <1>2, <1>3, <1>4, <1>5, <1>6 DEF IcmpInv

LEMMA IcmpStep == IInv /\ TablesAgree /\ IcmpInv /\ [Next]_vars => IcmpInv'
<1> SUFFICES ASSUME IInv, TablesAgree, IcmpInv, [Next]_vars PROVE IcmpInv' OBVIOUS
<1>1. /\ TypeOK /\ DevInv /\ TapInv /\ XmitInv /\ NetInv /\ RecvInv
      /\ PathsInv /\ CopyInv /\ DigestInv /\ HandedInv /\ IcmpAnnouncedOnce
  BY DEF IInv, IcmpInv
<1>2. PathsInv' /\ CopyInv' BY <1>1, PathsStep, CopyStep
<1>3. DigestInv' /\ HandedInv' BY <1>1, DigestStep, HandedStep
<1>4. IcmpAnnouncedOnce' BY <1>1, IcmpOnceStep
<1> QED BY <1>2, <1>3, <1>4 DEF IcmpInv

\* An ICMP packet mirrored over two GRE bearers that work is announced at most
\* once by one run of a process, however short the detector's history is and
\* whatever else enters it, as long as no other ICMP packet of its flow has its
\* digest (Ip4DupDetector.cc, lines 6-34).
THEOREM IcmpAtMostOnce == Spec => []IcmpAnnouncedOnce
<1>1. IcmpInv => IcmpAnnouncedOnce BY DEF IcmpInv
<1>2. Spec => []IcmpInv
  BY IcmpInit, IcmpStep, Invariance, TablesCorrect, PTL DEF Spec
<1> QED BY <1>1, <1>2, PTL

-----------------------------------------------------------------------------
LEMMA PathInit == Init => Path!Init
BY DEF Init, Path!Init

LEMMA PathStep == IInv /\ [Next]_vars => [Path!Next]_Path!vars
<1> SUFFICES ASSUME IInv, [Next]_vars PROVE [Path!Next]_Path!vars OBVIOUS
<1>t. TypeOK /\ RecvInv /\ SeenInv
  BY DEF IInv
<1>1. ASSUME UNCHANGED <<out, written>> PROVE [Path!Next]_Path!vars
  BY <1>1 DEF Path!vars
<1>2. ASSUME NEW p \in Packet, HostWrite(p) PROVE Path!Offer(p)
  BY <1>2 DEF HostWrite, Path!Offer
<1>3. ASSUME NEW g \in Gateway, ProcessEnds(g) PROVE Path!Forget(g)
  BY <1>3 DEF ProcessEnds, Path!Forget
<1>4. ASSUME NEW g \in Gateway, NEW b \in Bearer, RecvAnnounce(g, b)
      PROVE  /\ Ifname[g][b] \in Dev /\ recv[g][b].msg.pkt \in Packet
             /\ recv[g][b].msg.form \in {"whole", "cut"}
             /\ Path!Deliver(g, Ifname[g][b], recv[g][b].msg.pkt, recv[g][b].msg.form)
  <2> DEFINE m == recv[g][b].msg  p == m.pkt  d == Ifname[g][b]
  <2>1. /\ Travels(m) /\ m \in Msg /\ m.to = g /\ m.via \in Bearer
        /\ b \in Sockets[g][m.via]
    BY <1>t, <1>4, Landed DEF RecvAnnounce
  <2>2. /\ out' = [out EXCEPT ![g] =
                     Append(out[g], [dev |-> d, pkt |-> p, form |-> m.form])]
        /\ p \in Filtered /\ m.form = "whole" =>
             \A i \in DOMAIN out[g] : out[g][i].form = "whole" => out[g][i].pkt # p
    BY <1>t, <1>4, AnnouncesFresh
  <2>3. /\ p \in Packet /\ m.form \in {"whole", "cut"} /\ d \in Dev
        /\ p \in written /\ m.via \in PathsOf(p)
        /\ g = Peer[Source[p].gw][m.via]
    BY <2>1, ConfigType DEF Travels, Msg
  <2>4. [gw |-> g, dev |-> d] \in Exits[p]
    <3> DEFINE e == [gw |-> g, dev |-> d]
    <3>1. e \in [gw: Gateway, dev: Dev] /\ e.gw = g /\ e.dev = d
      BY <2>3
    <3> HIDE DEF e, m, p
    <3>2. LeadsTo(p, m.via, e)
      BY <2>1, <2>3, <3>1 DEF LeadsTo
    <3>3. e \in Exits[p]
      BY <2>3, <3>1, <3>2 DEF Exits
    <3> QED BY <3>3 DEF e
  <2>5. written' = written
    BY <1>4 DEF RecvAnnounce, recvUnchanged
  <2> QED BY <2>2, <2>3, <2>4, <2>5 DEF Path!Deliver, Path!Fresh
<1> QED BY <1>1, <1>2, <1>3, <1>4, <1>t, OutStep DEF Path!Next

\* The tunnels implement the path the hosts are promised: whatever a gateway
\* announces was written at the other end of the same tunnel, or of one whose
\* sockets it shares there, and a packet whose copies can be told is delivered
\* once, whatever reads fail.
THEOREM Refinement == Spec => PathSpec
<1>1. Spec => Path!Init /\ [][Path!Next]_Path!vars
  BY PathInit, PathStep, Invariance, PTL DEF Spec
<1> QED BY <1>1 DEF PathSpec, Path!Spec

-----------------------------------------------------------------------------
(***************************************************************************)
(* What is discarded.  One part of DiscardInv at a time, after what a step *)
(* may do to the counter of a transmit thread and to what a gateway has    *)
(* been handed.                                                            *)
(***************************************************************************)
\* A run of a process counts up.
Counts(g) ==
  /\ boot'[g] = boot[g] /\ up'[g] = up[g]
  /\ xmit'[g].pktid >= xmit[g].pktid
  /\ xmit[g].pc = "none" /\ ~up[g] => xmit'[g].pc = "none"

LEMMA CountStep ==
  ASSUME TypeOK, [Next]_vars, NEW g \in Gateway
  PROVE  ProcessEnds(g) \/ Restart(g) \/ Counts(g)
<1>t. /\ xmit \in [Gateway -> XmitThread] /\ \A h \in Gateway : xmit[h].pktid \in Nat
      /\ up \in [Gateway -> BOOLEAN] /\ boot \in [Gateway -> Nat]
  BY DEF TypeOK, ThreadTypeOK, CfgTypeOK, XmitThread
<1>1. ASSUME UNCHANGED <<up, boot, xmit>> PROVE Counts(g)
  BY <1>1, <1>t DEF Counts
<1>2. ASSUME NEW h \in Gateway, ProcessEnds(h) PROVE ProcessEnds(g) \/ Counts(g)
  <2>1. h # g => boot'[g] = boot[g] /\ up'[g] = up[g] /\ xmit'[g] = xmit[g]
    BY <1>2, <1>t DEF ProcessEnds
  <2> QED BY <1>2, <1>t, <2>1 DEF Counts
<1>3. ASSUME NEW h \in Gateway, Restart(h) PROVE Restart(g) \/ Counts(g)
  <2>1. h # g => boot'[g] = boot[g] /\ up'[g] = up[g] /\ xmit'[g] = xmit[g]
    BY <1>3, <1>t DEF Restart
  <2> QED BY <1>3, <1>t, <2>1 DEF Counts
<1>4. ASSUME NEW h \in Gateway, NEW b \in Bearer, AddBearer(h, b) PROVE Counts(g)
  <2>1. UNCHANGED <<up, boot>> /\ up[h]
    BY <1>4 DEF AddBearer, Adding
  <2>2. xmit' = xmit \/ xmit' = [xmit EXCEPT ![h].pc = "get"]
    BY <1>4 DEF AddBearer
  <2>3. [xmit[h] EXCEPT !.pc = "get"].pktid = xmit[h].pktid
    <3>1. xmit[h] \in XmitThread BY <1>t
    <3> QED BY <3>1 DEF XmitThread
  <2>4. xmit'[g].pktid = xmit[g].pktid /\ (g # h => xmit'[g] = xmit[g])
    BY <1>t, <2>2, <2>3
  <2> QED BY <1>t, <2>1, <2>4 DEF Counts
<1>5. ASSUME NEW h \in Gateway, Build(h) PROVE ProcessEnds(g) \/ Counts(g)
  BY <1>1, <1>2, <1>4, <1>5
  DEF Build, AddBearerNoTransport, AddBearerNoIf, AddBearerRefused, DropPath
<1>6. ASSUME NEW h \in Gateway, Xmit(h) PROVE Counts(g)
  <2>1. UNCHANGED <<up, boot>> /\ (h # g => xmit'[g] = xmit[g])
    BY <1>6, XmitFrame DEF xmitUnchanged
  <2>2. xmit[h].pc # "none"
    BY <1>6 DEF Xmit, XmitGetPacket, XmitRead, XmitReadFails, XmitLookup, XmitSend,
                XmitSendFails
  <2>3. xmit'[h].pktid >= xmit[h].pktid
    <3> DEFINE t == xmit[h]
    <3>1. t \in XmitThread /\ t.pktid \in Nat BY <1>t
    <3>2. ASSUME XmitGetPacket(h) PROVE xmit'[h].pktid = t.pktid
      <4> DEFINE d == front[h]
      <4>1. xmit'[h] = [t EXCEPT !.pc = "read", !.dev = d] BY <1>t, <3>2 DEF XmitGetPacket
      <4> HIDE DEF d, t
      <4> QED BY <3>1, <4>1 DEF XmitThread
    <3>3. ASSUME XmitReadFails(h) PROVE xmit'[h].pktid = t.pktid + 1
      <4> DEFINE n == t.pktid + 1
      <4>1. xmit'[h] = [t EXCEPT !.pc = "get", !.pktid = n] BY <1>t, <3>3 DEF XmitReadFails
      <4> HIDE DEF n, t
      <4>2. xmit'[h].pktid = n BY <3>1, <4>1 DEF XmitThread
      <4> QED BY <4>2 DEF n
    <3> HIDE DEF t
    <3>4. XmitRead(h) => xmit'[h].pktid = t.pktid + 1
      BY XmitAfter DEF t
    <3>5. XmitLookup(h) \/ XmitSend(h) \/ XmitSendFails(h) => xmit'[h].pktid = t.pktid
      BY XmitAfter DEF t, XmitSend, XmitSendFails
    <3>6. xmit'[h].pktid = t.pktid \/ xmit'[h].pktid = t.pktid + 1
      BY <1>6, <3>2, <3>3, <3>4, <3>5 DEF Xmit
    <3> QED BY <3>1, <3>6 DEF t
  <2> QED BY <1>t, <2>1, <2>2, <2>3 DEF Counts
<1> QED
  BY <1>1, <1>2, <1>3, <1>5, <1>6, RecvFrame
  DEF Next, vars, Crash, HostWrite, Lose, recvUnchanged

LEMMA NumberStep ==
  ASSUME TypeOK, TypeOK', DevInv, TapInv, NumberInv, [Next]_vars
  PROVE  NumberInv'
<1> DEFINE N(g) == boot[g] = 0 =>
             /\ ~up[g] => xmit[g].pc = "none"
             /\ \A p \in Packet : Source[p].gw = g /\ idOf[p] # 0 =>
                  /\ up[g] => idOf[p] <= xmit[g].pktid
                  /\ \A q \in Packet : Source[q].gw = g /\ idOf[q] = idOf[p] => q = p
<1> SUFFICES ASSUME NEW g \in Gateway PROVE N(g)'
  BY DEF NumberInv
<1>0. N(g)
  BY DEF NumberInv
<1>t. /\ idOf \in [Packet -> Nat] /\ xmit[g].pktid \in Nat
      /\ xmit \in [Gateway -> XmitThread] /\ XmitIdle.pc = "none"
      /\ up \in [Gateway -> BOOLEAN] /\ boot \in [Gateway -> Nat]
  BY DEF TypeOK, ThreadTypeOK, CfgTypeOK, DataTypeOK, XmitThread, XmitIdle
<1>1. CASE ProcessEnds(g)
  BY <1>0, <1>t, <1>1 DEF ProcessEnds
<1>2. CASE Restart(g)
  BY <1>t, <1>2 DEF Restart
<1>3. ASSUME Counts(g), UNCHANGED idOf PROVE N(g)'
  <2>1. xmit'[g].pktid \in Int
    BY DEF TypeOK, ThreadTypeOK, XmitThread
  <2> QED BY <1>0, <1>t, <1>3, <2>1 DEF Counts
<1>4. ASSUME Counts(g), NEW h \in Gateway, XmitRead(h) PROVE N(g)'
  <2> DEFINE d == xmit[h].dev  k == Head(tap[h][d])  n == xmit[h].pktid + 1
  <2>1. d \in Dev /\ tap[h][d] \in Seq(Packet) /\ tap[h][d] # << >>
    BY <1>4 DEF XmitRead, DevInv, TypeOK, DataTypeOK
  <2>2. 1 \in DOMAIN tap[h][d] /\ k = tap[h][d][1]
    BY <2>1
  <2> HIDE DEF d
  <2>3. \A i \in DOMAIN tap[h][d] : /\ idOf[tap[h][d][i]] = 0
                                   /\ Source[tap[h][d][i]] = [gw |-> h, dev |-> d]
    BY <2>1, ZenonT(30) DEF TapInv
  <2>4. k \in Packet /\ idOf[k] = 0 /\ Source[k].gw = h
    BY <2>1, <2>2, <2>3
  <2>5. /\ idOf' = [idOf EXCEPT ![k] = n] /\ xmit[h].pc = "read"
        /\ xmit'[h].pktid = n
    BY <1>4, XmitAfter DEF XmitRead, d
  <2>6. \A p \in Packet : idOf'[p] = IF p = k THEN n ELSE idOf[p]
    BY <1>t, <2>5
  <2> HIDE DEF k, n
  <2>7. CASE h # g
    <3>1. \A p \in Packet : Source[p].gw = g => idOf'[p] = idOf[p]
      BY <2>4, <2>6, <2>7
    <3>2. xmit'[g] = xmit[g] /\ UNCHANGED <<up, boot>>
      BY <1>4, <2>7, XmitFrame DEF Xmit, xmitUnchanged
    <3> QED BY <1>0, <3>1, <3>2
  <2>8. CASE h = g
    <3>1. SUFFICES ASSUME boot[g] = 0 PROVE N(g)'
      BY <1>4 DEF Counts
    <3>2. up[g] /\ up'[g]
      BY <1>0, <1>4, <1>t, <2>5, <2>8, <3>1 DEF Counts
    <3>3. n \in Nat /\ n = xmit[g].pktid + 1
      BY <1>t, <2>8 DEF n
    <3>4. \A p \in Packet : Source[p].gw = g /\ idOf[p] # 0 => idOf[p] \in Nat /\ idOf[p] < n
      BY <1>0, <1>t, <3>1, <3>2, <3>3
    <3>5. ASSUME NEW p \in Packet, Source[p].gw = g, idOf'[p] # 0
          PROVE  idOf'[p] <= n
      BY <1>t, <2>6, <3>3, <3>4, <3>5
    <3>6. ASSUME NEW p \in Packet, Source[p].gw = g, idOf'[p] # 0,
                 NEW q \in Packet, Source[q].gw = g, idOf'[q] = idOf'[p]
          PROVE  q = p
      <4>1. CASE p = k BY <2>6, <3>3, <3>4, <3>6, <4>1
      <4>2. CASE q = k BY <2>6, <3>3, <3>4, <3>6, <4>2
      <4>3. CASE p # k /\ q # k BY <1>0, <2>6, <3>1, <3>6, <4>3
      <4> QED BY <4>1, <4>2, <4>3
    <3> QED BY <2>5, <2>8, <3>2, <3>5, <3>6
  <2> QED BY <2>7, <2>8
<1> QED BY <1>1, <1>2, <1>3, <1>4, CountStep, Forms, XmitFrame, RecvFrame
  DEF Quiet, HostWrite, Lose, recvUnchanged, ProcessEnds

\* Only a bearer without a receive thread gets one.
LEMMA AddsIdle ==
  ASSUME TypeOK, TablesAgree, NEW g \in Gateway, NEW b \in Bearer, AddBearer(g, b)
  PROVE  /\ recv[g][b].pc = "none"
         /\ \A h \in Gateway, e \in Bearer : ~(h = g /\ e = b) => recv'[h][e] = recv[h][e]
<1> DEFINE d == Ifname[g][b]
<1>1. d \in Dev /\ d # NoDev
  BY ConfigType, ConfigAssumption
<1>2. rpeer2dev[g][Remote[g][b]] = NoDev
  BY DEF AddBearer
<1>3. recv[g][b].pc # "none" =>
        \E i \in DOMAIN dev2mpTunnel[g][d] :
          dev2mpTunnel[g][d][i] = b /\ rpeer2dev[g][Remote[g][b]] = d
  BY <1>1 DEF TablesAgree
<1>4. recv[g][b].pc = "none"
  BY <1>1, <1>2, <1>3
<1>5. recv' = [recv EXCEPT ![g][b] = [RecvIdle EXCEPT !.pc = "poll"]]
  BY DEF AddBearer
<1> QED BY <1>4, <1>5 DEF TypeOK, ThreadTypeOK

\* What a step does to the receive thread of one bearer, unless it ends the
\* process or is a step of that thread.
LEMMA OtherSteps ==
  ASSUME TypeOK, TablesAgree, [Next]_vars, NEW h \in Gateway
  PROVE  \/ ProcessEnds(h)
         \/ \E b \in Bearer : Recv(h, b)
         \/ /\ dup'[h] = dup[h] /\ out'[h] = out[h]
            /\ \A b \in Bearer : \/ recv'[h][b] = recv[h][b]
                                 \/ recv[h][b].pc = "none"
<1>t. /\ dup \in [Gateway -> Detector] /\ recv \in [Gateway -> [Bearer -> RecvThread]]
      /\ out \in [Gateway -> Seq(Announcement)] /\ ThreadTypeOK
  BY DEF TypeOK, ThreadTypeOK, DataTypeOK
<1> DEFINE Apart == /\ dup'[h] = dup[h] /\ out'[h] = out[h]
                    /\ \A b \in Bearer : \/ recv'[h][b] = recv[h][b]
                                         \/ recv[h][b].pc = "none"
<1>1. ASSUME UNCHANGED <<dup, out, recv>> PROVE Apart
  BY <1>1
<1>2. ASSUME NEW g \in Gateway, ProcessEnds(g), g # h PROVE Apart
  <2>1. dup'[h] = dup[h] /\ out'[h] = out[h] /\ recv'[h] = recv[h]
    BY <1>t, <1>2 DEF ProcessEnds
  <2> QED BY <2>1
<1>3. ASSUME NEW g \in Gateway, NEW b \in Bearer, AddBearer(g, b) PROVE Apart
  BY <1>3, AddsIdle DEF AddBearer
<1>4. ASSUME NEW g \in Gateway, Build(g) PROVE ProcessEnds(h) \/ Apart
  BY <1>1, <1>2, <1>3, <1>4
  DEF Build, AddBearerNoTransport, AddBearerNoIf, AddBearerRefused, DropPath
<1>5. ASSUME NEW g \in Gateway, NEW b \in Bearer, Recv(g, b), g # h PROVE Apart
  <2>1. /\ \E x : dup' = dup \/ dup' = [dup EXCEPT ![g] = x]
        /\ \/ out' = out
           \/ out' = [out EXCEPT ![g] = Append(@, [dev |-> Ifname[g][b],
                                                   pkt |-> recv[g][b].msg.pkt,
                                                   form |-> recv[g][b].msg.form])]
    BY <1>5 DEF Recv, RecvPoll, RecvDiscard, RecvAccept, RecvAnnounce, RecvFails, RecvDies
  <2>2. dup'[h] = dup[h] /\ out'[h] = out[h]
    BY <1>t, <1>5, <2>1
  <2>3. \E r : recv' = recv \/ recv' = [recv EXCEPT ![g][b] = r]
    BY <1>5 DEF Recv, RecvPoll, RecvDiscard, RecvAccept, RecvAnnounce, RecvFails, RecvDies
  <2>4. recv'[h] = recv[h]
    BY <1>t, <1>5, <2>3
  <2> QED BY <2>2, <2>4
<1>6. ASSUME NEW g \in Gateway, Xmit(g) PROVE Apart
  BY <1>1, <1>6, XmitFrame DEF xmitUnchanged
<1> QED
  BY <1>1, <1>2, <1>4, <1>5, <1>6 DEF Next, vars, Crash, Restart, HostWrite, Lose

\* Who has been handed a packet has been until its process ends.
LEMMA HandedLasts ==
  ASSUME TypeOK, TablesAgree, [Next]_vars, NEW h \in Gateway, NEW p, Handed(h, p)
  PROVE  ProcessEnds(h) \/ Handed(h, p)'
<1>t. /\ recv \in [Gateway -> [Bearer -> RecvThread]] /\ ThreadTypeOK
      /\ out \in [Gateway -> Seq(Announcement)]
  BY DEF TypeOK, ThreadTypeOK, DataTypeOK
<1>1. ASSUME out'[h] = out[h],
             \A b \in Bearer : recv[h][b].pc = "announce" =>
               recv'[h][b].pc = "announce" /\ recv'[h][b].msg = recv[h][b].msg
      PROVE  Handed(h, p)'
  BY <1>1 DEF Handed, Announced, Announcing
<1>2. ASSUME NEW b \in Bearer, RecvAnnounce(h, b) PROVE Handed(h, p)'
  <2> DEFINE q == recv[h][b].msg.pkt
             a == [dev |-> Ifname[h][b], pkt |-> q, form |-> recv[h][b].msg.form]
  <2>1. /\ recv[h][b].pc = "announce"
        /\ out' = [out EXCEPT ![h] = Append(out[h], a)]
        /\ recv' = [recv EXCEPT ![h][b].pc = "poll"]
    BY <1>2 DEF RecvAnnounce
  <2>2. \A c \in Bearer : /\ recv'[h][c].msg = recv[h][c].msg
                          /\ c # b => recv'[h][c].pc = recv[h][c].pc
    BY <1>t, <2>1, RecvPc
  <2>3. a.pkt = q OBVIOUS
  <2> HIDE DEF a
  <2>4. /\ \A i \in DOMAIN out[h] : i \in DOMAIN out'[h] /\ out'[h][i] = out[h][i]
        /\ Len(out[h]) + 1 \in DOMAIN out'[h] /\ out'[h][Len(out[h]) + 1] = a
    BY <1>t, <2>1
  <2>5. CASE p \in Announced(h)
    BY <2>4, <2>5 DEF Handed, Announced
  <2>6. CASE p = q
    BY <2>3, <2>4, <2>6 DEF Handed, Announced
  <2>7. CASE p \in Announcing(h) /\ p # q
    BY <2>2, <2>7 DEF Handed, Announcing
  <2> QED BY <2>5, <2>6, <2>7 DEF Handed
<1>3. ASSUME NEW b \in Bearer, NEW c, recv' = [recv EXCEPT ![h][b].pc = c],
             recv[h][b].pc # "announce", UNCHANGED out
      PROVE  Handed(h, p)'
  <2>1. \A e \in Bearer : /\ recv'[h][e].msg = recv[h][e].msg
                          /\ e # b => recv'[h][e].pc = recv[h][e].pc
    BY <1>t, <1>3, RecvPc
  <2> QED BY <1>1, <1>3, <2>1
<1>4. ASSUME NEW b \in Bearer, RecvPoll(h, b) PROVE Handed(h, p)'
  <2>1. /\ recv[h][b].pc = "poll" /\ out' = out
        /\ \E r : recv' = [recv EXCEPT ![h][b] = r]
    BY <1>4 DEF RecvPoll
  <2>2. \A c \in Bearer : c # b => recv'[h][c] = recv[h][c]
    BY <1>t, <2>1
  <2> QED BY <1>1, <2>1, <2>2
<1>5. ASSUME NEW b \in Bearer, Recv(h, b) PROVE Handed(h, p)'
  <2>1. CASE RecvFails(h, b)
    BY <1>1, <2>1 DEF RecvFails
  <2> QED BY <1>2, <1>3, <1>4, <1>5, <2>1 DEF Recv, RecvDiscard, RecvAccept, RecvDies
<1> QED BY <1>1, <1>5, OtherSteps

\* A thread that comes from the test to the poll has discarded its message.
LEMMA PollAfterTest ==
  ASSUME TypeOK, TablesAgree, [Next]_vars, NEW h \in Gateway, NEW b \in Bearer,
         recv[h][b].pc = "check", recv'[h][b].pc = "poll"
  PROVE  RecvDiscard(h, b)
<1>t. /\ recv \in [Gateway -> [Bearer -> RecvThread]] /\ RecvIdle.pc = "none" /\ ThreadTypeOK
  BY DEF TypeOK, ThreadTypeOK, RecvIdle
<1>1. ~ProcessEnds(h)
  BY <1>t DEF ProcessEnds
<1>2. PICK c \in Bearer : Recv(h, c)
  BY <1>1, OtherSteps
<1>3. \E r : recv' = recv \/ recv' = [recv EXCEPT ![h][c] = r]
  BY <1>2 DEF Recv, RecvPoll, RecvDiscard, RecvAccept, RecvAnnounce, RecvFails, RecvDies
<1>4. c = b
  BY <1>t, <1>3
<1>5. ~RecvAccept(h, b)
  <2>1. RecvAccept(h, b) => recv'[h][b].pc = "announce"
    BY <1>t, RecvPc DEF RecvAccept
  <2> QED BY <2>1
<1> QED BY <1>2, <1>4, <1>5 DEF Recv, RecvPoll, RecvAnnounce, RecvFails, RecvDies

\* What is under test or about to be announced at h was led to h.
LEMMA LedTo ==
  ASSUME TypeOK, RecvInv, NEW h \in Gateway, NEW b \in Bearer,
         recv[h][b].pc \in {"check", "announce"}, NEW q, q = recv[h][b].msg.pkt
  PROVE  /\ q \in Packet /\ h \in Ends(q) /\ idOf[q] # 0
         /\ Numbered(b) /\ recv[h][b].msg.form = "whole" => recv[h][b].msg.id = idOf[q]
<1>1. LET m == recv[h][b].msg IN
      m \in Msg /\ Travels(m) /\ m.to = h /\ (Numbered(b) <=> Numbered(m.via))
  BY Landed
<1> QED BY <1>1 DEF Travels, Msg, Ends

LEMMA WholeStep ==
  ASSUME TypeOK, XmitInv, NetInv, WholeInv, [Next]_vars
  PROVE  WholeInv'
<1>t. /\ recv \in [Gateway -> [Bearer -> RecvThread]] /\ RecvIdle.pc = "none" /\ ThreadTypeOK
      /\ Lone \subseteq Gateway /\ net \subseteq Msg
  BY DEF TypeOK, ThreadTypeOK, DataTypeOK, RecvIdle, Lone
<1>1. \A m \in net' : m.form = "whole"
  <2>1. ASSUME NEW g \in Gateway, XmitSend(g) PROVE \A m \in net' : m.form = "whole"
    <3> DEFINE b == Head(xmit[g].paths)
    <3>1. b \in Bearer
      <4>1. xmit[g].paths \in Seq(Bearer) /\ xmit[g].paths # << >>
        BY <2>1 DEF XmitSend, XmitInv, TypeOK, ThreadTypeOK, XmitThread
      <4> QED BY <4>1
    <3>2. PICK ms \in Copies(g, b) : net' = net \cup ms
      BY <2>1 DEF XmitSend
    <3>3. \A m \in ms : m.form = "whole"
      BY <3>1, CopiesAre DEF MsgFor
    <3> QED BY <3>2, <3>3 DEF WholeInv
  <2>2. ASSUME NEW g \in Gateway, Xmit(g), ~XmitSend(g) PROVE net' = net
    BY <2>2 DEF Xmit, XmitGetPacket, XmitRead, XmitReadFails, XmitLookup, XmitSendFails
  <2> QED
    BY <2>1, <2>2, Forms, RecvFrame DEF WholeInv, ProcessEnds, Quiet, HostWrite, Lose
<1> DEFINE Uncut(h, b) == recv[h][b].pc \in {"check", "announce"} => recv[h][b].msg.form = "whole"
<1>2. ASSUME NEW h \in Lone, NEW b \in Bearer PROVE Uncut(h, b)'
  <2>0. Uncut(h, b) /\ h \in Gateway
    BY <1>t DEF WholeInv
  <2>1. ASSUME NEW g \in Gateway, ProcessEnds(g) PROVE Uncut(h, b)'
    <3>1. recv'[h][b] = recv[h][b] \/ recv'[h][b].pc = "none"
      BY <1>t, <2>0, <2>1 DEF ProcessEnds
    <3> QED BY <2>0, <3>1
  <2>2. CASE Quiet \/ UNCHANGED recv
    BY <2>0, <2>2 DEF Quiet
  <2>3. ASSUME NEW g \in Gateway, NEW e \in Bearer, RecvPoll(g, e) PROVE Uncut(h, b)'
    <3>1. PICK m \in net : /\ m.to = g /\ m.at = e
                           /\ \E r \in Arrivals(m) :
                                recv' = [recv EXCEPT ![g][e] = [pc |-> "check", msg |-> r]]
      BY <2>3 DEF RecvPoll
    <3>2. PICK r \in Arrivals(m) : recv' = [recv EXCEPT ![g][e] = [pc |-> "check", msg |-> r]]
      BY <3>1
    <3>3. CASE ~(h = g /\ b = e)
      <4>1. recv'[h][b] = recv[h][b]
        BY <1>t, <2>0, <3>2, <3>3
      <4> QED BY <2>0, <4>1
    <3>4. CASE h = g /\ b = e
      <4>1. m.pkt \in Packet /\ m.via \in PathsOf(m.pkt) /\ h \in Ends(m.pkt)
        BY <1>t, <3>1, <3>4 DEF NetInv, Travels, Ends, Msg
      <4>2. ~(Proto[m.via] = "tcp" /\ m.via \in Faulty)
        BY <4>1 DEF Lone
      <4>3. r = m
        BY <3>2, <4>2 DEF Arrivals
      <4>4. recv'[h][b].msg = r
        BY <1>t, <2>0, <3>2, <3>4
      <4> QED BY <4>3, <4>4 DEF WholeInv
    <3> QED BY <3>3, <3>4
  <2>4. ASSUME NEW g \in Gateway, NEW e \in Bearer, NEW c,
               recv' = [recv EXCEPT ![g][e].pc = c], c = "announce" => recv[g][e].pc = "check",
               c # "check"
        PROVE  Uncut(h, b)'
    <3>1. /\ recv'[h][b].msg = recv[h][b].msg
          /\ recv'[h][b].pc = IF h = g /\ b = e THEN c ELSE recv[h][b].pc
      BY <1>t, <2>0, <2>4, RecvPc
    <3> QED BY <2>0, <2>4, <3>1
  <2>5. ASSUME NEW g \in Gateway, NEW e \in Bearer, Recv(g, e) PROVE Uncut(h, b)'
    <3>1. CASE RecvFails(g, e)
      BY <2>2, <3>1 DEF RecvFails
    <3>2. CASE RecvDiscard(g, e) \/ RecvAnnounce(g, e)
      <4>1. PICK c : c = "poll"
        OBVIOUS
      <4>2. recv' = [recv EXCEPT ![g][e].pc = c]
        BY <3>2, <4>1 DEF RecvDiscard, RecvAnnounce
      <4>3. c # "check" /\ c # "announce"
        BY <4>1
      <4> HIDE DEF Uncut
      <4> QED BY <2>4, <4>2, <4>3
    <3>3. CASE RecvAccept(g, e)
      <4>1. recv' = [recv EXCEPT ![g][e].pc = "announce"] /\ recv[g][e].pc = "check"
        BY <3>3 DEF RecvAccept
      <4> QED BY <2>4, <4>1
    <3>4. CASE RecvDies(g, e)
      <4>1. PICK c : c = "dead"
        OBVIOUS
      <4>2. recv' = [recv EXCEPT ![g][e].pc = c]
        BY <3>4, <4>1 DEF RecvDies
      <4>3. c # "check" /\ c # "announce"
        BY <4>1
      <4> HIDE DEF Uncut
      <4> QED BY <2>4, <4>2, <4>3
    <3> HIDE DEF Uncut
    <3> QED BY <2>3, <2>5, <3>1, <3>2, <3>3, <3>4 DEF Recv
  <2> QED BY <2>1, <2>2, <2>5, Forms, XmitFrame DEF HostWrite, Lose, xmitUnchanged
<1> QED BY <1>1, <1>2 DEF WholeInv, Lone

\* A test finds recorded only what has been handed on, or what a failed read has
\* recorded; the number of a packet is its own as long as its sender has not been
\* restarted.
LEMMA Discards ==
  ASSUME TypeOK, RecvInv, NumberInv, WholeInv, RecordedInv,
         NEW h \in Lone, NEW b \in Bearer, RecvDiscard(h, b),
         NEW q, q = recv[h][b].msg.pkt,
         Numbered(b) => boot[Source[q].gw] = 0 /\ idOf[q] \notin Junk
  PROVE  Handed(h, q)
<1>t. h \in Gateway BY DEF Lone
<1>1. recv[h][b].pc = "check" /\ IsDuplicate(h, b)
  BY DEF RecvDiscard
<1>2. /\ q \in Packet /\ h \in Ends(q) /\ idOf[q] # 0
      /\ Numbered(b) => recv[h][b].msg.id = idOf[q]
  BY <1>t, <1>1, LedTo DEF WholeInv
<1>3. CASE Numbered(b)
  <2>1. idOf[q] \in dup[h].ids \ Junk
    BY <1>1, <1>2, <1>3 DEF IsDuplicate, IdIsDuplicate
  <2>2. PICK p \in Packet : idOf[p] = idOf[q] /\ h \in Ends(p) /\ Handed(h, p)
    BY <2>1 DEF RecordedInv
  <2>3. Source[p].gw = Source[q].gw /\ Source[q].gw \in Gateway
    BY <1>2, <2>2, ConfigType DEF Lone
  <2>4. p = q
    BY <1>2, <1>3, <2>2, <2>3 DEF NumberInv
  <2> QED BY <2>2, <2>4
<1>4. CASE ~Numbered(b)
  <2>1. q \in Icmp /\ InTable(h, q)
    BY <1>1, <1>4 DEF IsDuplicate, PktIsDuplicate, InTable
  <2> QED BY <1>2, <2>1 DEF RecordedInv
<1> QED BY <1>3, <1>4

LEMMA RecordedStep ==
  ASSUME TypeOK, DevInv, TapInv, RecvInv, TablesAgree, NumberInv, WholeInv, RecordedInv,
         [Next]_vars
  PROVE  RecordedInv'
<1>t. /\ dup \in [Gateway -> Detector] /\ recv \in [Gateway -> [Bearer -> RecvThread]]
      /\ ThreadTypeOK
  BY DEF TypeOK, ThreadTypeOK
<1> DEFINE Witness(h, id, p) == idOf[p] = id /\ id # 0 /\ h \in Ends(p) /\ Handed(h, p)
           Ids(h) == \A id \in dup[h].ids \ Junk : \E p \in Packet : Witness(h, id, p)
           Digests(h) == \A p \in Icmp : h \in Ends(p) /\ InTable(h, p) => Handed(h, p)
<1> SUFFICES ASSUME NEW h \in Lone PROVE Ids(h)' /\ Digests(h)'
  BY DEF RecordedInv
<1>0. Ids(h) /\ Digests(h) /\ h \in Gateway
  BY DEF RecordedInv, Lone
<1>1. CASE ProcessEnds(h)
  <2>1. dup'[h] = NewDetector
    BY <1>t, <1>0, <1>1 DEF ProcessEnds
  <2>2. \A p \in Icmp : NewDetector.tbl[Flow[p]] = {}
    BY ConfigAssumption DEF NewDetector, Flows, Range_
  <2>3. NewDetector.ids = {} BY DEF NewDetector
  <2>4. Ids(h)' BY <2>1, <2>3
  <2>5. Digests(h)' BY <2>1, <2>2 DEF InTable
  <2> QED BY <2>4, <2>5
<1>2. ASSUME ~ProcessEnds(h), NEW p, Handed(h, p) PROVE Handed(h, p)'
  BY <1>0, <1>2, HandedLasts
<1>3. ASSUME ~ProcessEnds(h), NEW id \in dup[h].ids \ Junk
      PROVE  \E p \in Packet : Witness(h, id, p)'
  <2>1. PICK p \in Packet : Witness(h, id, p)
    BY <1>0, <1>3
  <2>2. idOf'[p] = id
    BY <2>1, Persists
  <2> QED BY <1>2, <1>3, <2>1, <2>2 DEF Ends, PathsOf
<1>7. ASSUME ~ProcessEnds(h), dup'[h].ids \subseteq dup[h].ids \cup Junk PROVE Ids(h)'
  <2> HIDE DEF Witness
  <2> QED BY <1>3, <1>7
<1>4. CASE ~ProcessEnds(h) /\ dup'[h] = dup[h]
  <2>1. Ids(h)' BY <1>4, <1>7
  <2>2. Digests(h)' BY <1>0, <1>2, <1>4 DEF InTable, Ends, PathsOf
  <2> QED BY <2>1, <2>2
<1>5. ASSUME NEW b \in Bearer, RecvAccept(h, b) \/ RecvDiscard(h, b), ~ProcessEnds(h)
      PROVE  Ids(h)' /\ Digests(h)'
  <2>a. PICK q \in Packet : q = recv[h][b].msg.pkt
    BY <1>0, <1>5, LedTo DEF RecvAccept, RecvDiscard
  <2>1. /\ recv[h][b].pc = "check" /\ dup'[h] = DetectorAfter(h, b)
    BY <1>0, <1>5, <1>t DEF RecvAccept, RecvDiscard
  <2>2. /\ h \in Ends(q) /\ idOf[q] # 0
        /\ Numbered(b) => recv[h][b].msg.id = idOf[q]
    BY <1>0, <2>a, <2>1, LedTo DEF WholeInv
  <2>3. RecvAccept(h, b) => Handed(h, q)'
    <3>1. RecvAccept(h, b) => recv'[h][b].pc = "announce" /\ recv'[h][b].msg.pkt = q
      BY <1>0, <1>t, <2>a, RecvPc DEF RecvAccept
    <3> QED BY <3>1 DEF Handed, Announcing
  <2>4. CASE Numbered(b)
    <3>1. /\ dup'[h].ids = dup[h].ids \cup {idOf[q]}
          /\ dup'[h].tbl = dup[h].tbl
      <4>1. dup'[h] = AfterId(dup[h], idOf[q])
        BY <2>1, <2>2, <2>4 DEF DetectorAfter
      <4> QED BY <1>0, <1>t, <4>1 DEF AfterId, Detector
    <3>2. RecvDiscard(h, b) => idOf[q] \in dup[h].ids
      BY <2>2, <2>4 DEF RecvDiscard, IsDuplicate, IdIsDuplicate
    <3>3. idOf'[q] = idOf[q]
      BY <2>2, Persists
    <3>4. ASSUME RecvAccept(h, b), NEW id, id = idOf[q] PROVE Witness(h, id, q)'
      BY <2>2, <2>3, <3>3, <3>4 DEF Ends, PathsOf
    <3>5. Ids(h)'
      <4> SUFFICES ASSUME NEW id \in dup'[h].ids \ Junk PROVE \E p \in Packet : Witness(h, id, p)'
        OBVIOUS
      <4>1. id \in dup[h].ids \ Junk \/ (RecvAccept(h, b) /\ id = idOf[q])
        BY <1>5, <3>1, <3>2
      <4> HIDE DEF Witness
      <4> QED BY <1>3, <1>5, <3>4, <4>1
    <3>6. Digests(h)'
      BY <1>0, <1>2, <1>5, <3>1 DEF InTable, Ends, PathsOf
    <3> QED BY <3>5, <3>6
  <2>5. CASE ~Numbered(b) /\ q \notin Icmp
    <3>1. dup'[h] = dup[h]
      BY <2>a, <2>1, <2>5 DEF DetectorAfter
    <3> QED BY <1>4, <1>5, <3>1
  <2>6. CASE ~Numbered(b) /\ q \in Icmp
    <3>1. dup'[h] = AfterPkt(dup[h], q) /\ dup[h] \in Detector
      BY <1>0, <1>t, <2>a, <2>1, <2>6 DEF DetectorAfter
    <3>2. dup'[h].ids = dup[h].ids
      BY <3>1, DetectorIds
    <3>3. Handed(h, q)'
      BY <1>2, <1>5, <2>a, <2>3, <2>6, Discards
    <3>4. ASSUME NEW p \in Icmp, h \in Ends(p), InTable(h, p)' PROVE Handed(h, p)'
      <4>1. CASE p = q BY <3>3, <4>1
      <4>2. CASE p # q
        <5>1. p \in Packet BY ConfigAssumption
        <5>2. Flow[q] # Flow[p] \/ UniqueId[q] # UniqueId[p]
          BY <2>2, <2>6, <3>4, <4>2, <5>1 DEF Lone
        <5>3. UniqueId[p] \in AfterPkt(dup[h], q).tbl[Flow[p]] => UniqueId[p] \in dup[h].tbl[Flow[p]]
          BY <3>1, <5>1, <5>2, PktEffect
        <5>4. InTable(h, p)
          BY <3>1, <3>4, <5>3 DEF InTable
        <5> QED BY <1>0, <1>2, <1>5, <3>4, <5>4
      <4> QED BY <4>1, <4>2
    <3>5. Ids(h)'
      BY <1>5, <1>7, <3>2
    <3> QED BY <3>4, <3>5 DEF Ends, PathsOf
  <2> QED BY <2>4, <2>5, <2>6
<1>8. ASSUME NEW b \in Bearer, RecvFails(h, b), ~ProcessEnds(h) PROVE Ids(h)' /\ Digests(h)'
  <2>1. PICK n \in Junk : dup' = [dup EXCEPT ![h] = AfterId(dup[h], n)]
    BY <1>8 DEF RecvFails
  <2>2. dup'[h].ids = dup[h].ids \cup {n} /\ dup'[h].tbl = dup[h].tbl
    BY <1>t, <1>0, <2>1 DEF AfterId, Detector
  <2>3. Ids(h)'
    BY <1>7, <1>8, <2>2
  <2>4. Digests(h)'
    BY <1>0, <1>2, <1>8, <2>2 DEF InTable, Ends, PathsOf
  <2> QED BY <2>3, <2>4
<1>6. ASSUME NEW b \in Bearer, Recv(h, b), ~ProcessEnds(h) PROVE Ids(h)' /\ Digests(h)'
  BY <1>4, <1>5, <1>6, <1>8 DEF Recv, RecvPoll, RecvAnnounce, RecvDies
<1> QED BY <1>0, <1>1, <1>4, <1>6, OtherSteps

LEMMA DiscardInit == Init => DiscardInv
<1> SUFFICES ASSUME Init PROVE DiscardInv OBVIOUS
<1>1. /\ XmitIdle.pc = "none" /\ RecvIdle.pc = "none" /\ NewDetector.ids = {}
      /\ \A p \in Icmp : NewDetector.tbl[Flow[p]] = {}
  BY ConfigAssumption DEF XmitIdle, RecvIdle, NewDetector, Flows, Range_
<1>2. NumberInv BY DEF Init, NumberInv
<1>3. WholeInv BY <1>1 DEF Init, WholeInv, Lone
<1>4. RecordedInv BY <1>1 DEF Init, RecordedInv, Lone, InTable
<1> QED BY <1>2, <1>3, <1>4 DEF DiscardInv

LEMMA DiscardStep == IInv /\ IInv' /\ TablesAgree /\ DiscardInv /\ [Next]_vars => DiscardInv'
<1> SUFFICES ASSUME IInv, IInv', TablesAgree, DiscardInv, [Next]_vars PROVE DiscardInv' OBVIOUS
<1>1. /\ TypeOK /\ TypeOK' /\ DevInv /\ TapInv /\ XmitInv /\ NetInv /\ RecvInv
      /\ NumberInv /\ WholeInv /\ RecordedInv
  BY DEF IInv, DiscardInv
<1>2. NumberInv' /\ WholeInv' BY <1>1, NumberStep, WholeStep
<1>3. RecordedInv' BY <1>1, RecordedStep
<1> QED BY <1>2, <1>3 DEF DiscardInv

LEMMA DiscardInvariance == Spec => []DiscardInv
BY DiscardInit, DiscardStep, Invariance, TablesCorrect, PTL DEF Spec

\* A gateway to which one gateway sends, over bearers that do not cut numbers
\* short, discards no packet that it has not accepted, as long as that sender has
\* not been restarted and no failed read may have found the packet's number on
\* the stack: whatever else crashes, and however the copies are reordered, lost or
\* duplicated (tunnelRecvThreadFunc, lines 226-256).
THEOREM LoneDiscardsDuplicates == Spec => LoneDiscards
<1> DEFINE A == \A h \in Lone, b \in Bearer :
                  LET p == recv[h][b].msg.pkt IN
                    /\ recv[h][b].pc = "check" /\ recv'[h][b].pc = "poll"
                    /\ boot[Source[p].gw] = 0 /\ (Numbered(b) => idOf[p] \notin Junk)
                    => Handed(h, p)
<1>1. IInv /\ TablesAgree /\ DiscardInv /\ [Next]_vars => A
  <2> SUFFICES ASSUME IInv, TablesAgree, DiscardInv, [Next]_vars PROVE A OBVIOUS
  <2>1. TypeOK /\ RecvInv /\ NumberInv /\ WholeInv /\ RecordedInv
    BY DEF IInv, DiscardInv
  <2> QED BY <2>1, PollAfterTest, Discards DEF Lone
<1> HIDE DEF A
<1>2. Spec => [][A]_vars
  BY <1>1, Invariance, TablesCorrect, DiscardInvariance, PTL DEF Spec
<1> QED BY <1>2 DEF A, LoneDiscards

NeverRestarted == \A g \in Gateway : boot[g] = 0

\* Where every gateway can tell the packets led to it, none is restarted, and no
\* failed read leaves a number in the detector, only duplicates are discarded
\* ("discarded DUP PACKET", line 248).  With two senders, after a restart or a
\* failed read the code does discard others: see README.
THEOREM DuplicatesOnly ==
  ASSUME Lone = Gateway, Junk = {}
  PROVE  Spec /\ []NeverRestarted => OnlyDuplicatesDiscarded
<1> DEFINE A == \A g \in Gateway, b \in Bearer :
                  recv[g][b].pc = "check" /\ recv'[g][b].pc = "poll"
                    => recv[g][b].msg.pkt \in Announced(g) \cup Announcing(g)
           B == \A h \in Lone, b \in Bearer :
                  LET p == recv[h][b].msg.pkt IN
                    /\ recv[h][b].pc = "check" /\ recv'[h][b].pc = "poll"
                    /\ boot[Source[p].gw] = 0 /\ (Numbered(b) => idOf[p] \notin Junk)
                    => Handed(h, p)
<1>1. IInv /\ NeverRestarted /\ B => A
  <2> SUFFICES ASSUME IInv, NeverRestarted, B,
                      NEW g \in Gateway, NEW b \in Bearer,
                      recv[g][b].pc = "check", recv'[g][b].pc = "poll",
                      NEW p, p = recv[g][b].msg.pkt
               PROVE  p \in Announced(g) \cup Announcing(g)
    OBVIOUS
  <2>1. p \in Packet
    BY LedTo DEF IInv
  <2>2. boot[Source[p].gw] = 0
    BY <2>1, ConfigType DEF NeverRestarted
  <2> QED BY <2>2 DEF Handed
<1>2. Spec => [][B]_vars
  BY LoneDiscardsDuplicates DEF LoneDiscards
<1> HIDE DEF A, B
<1>3. Spec /\ []NeverRestarted => [][A]_vars
  BY <1>1, <1>2, Invariance, PTL
<1> QED BY <1>3 DEF A, OnlyDuplicatesDiscarded

-----------------------------------------------------------------------------
(***************************************************************************)
(* What identifies a packet to the detector (IpPacketParser): the numbers  *)
(* made of a header lose nothing of the fields they are made of, whatever  *)
(* the width of a field.                                                   *)
(***************************************************************************)
\* A quotient and a remainder are determined by the number they make.
LEMMA Digits ==
  ASSUME NEW B \in Nat \ {0}, NEW a \in Nat, NEW c \in Nat,
         NEW b \in 0 .. B - 1, NEW d \in 0 .. B - 1,
         a * B + b = c * B + d
  PROVE  a = c /\ b = d
<1>1. ASSUME NEW x \in Nat, NEW y \in Nat, NEW v \in 0 .. B - 1, NEW w \in 0 .. B - 1,
             x * B + v = y * B + w
      PROVE  ~(x < y)
  <2> SUFFICES ASSUME x < y PROVE FALSE
    OBVIOUS
  <2> DEFINE k == y - x
  <2>1. k \in Nat \ {0} /\ y = x + k
    OBVIOUS
  <2> HIDE DEF k
  <2>2. y * B = x * B + k * B
    BY <2>1
  <2>3. k * B >= B
    BY <2>1
  <2>4. x * B \in Nat /\ k * B \in Nat
    BY <2>1
  <2> QED
    BY <1>1, <2>2, <2>3, <2>4
<1>2. ~(a < c) /\ ~(c < a)
  BY <1>1
<1>3. a = c
  BY <1>2
<1>4. a * B \in Nat
  OBVIOUS
<1> QED
  BY <1>3, <1>4

\* Two words make a number below the square of their width.
LEMMA TwoWords ==
  ASSUME NEW x \in Word, NEW y \in Word
  PROVE  x * W + y \in 0 .. W * W - 1
<1>1. W \in Nat \ {0} /\ x \in Nat /\ y \in Nat /\ x <= W - 1 /\ y <= W - 1
  BY WidthAssumption DEF Word
<1>2. x * W <= (W - 1) * W
  BY <1>1
<1>3. (W - 1) * W = W * W - W
  BY <1>1
<1>4. x * W \in Nat /\ W * W \in Nat
  BY <1>1
<1> QED
  BY <1>1, <1>2, <1>3, <1>4

\* Two headers have one digest only if they agree on the identification, the
\* fragment, the length and the checksum: packets that differ in one of them
\* are never taken for copies of each other (Ip4DupDetector::makeUniqueId).
THEOREM DigestTellsHeaders ==
  ASSUME NEW h \in Ip4Header, NEW i \in Ip4Header, makeUniqueId(h) = makeUniqueId(i)
  PROVE  /\ h.ident = i.ident /\ h.fragment = i.fragment
         /\ h.length = i.length /\ h.checksum = i.checksum
<1> DEFINE high(x) == x.ident * W + x.fragment
           low(x) == x.length * W + x.checksum
<1>1. \A x \in {h, i} : x.ident \in Word /\ x.fragment \in Word /\ x.length \in Word /\ x.checksum \in Word
  BY DEF Ip4Header
<1>2. \A x \in {h, i} : high(x) \in 0 .. W * W - 1 /\ low(x) \in 0 .. W * W - 1
  BY <1>1, TwoWords
<1>3. W \in Nat \ {0} /\ W * W \in Nat \ {0}
  BY WidthAssumption
<1>4. high(h) * (W * W) + low(h) = high(i) * (W * W) + low(i)
  BY DEF makeUniqueId
<1>5. high(h) = high(i) /\ low(h) = low(i)
  <2> HIDE DEF high, low
  <2>1. high(h) \in Nat /\ high(i) \in Nat
    BY <1>2, <1>3
  <2> QED
    BY <1>2, <1>3, <1>4, <2>1, Digits
<1>6. h.ident = i.ident /\ h.fragment = i.fragment
  <2>1. h.ident \in Nat /\ i.ident \in Nat /\ h.fragment \in 0 .. W - 1 /\ i.fragment \in 0 .. W - 1
    BY <1>1, <1>3 DEF Word
  <2>2. h.ident * W + h.fragment = i.ident * W + i.fragment
    BY <1>5
  <2> QED
    BY <1>3, <2>1, <2>2, Digits
<1>7. h.length = i.length /\ h.checksum = i.checksum
  <2>1. h.length \in Nat /\ i.length \in Nat /\ h.checksum \in 0 .. W - 1 /\ i.checksum \in 0 .. W - 1
    BY <1>1, <1>3 DEF Word
  <2>2. h.length * W + h.checksum = i.length * W + i.checksum
    BY <1>5
  <2> QED
    BY <1>3, <2>1, <2>2, Digits
<1> QED
  BY <1>6, <1>7

\* Two packets share a table of the detector only if both addresses agree.
THEOREM PairTellsAddresses ==
  ASSUME NEW h \in Ip4Header, NEW i \in Ip4Header, SrcDestPair(h) = SrcDestPair(i)
  PROVE  h.src_addr = i.src_addr /\ h.dest_addr = i.dest_addr
<1>1. W \in Nat \ {0} /\ W * W \in Nat \ {0}
  BY WidthAssumption
<1>2. \A x \in {h, i} : x.src_addr \in 0 .. W * W - 1 /\ x.dest_addr \in 0 .. W * W - 1
  BY DEF Ip4Header
<1>3. h.src_addr \in Nat /\ i.src_addr \in Nat
  BY <1>1, <1>2
<1> QED
  BY <1>1, <1>2, <1>3, Digits DEF SrcDestPair
=============================================================================
