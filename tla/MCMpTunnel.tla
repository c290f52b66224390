----------------------------- MODULE MCMpTunnel -----------------------------
(***************************************************************************)
(* Instances of MpTunnel.                                                  *)
(*   Pair:   an operator gateway og and a network gateway ng joined by one *)
(*           tunnel of bearers b1 (UDP) and b2 (TCP).                      *)
(*   Hub:    og and og2, each with a tunnel of its own to ng.              *)
(*   Twin:   og and ng joined by two tunnels of one bearer each.           *)
(*   Last:   Pair, and another tunnel of ng: its UDP bearer b4 shares its  *)
(*           local address with b1, and its TCP bearer b3 has the remote   *)
(*           address of b1, so that its refusal terminates the process.    *)
(* In each, hosts write packets behind the operator gateways.              *)
(***************************************************************************)
EXTENDS MpTunnel, IpPacketParser

CONSTANTS og, og2, ng, tun, tun2, b1, b2, b3, b4, p1, p2, p3

\* Packets between one pair of hosts: p1 and p2 are the fragments of one ICMP
\* datagram, p3 is a UDP datagram.
Header(p) ==
  [length |-> 1, ident |-> IF p = p3 THEN 2 ELSE 1, fragment |-> IF p = p2 THEN 1 ELSE 0,
   checksum |-> IF p = p2 THEN 2 ELSE 3, protocol |-> IF p = p3 THEN 17 ELSE 1,
   src_addr |-> 5, dest_addr |-> 6]
OneFlow == [p \in Packet |-> SrcDestPair(Header(p))]
Digest == [p \in Packet |-> makeUniqueId(Header(p))]
IcmpPackets == {p \in Packet : isIcmp(Header(p))}

\* Remote addresses, named after the bearer that has them, and local ones.
OwnAddr == [g \in Gateway |-> [b \in Bearer |-> b]]
OwnSockets == [g \in Gateway |-> [b \in Bearer |-> {b}]]

PairOrder == [g \in Gateway |-> <<b1, b2>>]
PairIfname == [g \in Gateway |-> [b \in Bearer |-> tun]]
PairPeer == [g \in Gateway |-> [b \in Bearer |-> IF g = og THEN ng ELSE og]]
PairSource == [p \in Packet |-> [gw |-> og, dev |-> tun]]
UdpTcp == [b \in Bearer |-> IF b = b2 THEN "tcp" ELSE "udp"]
AllUdp == [b \in Bearer |-> "udp"]
AllGre == [b \in Bearer |-> "gre"]

HubOrder == [g \in Gateway |-> CASE g = og -> <<b1>>
                                 [] g = og2 -> <<b2>>
                                 [] g = ng -> <<b1, b2>>]
HubIfname == [g \in Gateway |-> [b \in Bearer |->
                IF b = (IF g = og2 THEN b1 ELSE b2) THEN tun2 ELSE tun]]
HubPeer == [g \in Gateway |-> [b \in Bearer |->
                IF g # ng THEN ng ELSE IF b = b1 THEN og ELSE og2]]
HubSource == [p \in Packet |-> [gw |-> IF p = p1 THEN og ELSE og2, dev |-> tun]]

TwinIfname == [g \in Gateway |-> [b \in Bearer |-> IF b = b1 THEN tun ELSE tun2]]
TwinSource == [p \in Packet |-> [gw |-> og, dev |-> IF p = p1 THEN tun ELSE tun2]]

LastOrder == [g \in Gateway |-> IF g = og THEN <<b1, b2>> ELSE <<b1, b2, b4, b3>>]
LastIfname == [g \in Gateway |-> [b \in Bearer |-> IF b \in {b1, b2} THEN tun ELSE tun2]]
LastAddr == [g \in Gateway |-> [b \in Bearer |-> IF b = b3 THEN b1 ELSE b]]
LastProto == [b \in Bearer |-> IF b \in {b1, b4} THEN "udp" ELSE "tcp"]
LastSockets == [g \in Gateway |-> [b \in Bearer |->
                  IF g = ng /\ b \in {b1, b4} THEN {b1, b4} ELSE {b}]]
=============================================================================
