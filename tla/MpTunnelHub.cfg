\* Two operator gateways number their packets alike; nothing fails.
CONSTANTS
  og = og  og2 = og2  ng = ng  tun = tun  tun2 = tun2  b1 = b1  b2 = b2  b3 = b3  b4 = b4
  p1 = p1  p2 = p2  p3 = p3
  NoDev = NoDev  NoPkt = NoPkt
  Gateway = {og, og2, ng}
  Dev = {tun, tun2}
  Bearer = {b1, b2}
  Addr = {b1, b2}
  Packet = {p1, p2}
  Order <- HubOrder
  Ifname <- HubIfname
  Remote <- OwnAddr
  Peer <- HubPeer
  Proto <- AllUdp
  Sockets <- OwnSockets
  Junk = {}
  Faulty = {}
  Source <- HubSource
  Flow <- OneFlow
  UniqueId <- Digest
  Icmp = {}
  W = 4
  DUP_HISTORY_LEN = 1
  MaxReadFail = 0
  MaxBoot = 0
SPECIFICATION Spec
PROPERTIES OnlyDuplicatesDiscarded
CHECK_DEADLOCK FALSE
