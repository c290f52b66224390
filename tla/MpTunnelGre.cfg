\* Three packets, two of them ICMP, over two GRE bearers that work.
CONSTANTS
  og = og  og2 = og2  ng = ng  tun = tun  tun2 = tun2  b1 = b1  b2 = b2  b3 = b3  b4 = b4
  p1 = p1  p2 = p2  p3 = p3
  NoDev = NoDev  NoPkt = NoPkt
  Gateway = {og, ng}
  Dev = {tun}
  Bearer = {b1, b2}
  Addr = {b1, b2}
  Packet = {p1, p2, p3}
  Order <- PairOrder
  Ifname <- PairIfname
  Remote <- OwnAddr
  Peer <- PairPeer
  Proto <- AllGre
  Sockets <- OwnSockets
  Junk = {}
  Faulty = {}
  Source <- PairSource
  Flow <- OneFlow
  UniqueId <- Digest
  Icmp <- IcmpPackets
  W = 4
  DUP_HISTORY_LEN = 1
  MaxReadFail = 0
  MaxBoot = 0
SPECIFICATION Spec
INVARIANTS IcmpAnnouncedOnce
PROPERTIES LoneDiscards
CHECK_DEADLOCK FALSE
