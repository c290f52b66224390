\* One packet over a UDP bearer, whose socket shares its address with another
\* tunnel's, and a faulty TCP one; each gateway may restart, and one is
\* terminated by a bearer that it refuses.
CONSTANTS
  og = og  og2 = og2  ng = ng  tun = tun  tun2 = tun2  b1 = b1  b2 = b2  b3 = b3  b4 = b4
  p1 = p1  p2 = p2  p3 = p3
  NoDev = NoDev  NoPkt = NoPkt
  Gateway = {og, ng}
  Dev = {tun, tun2}
  Bearer = {b1, b2, b3, b4}
  Addr = {b1, b2, b4}
  Packet = {p1}
  Order <- LastOrder
  Ifname <- LastIfname
  Remote <- LastAddr
  Peer <- PairPeer
  Proto <- LastProto
  Sockets <- LastSockets
  Junk = {}
  Faulty = {b2}
  Source <- PairSource
  Flow <- OneFlow
  UniqueId <- Digest
  Icmp = {}
  W = 4
  DUP_HISTORY_LEN = 1
  MaxReadFail = 1
  MaxBoot = 1
SPECIFICATION Spec
INVARIANTS TypeOK AnnouncedOnce TablesAgree
PROPERTIES PathSpec
CHECK_DEADLOCK FALSE
