\* Two tunnels of one working bearer each between the same gateways.
CONSTANTS
  og = og  og2 = og2  ng = ng  tun = tun  tun2 = tun2  b1 = b1  b2 = b2  b3 = b3  b4 = b4
  p1 = p1  p2 = p2  p3 = p3
  NoDev = NoDev  NoPkt = NoPkt
  Gateway = {og, ng}
  Dev = {tun, tun2}
  Bearer = {b1, b2}
  Addr = {b1, b2}
  Packet = {p1, p2}
  Order <- PairOrder
  Ifname <- TwinIfname
  Remote <- OwnAddr
  Peer <- PairPeer
  Proto <- UdpTcp
  Sockets <- OwnSockets
  Junk = {}
  Faulty = {}
  Source <- TwinSource
  Flow <- OneFlow
  UniqueId <- Digest
  Icmp = {}
  W = 4
  DUP_HISTORY_LEN = 1
  MaxReadFail = 0
  MaxBoot = 0
SPECIFICATION FairSpec
PROPERTIES AllTunnelsServed
CHECK_DEADLOCK FALSE
