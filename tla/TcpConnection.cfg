\* Two messages, from either end; two failures of the network, and connections
\* enough to recover from them.
CONSTANTS
  OutLen = 1
  InLen = 1
  MaxMsg = 2
  MaxConn = 3
  MaxFault = 2
SPECIFICATION FairSpec
INVARIANTS TypeOK InOrderOnce Lossless
PROPERTIES ClientDrains ChannelSpec
