SPECIFICATION AllSpec
CONSTANTS
  Originals = {"a", "b"}
  Size <- Sizes
  IPFRAGTTL = 2
  HLen = 1
  LinkHdr = 1
  if_mtu = 6
  MSize = 8
  MBUF_THRESH = 2
  IdMod = 2
  MaxFragments = 4
  MaxPacket = 9
  Macs = {"m1", "m2"}
  NB_BOOTP_CLIENTS = 2
  MaxRequests = 4
  Clients = {"c1", "c2"}
  TFTP_SESSIONS_MAX = 1
  BlockSize = 2
  TFTP_BLOCKSIZE_MAX = 3
  Asked <- SomeAsked
  FileLen = 4
  IDLE = 1
  MaxTicks = 2
  MaxSent = 5
  Guests = {"g1", "g2"}
  NDP_TABLE_SIZE = 1
  Interval = 1
  EXPIRY = 1
  Ports <- SomePorts
  Forwarded <- OneForward
  Dests <- SomeDests
  SO_EXPIRE = 3
  SO_EXPIREFAST = 2
  MaxPackets = 2
INVARIANTS FragmentsWhole NothingLeaked  ServedExactly NeighborsTrue
  AnswersNamed ErrorsQuote
PROPERTIES RouterAdvertised SocketsExpire
CHECK_DEADLOCK FALSE
