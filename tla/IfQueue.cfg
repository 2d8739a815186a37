SPECIFICATION FairSpec
CONSTANTS
  MBUF_THRESH = 2
  MSize = 4
  Sockets = {tel, ftp}
  LowDelay = {tel}
  Nobody = Nobody
  Guests = {g1}
  Macs = {m1, m2}
  TableSize = 1
  HogQueued = 2
  HogSent = 1
  GuestOf <- OneGuest
  Life = 1
  MaxPackets = 4
INVARIANTS QueuesAccounted SentInOrder
PROPERTY QueuesDrain
CHECK_DEADLOCK FALSE
