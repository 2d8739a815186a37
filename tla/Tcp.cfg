SPECIFICATION Spec
CONSTANTS
  SeqSpace = 32
  SPACE = 2
  MSS = 1
  MINSEG = 1
  TCP_MAXWIN = 2
  TCP_MAXRXTSHIFT = 1
  TCPREXMTTHRESH = 1
  ISS = 30
  Escapes = {2}
  Streams <- SomeStreams
  GuestIss <- TwoLives
  Wins = {0, 2}
  OpenMss = 1
  ListenMss = 0
  MaxQueue = 2
INVARIANTS SenderTrue TimersCover WindowHonoured  GuestGetsStream
CHECK_DEADLOCK FALSE
