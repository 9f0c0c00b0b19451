SPECIFICATION StreamSpec
CONSTANTS
  c1 = c1  c2 = c2  s1 = s1  p1 = p1
  NoSock = NoSock  NoPeer = NoPeer
  Clients <- TwoClients
  Socks <- OneSock
  Peers <- OnePeer
  Timeouts <- OneTimeout
  Forever = 99  DefTimeout = 0
  MaxAge = 1
  MaxPending = 1
  RxSize = 2
  ReadSizes <- UpToThree
  MaxBytes = 2
INVARIANTS BytesInOrder
PROPERTIES PollConnectTruthful ConnectResolves
