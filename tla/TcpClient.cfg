SPECIFICATION Spec
CONSTANTS
  c1 = c1  c2 = c2  c3 = c3  s1 = s1  s2 = s2  p1 = p1  p2 = p2
  NoSock = NoSock  NoPeer = NoPeer
  Clients <- TwoClients
  Socks <- TwoSocks
  Peers <- TwoPeers
  Timeouts <- TwoTimeouts
  Forever = 99  DefTimeout = 0
  MaxAge = 1
  MaxPending = 1
SYMMETRY Symmetry
INVARIANTS TypeOK DescriptorsOwned MembersAgree EndpointFresh
PROPERTIES ViewStaysWithConnection
