SPECIFICATION Spec
CONSTANTS
  d1 = d1  d2 = d2  d3 = d3  u1 = u1  u2 = u2  h1 = h1
  NoDesc = NoDesc  NoHost = NoHost  Group = Group
  Descs <- ThreeDescs
  Udps <- TwoUdps
  Hosts <- OneHost
  MaxClients = 2  MaxConns = 2
  MTU = 3
SYMMETRY Symmetry
CONSTRAINT Apart
INVARIANTS DescriptorsExclusive MembershipsMatch DatagramAsBuilt ReceivedOnOwnSocket
PROPERTIES HandedInOrder
