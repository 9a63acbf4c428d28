SPECIFICATION RoutingSpec
CONSTANTS
  G = G
  H = H
  C = C
  S1 = S1
  S2 = S2
  F = F
  Hub = H
  Controller = C
  Mover = F
  Paired = S1
  None = None
  All = All
  Static <- MCStatic
  Leaves <- MCLeaves
  Senders <- MCSenders
  Places <- MCPlaces
  Trunk <- MCTrunk
  Ttl <- MCTtl
  Beaters <- FBeats
  Talks <- GTalksToF
  MaxTalk = 1
  MaxBeats = 1
  MaxMoves = 1
  A = A
  B = B
  X = X
  Y = Y
  Nobody = Nobody
  Addrs <- MCAddrs
  Spokes <- MCSpokes
  Home <- MCHome
  Slots <- MCSlots
  Peers = 2
  SeenMax = 1
  Chatty <- MCAddrs
  MaxOthers = 0
  Timeout = 2
INVARIANTS PairedNoRevisit RoutesRight
PROPERTIES MoverIsFound MovedTalkEnds ScarceServed
