SPECIFICATION Spec
CONSTANTS
  r1 = r1
  r2 = r2
  Waiters <- MCReaders
  Wants <- MCWants
  TxCapacity = 2
  RxCapacity = 1
  SeqSpace = 16
  Mss = 2
  MaxRetransmissions = 1
  Isn = 13
  PeerIsn = 14
  AppBytes = 2
  PeerBytes = 2
  PeerWindows <- MCWindows
  IpResults <- MCIp
  PeerRooms <- MCRooms
  MaxToHost = 2
SYMMETRY MCSymmetry
CONSTRAINT OneLongStream
INVARIANTS StreamsAreIntact EofAfterAllData CleanCloseDelivers WindowFitsRing UnackedIsPending WaitersAreWoken CloseCompletes
CHECK_DEADLOCK FALSE
