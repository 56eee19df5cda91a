SPECIFICATION FairSpec
CONSTANTS
  MaxEdits = 4
  MaxFaults = 2
INVARIANTS TypeOK NoBotRings PeerIsPageable
PROPERTIES StartsAgain
