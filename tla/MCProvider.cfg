SPECIFICATION FairSpec
CONSTANTS
  MaxAudio = 2
  MaxSize = 3
INVARIANTS TypeOK WholeAudio DirRemoved
PROPERTIES ReturnsUnlessHeld
