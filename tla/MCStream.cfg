SPECIFICATION FairSpec
CONSTANTS
  MaxPackets = 4
INVARIANTS TypeOK PlayedToTheEnd FfmpegEnds
PROPERTIES GoroutinesEnd CancelReturns
