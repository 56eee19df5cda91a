SPECIFICATION Spec
CONSTANTS
  MaxPackets = 1
INVARIANTS CauseIsCarried
