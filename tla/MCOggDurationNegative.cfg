SPECIFICATION Spec
CONSTANTS
  MaxInt = 127
  Second = 10
  SampleRate = 8
  MaxTail = 2
  PreSkips = {0, 3, 100}
INVARIANTS NeverNegative
