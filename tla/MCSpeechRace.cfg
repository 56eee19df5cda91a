SPECIFICATION Spec
CONSTANTS
  t0 = t0
  t1 = t1
  t2 = t2
  Texts <- MCTexts
  Size <- MCSize
  PreflightText = t0
  Tone = Tone
  MaxBytes = 2
  TTL = 0
  PreflightAttempts = 2
  Preflights = TRUE
  MaxCrashes = 0
  MaxTime = 2
INVARIANTS Playable
