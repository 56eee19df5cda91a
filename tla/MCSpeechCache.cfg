SPECIFICATION FairSpec
CONSTANTS
  t0 = t0
  t1 = t1
  t2 = t2
  Texts <- MCTexts
  Size <- MCSize
  PreflightText = t0
  Tone = Tone
  MaxBytes = 3
  TTL = 1
  PreflightAttempts = 2
  Preflights = TRUE
  MaxCrashes = 1
  MaxTime = 3
INVARIANTS TypeOK NeverTruncated WithinLimit PlayableAlone
PROPERTIES SpeakReturns
