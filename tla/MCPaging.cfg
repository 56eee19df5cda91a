SPECIFICATION FairSpec
CONSTANTS
  Attempts = 3
  RetryDelay = 2
  Floods = {1, 3, 4}
  VoiceAttempts = 3
  VoiceDelay = 2
INVARIANTS TypeOK FloodHonored CancelCostsOne NoCallLeftUp SuccessIsStreamed
           FailureIsLoud CallIsNotUndone TempRemoved AnsweredOnce UploadedOnce
           FallbackStandsIn
PROPERTIES PageSpec PageEnds
