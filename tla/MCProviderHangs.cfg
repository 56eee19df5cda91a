SPECIFICATION FairSpec
CONSTANTS
  MaxAudio = 2
  MaxSize = 1
PROPERTIES TimesOut
