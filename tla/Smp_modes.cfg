CONSTANTS
  N = 1
  Socs <- ModeSocs
  BusyRelease = FALSE
  MaxStarts = 1
  MaxCalls = 2
  MaxModes = 2
SPECIFICATION FairSpec
INVARIANTS CallsSound
PROPERTIES CallTaken
