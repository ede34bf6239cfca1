CONSTANTS
  N = 2
  Socs <- StartSocs
  BusyRelease = FALSE
  MaxStarts = 2
  MaxCalls = 1
  MaxModes = 0
SPECIFICATION Spec
INVARIANTS OwnSlot OwnStack DeadIsOut StartReportsAll
PROPERTIES InFlightPreserved
