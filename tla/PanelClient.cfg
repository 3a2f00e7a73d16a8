\* Two rows, transmissions may fail; the client ends after a power-off or a failure.
CONSTANTS
  Height = 2
  Passes = 3
  TransmitMayFail = TRUE
  Clears = 3
  Hold = 3
  Copies = 2
SPECIFICATION FairSpec
INVARIANT NoTearing
INVARIANT SettledMeansShown
INVARIANT DrivesComplete
PROPERTY WaitsEnd
CHECK_DEADLOCK FALSE
