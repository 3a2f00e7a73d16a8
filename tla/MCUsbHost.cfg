\* Three devices one after the other, every call may fail.
CONSTANTS
  Configs <- MCConfigs
  MaxInterfaces = 3
  MaxErrors = 3
  MaxPlugs = 3
SPECIFICATION FairSpec
INVARIANT NeverFreedInFlight
INVARIANT HostIsInOrder
INVARIANT ReportsAreUnderstood
PROPERTY EveryDeviceHasItsTurn
