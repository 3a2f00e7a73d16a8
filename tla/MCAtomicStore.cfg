\* Every SD call may fail, SD.exists may or may not miss files, power may go anywhere;
\* a catalog of two ROMs, two sound engines, configuration files of three lines.
CONSTANTS
  v1 = v1
  v2 = v2
  v3 = v3
  Values <- MCValues
  Absent = Absent
  Torn = Torn
  MAX_ROMS = 2
  ENGINES = 2
  CONFIG_LINES = 3
SPECIFICATION Spec
INVARIANT StoreIsSound
INVARIANT CardIsReadRight
PROPERTY KeepsThePromise
