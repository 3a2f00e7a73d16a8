SPECIFICATION Spec
CONSTANTS
  Roms = {r1, r2}
  BuiltIn = BuiltIn
  None = None
  MaxPlay = 2
  Profiles = {{"read", "write", "mount", "memory"}, {"write", "mount"}, {"read"}, {"memory"}}
SYMMETRY Symmetry
INVARIANT NothingMixedUp
INVARIANT ProgressIsSafe
PROPERTY ProgressIsKept
PROPERTY LaunchGoesBack
