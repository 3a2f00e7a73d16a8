SPECIFICATION Spec
CONSTANTS
  Roms = {r1, r2}
  BuiltIn = BuiltIn
  None = None
  MaxPlay = 2
  Profiles = {{"read"}}
PROPERTY DurableRecord
