SPECIFICATION Spec
CONSTANTS
  QUEUE = 2
  EVENTS = 2
  BATCH = 2
  Pads <- MCPads
  Scenes <- MCScenes
INVARIANT OneCallOneAnswer
INVARIANT PixelsAreLent
INVARIANT NothingHeldAfter
PROPERTY InputSettles
PROPERTY SessionEnds
