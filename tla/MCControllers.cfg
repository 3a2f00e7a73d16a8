SPECIFICATION InputSpec
CONSTANTS
  CLOCK = 16
  FIRST = 5
  AGAIN = 2
  DEBOUNCE = 1
  Points <- MCPoints
  Scenes <- MCScenes
PROPERTY TailsAreSilent
PROPERTY MenusObey
PROPERTY RepeatsOnTime
