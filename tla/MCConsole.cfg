\* Two controls, touched in any order, and a change of the page.
CONSTANTS
  Controls = {1, 2}
  RequiredSkips = 1
  MaxEvents = 1
SPECIFICATION FairSpec
INVARIANT BuffersAgree
INVARIANT TouchAgreesWithPicture
PROPERTY ChromeReachesPanel
