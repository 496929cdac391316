CONSTANTS
  Playlists <- AllPlaylists
  Clips <- LiveClips
  WindowSize = 6
  MaxDelay = 2
  MaxTime = 40
  MaxLives = 2
SPECIFICATION LoopSpec
INVARIANTS
  LoopsCounted
  EndsAtLiveEdge
  SpansWindow
PROPERTIES
  SlidingWindow
CHECK_DEADLOCK FALSE
