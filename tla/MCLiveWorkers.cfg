CONSTANTS
  HlsPlayers = {h1}
  DashPlayers = {d1}
  IdleTimeout = 2
  MaxAge = 1
  MaxStall = 1
  MaxLeaked = 1
  MaxStops = 1
SPECIFICATION WorkersFairSpec
INVARIANTS
  OneWorker
  ServedIsTracked
  
PROPERTIES
  KeepsPlaying
  IdleStops
