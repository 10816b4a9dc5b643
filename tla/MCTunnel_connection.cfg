SPECIFICATION MCSpec
CHECK_DEADLOCK FALSE
CONSTANTS
  sonarr = sonarr
  radarr = radarr
  Ports = {sonarr, radarr}
  MaxMoves = 3
INVARIANTS InterruptIsNoError
PROPERTIES InterruptEnds ReadyIsServed
