SPECIFICATION FairSpec
CONSTANTS
  jellyfin = jellyfin
  sonarr = sonarr
  flaresolverr = flaresolverr
  Required = {jellyfin}
  Optional = {flaresolverr}
  TimeoutTicks = 8
  IntervalTicks = 1
  GraceTicks = 3
  MaxCall = 1
  FaultyCalls = TRUE
  Never = Never
INVARIANTS OptionalWasTried EndsInTime
PROPERTIES Terminates
