SPECIFICATION Spec
CONSTANTS
  home = home
  away = away
  oldPassword = oldPassword
  newPassword = newPassword
  oldToken = oldToken
  newToken = newToken
  Nothing = Nothing
  Inputs <- MCModes
  Commands = {"setup", "config"}
  Remnants = {}
  HalfSignIns = FALSE
  RepeatedPosts = FALSE
  MaxRuns = 3
  MaxFaults = 1
INVARIANT HardwareReachesContainer
