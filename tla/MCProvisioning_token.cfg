SPECIFICATION Spec
CONSTANTS
  home = home
  away = away
  oldPassword = oldPassword
  newPassword = newPassword
  oldToken = oldToken
  newToken = newToken
  Nothing = Nothing
  Inputs <- MCTokens
  Commands = {"setup"}
  Remnants = {}
  HalfSignIns = FALSE
  RepeatedPosts = FALSE
  MaxRuns = 2
  MaxFaults = 0
INVARIANT TokenReachesDecypharr
