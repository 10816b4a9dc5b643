SPECIFICATION FairSpec
CONSTANTS
  home = home
  away = away
  oldPassword = oldPassword
  newPassword = newPassword
  oldToken = oldToken
  newToken = newToken
  Nothing = Nothing
  Inputs <- MCDomains
  Commands = {"setup", "rotate", "reset"}
  Remnants <- MCRemnants
  HalfSignIns = FALSE
  RepeatedPosts = TRUE
  MaxRuns = 3
  MaxFaults = 2
INVARIANT OnlyFaultsFail
PROPERTY RetriedSetupSucceeds
