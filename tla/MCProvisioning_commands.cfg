SPECIFICATION Spec
CONSTANTS
  home = home
  away = away
  oldPassword = oldPassword
  newPassword = newPassword
  oldToken = oldToken
  newToken = newToken
  Nothing = Nothing
  Inputs <- MCConfigs
  Commands = {"setup", "rotate", "config", "redeploy", "reset", "start", "stop"}
  Remnants <- MCRemnants
  HalfSignIns = TRUE
  RepeatedPosts = TRUE
  MaxRuns = 3
  MaxFaults = 2
INVARIANT SuccessMeansConfigured
INVARIANT RotationReachesAll
INVARIANT ResetNeverStuck
INVARIANT ConnectionsUseLiveKey
INVARIANT SeedsHoldServiceKeys
PROPERTY SecretsSavedFirst
