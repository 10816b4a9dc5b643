SPECIFICATION Spec
CONSTANTS
  home = home
  away = away
  oldPassword = oldPassword
  newPassword = newPassword
  oldToken = oldToken
  newToken = newToken
  Nothing = Nothing
  Inputs <- MCOneInput
  Commands = {"setup"}
  Remnants = {}
  HalfSignIns = FALSE
  RepeatedPosts = FALSE
  MaxRuns = 2
  MaxFaults = 1
INVARIANT LibrariesWatched
