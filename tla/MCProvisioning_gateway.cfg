SPECIFICATION Spec
CONSTANTS
  home = home
  away = away
  oldPassword = oldPassword
  newPassword = newPassword
  oldToken = oldToken
  newToken = newToken
  Nothing = Nothing
  Inputs <- MCDomains
  Commands = {"setup"}
  Remnants = {}
  HalfSignIns = FALSE
  RepeatedPosts = FALSE
  MaxRuns = 3
  MaxFaults = 1
INVARIANT GatewayServesConfig
