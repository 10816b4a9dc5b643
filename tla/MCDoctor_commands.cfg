SPECIFICATION MCSpec
CHECK_DEADLOCK FALSE
CONSTANTS
  pack = pack
  movie = movie
  other = other
  Items = {pack, movie, other}
  AppOf <- MCAppOf
  Scenarios <- MCSituations
  MaxFixItems = 2
  Threshold = 1
  MaxReinserted = 2
INVARIANTS AllPassedIsHealthy SuccessOverlooksOnlyUnread ReportIsTrue
PROPERTY RemovesOnlyApproved
