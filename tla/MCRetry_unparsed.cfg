SPECIFICATION FairSpec
CONSTANTS
  best = best
  worse = worse
  rival = rival
  e1 = e1
  e2 = e2
  NoPack = NoPack
  Episodes = {e1, e2}
  Packs = {best, worse}
  Rivals = {}
  Earlier = {worse}
  Recognized = {}
  Rank <- MCRank
  Interactive = TRUE
  FaultyCalls = TRUE
  OldRanks = {2}
  MaxPolls = 1
INVARIANTS
  UnparsedPacksIntact
  RollbackIsComplete
  ReplacedFilesAreRecycled
  ImportsOnlySoundPacks
PROPERTIES
  RankNeverDrops
  Terminates
