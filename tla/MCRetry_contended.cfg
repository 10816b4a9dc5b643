SPECIFICATION Spec
CONSTANTS
  best = best
  worse = worse
  rival = rival
  e1 = e1
  e2 = e2
  NoPack = NoPack
  Episodes = {e1, e2}
  Packs = {best, worse}
  Rivals = {rival}
  Earlier = {}
  Recognized = {best}
  Rank <- MCRank
  Interactive = FALSE
  FaultyCalls = TRUE
  OldRanks = {0}
  MaxPolls = 1
SYMMETRY MCEpisodeSymmetry
INVARIANT ImportedIsTrue
