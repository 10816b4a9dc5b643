SPECIFICATION Spec
CONSTANTS
  best = best
  worse = worse
  rival = rival
  e1 = e1
  e2 = e2
  NoPack = NoPack
  Episodes = {e1, e2}
  Packs = {best}
  Rivals = {}
  Earlier = {best}
  Recognized = {}
  Rank <- MCRank
  Interactive = FALSE
  FaultyCalls = FALSE
  OldRanks = {}
  MaxPolls = 1
SYMMETRY MCEpisodeSymmetry
INVARIANT ImportedIsTrue
