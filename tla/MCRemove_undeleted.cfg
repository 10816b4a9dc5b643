SPECIFICATION MCSpec
CONSTANTS
  movie = movie
  series = series
  pack = pack
  other = other
  usenet = usenet
  NoTitle = NoTitle
  NoTorrent = NoTorrent
  Titles = {movie, series}
  Movies = {movie}
  Downloads = {pack, other, usenet}
  Torrents = {pack, other}
  MaxRuns = 2
INVARIANT UndeletedIsThere
CHECK_DEADLOCK FALSE
