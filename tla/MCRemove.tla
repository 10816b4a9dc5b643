------------------------------ MODULE MCRemove ------------------------------
(***************************************************************************)
(* Small instances of Remove for TLC: one title in each service, two        *)
(* torrents and a download that is not a torrent.                           *)
(***************************************************************************)
EXTENDS Remove, TLC

CONSTANTS movie, series, pack, other, usenet

\* To begin with, only the movie has an older download, and a record in Seerr.
MCInit == Init /\ usenet \notin history[series] /\ media = {movie}
MCSpec == MCInit /\ [][Next]_vars /\ WF_vars(CliStep)
=============================================================================
