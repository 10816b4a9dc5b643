------------------------------ MODULE MCRetry ------------------------------
(***************************************************************************)
(* Small instances of Retry for TLC: two episodes, a better and a worse     *)
(* pack, and a rival whose quality lies above both.                         *)
(***************************************************************************)
EXTENDS Retry, TLC

CONSTANTS best, worse, rival, e1, e2

MCRank == [h \in Hashes |-> CASE h = best -> 3 [] h = worse -> 1 [] OTHER -> 4]
MCEpisodeSymmetry == Permutations(Episodes)
=============================================================================
