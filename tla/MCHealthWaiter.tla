--------------------------- MODULE MCHealthWaiter ---------------------------
(***************************************************************************)
(* A small stack for TLC: two required services and an optional one.        *)
(***************************************************************************)
EXTENDS HealthWaiter, TLC

CONSTANTS jellyfin, sonarr, flaresolverr

MCRequiredSymmetry == Permutations(Required)
=============================================================================
