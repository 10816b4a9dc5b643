------------------------------- MODULE MCTunnel -------------------------------
(***************************************************************************)
(* An instance of Tunnel for TLC.  The ports of the catalogue are treated   *)
(* alike, so a few stand for the five; the temporal properties rule out     *)
(* symmetry.                                                                *)
(***************************************************************************)
EXTENDS Tunnel, TLC

CONSTANTS sonarr, radarr

MCSpec == TunnelInit /\ [][TunnelNext]_tunnel /\ Fairness
=============================================================================
