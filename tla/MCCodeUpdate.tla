---------------------------- MODULE MCCodeUpdate ----------------------------
(***************************************************************************)
(* Small instances of CodeUpdate for TLC: two releases after main.          *)
(***************************************************************************)
EXTENDS CodeUpdate
=============================================================================
