----------------------------- MODULE MCHttpClient -----------------------------
(***************************************************************************)
(* Instances of HttpClient for TLC.                                         *)
(***************************************************************************)
EXTENDS HttpClient

MCWishes == {0, 2, 9}
MCSpec == Init /\ [][Next]_vars /\ WF_vars(LocalStep) /\ WF_vars(Tick)
=============================================================================
