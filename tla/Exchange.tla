------------------------------- MODULE Exchange -------------------------------
(***************************************************************************)
(* What one request of the HTTP client promises its caller, and nothing of  *)
(* how: a server runs a request at most once for each time it was sent, one *)
(* that may not be repeated at most once more than connections were reset,  *)
(* success is told only of a request that ran, and nothing is sent after    *)
(* the caller has given up or has been told.                                *)
(***************************************************************************)
EXTENDS Integers

VARIABLES
  repeatable,   \* running the request twice is the same as once
  sent, runs, resets,
  stopped,      \* the caller has given up
  told          \* what the caller was told

vars == <<repeatable, sent, runs, resets, stopped, told>>

Init ==
  /\ repeatable \in BOOLEAN
  /\ sent = 0 /\ runs = 0 /\ resets = 0 /\ stopped = FALSE /\ told = "nothing"

Send ==
  /\ told = "nothing" /\ ~stopped
  /\ sent' = sent + 1
  /\ UNCHANGED <<repeatable, runs, resets, stopped, told>>

\* The server may run what it was sent at any time, even after the caller was
\* told.
Run ==
  /\ runs < sent /\ (repeatable \/ runs <= resets)
  /\ runs' = runs + 1
  /\ UNCHANGED <<repeatable, sent, resets, stopped, told>>

Tell ==
  /\ told = "nothing"
  /\ told' \in {"done", "failed", "aborted"}
  /\ told' = "done" => runs > 0
  /\ told' = "aborted" => stopped
  /\ UNCHANGED <<repeatable, sent, runs, stopped>>

\* A reset connection; it may be the failure the caller is told of.
Reset ==
  /\ resets < sent /\ resets' = resets + 1
  /\ \/ UNCHANGED told
     \/ told = "nothing" /\ told' \in {"failed", "aborted"}
        /\ (told' = "aborted" => stopped)
  /\ UNCHANGED <<repeatable, sent, runs, stopped>>

Stop ==
  /\ ~stopped /\ stopped' = TRUE
  /\ UNCHANGED <<repeatable, sent, runs, resets, told>>

Next == Send \/ Run \/ (Tell /\ UNCHANGED resets) \/ Reset \/ Stop

Spec == Init /\ [][Next]_vars
=============================================================================
