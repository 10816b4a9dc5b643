------------------------------ MODULE MCDoctor ------------------------------
(***************************************************************************)
(* Instances of Doctor for TLC.  A scenario gives the configuration, the    *)
(* sets of conditions a run may start with, the conditions that may come or *)
(* go meanwhile, how often anything may happen, and the queues.             *)
(***************************************************************************)
EXTENDS Doctor, TLC

CONSTANTS pack, movie, other

MCAppOf == (pack :> "sonarr") @@ (movie :> "radarr") @@ (other :> "sonarr")

Remote == [command |-> "doctor", fix |-> FALSE, answer |-> "asked", storage |-> TRUE,
           mode |-> "remote", transcoding |-> "hardware", opensubtitles |-> TRUE,
           jellyfinKey |-> TRUE, realDebrid |-> TRUE]
Local  == [Remote EXCEPT !.storage = FALSE, !.mode = "local", !.transcoding = "cpu",
                         !.opensubtitles = FALSE, !.realDebrid = FALSE]
Fixing(answer) == [Remote EXCEPT !.fix = TRUE, !.answer = answer]

Idle  == [k \in Items |-> "absent"]
Stuck == [k \in Items |-> "stuck"]
One(S) == {{}} \cup {{x} : x \in S}
Two(S) == {{x, y} : x, y \in S} \cup {{}}

Scenario(c, from, flaky, times, queues) ==
  [config |-> c, start |-> from, may |-> flaky, chances |-> times, queues |-> queues]

\* Any condition from the beginning; a few that come and go.
Lasting == {Scenario(c, One(Conditions), {}, 0, {Idle}) :
              c \in {Remote, Local, [Local EXCEPT !.command = "check"],
                     [Remote EXCEPT !.jellyfinKey = FALSE],
                     [Remote EXCEPT !.command = "check"]}}
Passing == {Scenario(Remote, Two(some), some, 2, {Idle}) :
              some \in {{<<"docker", "unreachable">>, <<"sonarr", "down">>,
                          <<"flaresolverr", "starting">>, <<"decypharr", "silent">>,
                          <<"log", "unreadable">>, <<"radarr", "silent">>}}}
MCChecks == Lasting \cup Passing

MCFixes ==
  {Scenario(Fixing(answer), {{}}, {<<"sonarr", "silent">>, <<"log", "unreadable">>}, 2,
            {Stuck, [Stuck EXCEPT ![movie] = "undated"], [Stuck EXCEPT ![pack] = "young"]}) :
     answer \in {"yes", "asked", "unavailable"}}

MCSituations == MCChecks \cup MCFixes

MCSpec == Init /\ [][Next]_vars /\ WF_vars(CliStep)
=============================================================================
