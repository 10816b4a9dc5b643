------------------------------ MODULE Diagnosis ------------------------------
(***************************************************************************)
(* What each check of `moody-blues check` and `moody-blues doctor` says of  *)
(* what it reads (checks/, doctor/checks/, decypharr.verify.ts and          *)
(* decypharr.invariants.ts).                                                *)
(*                                                                          *)
(* The host and the services are reduced to the set of what is wrong with   *)
(* them: a condition is a pair of where it is and what it is.  The result   *)
(* of a check is its status.                                                *)
(***************************************************************************)
EXTENDS Integers, Sequences

CONSTANT Threshold          \* REINSERTION_THRESHOLD

Arrs     == {"sonarr", "radarr"}
Optional == {"flaresolverr"}
Services == Arrs \cup Optional \cup
              {"caddy", "prowlarr", "bazarr", "jellyfin", "seerr", "decypharr"}

\* down: missing, created, exited, paused or restarting.
ContainerConditions == Services \X {"down", "unhealthy", "starting"}
AnswerConditions    == (Services \ {"caddy", "flaresolverr"}) \X {"silent", "rejects"}
HostConditions ==
  {<<"docker", "unreachable">>, <<"docker", "denied">>,
   <<"compose", "absent">>, <<"compose", "old">>, <<"compose", "odd">>,
   <<"port", "foreign">>, <<"fuse", "absent">>, <<"fuse", "private">>,
   <<"gpu", "absent">>, <<"dns", "unresolved">>, <<"dns", "elsewhere">>,
   <<"address", "unknown">>, <<"disk", "full">>, <<"disk", "low">>,
   <<"disk", "unread">>}
ServiceConditions ==
  Arrs \X {"health error", "health warning", "client error", "indexer error"}
  \cup {"prowlarr"} \X {"health error", "health warning", "no indexers", "blocked"}
  \cup {<<"bazarr", "unlinked">>, <<"jellyfin", "wizard">>, <<"jellyfin", "policy">>,
        <<"seerr", "uninitialized">>, <<"gestdown", "bad">>,
        <<"opensubtitles", "bad">>, <<"library", "incomplete">>}
StorageConditions ==
  {<<"decypharr", "wizard">>, <<"decypharr", "drift">>, <<"decypharr", "unlinked">>,
   <<"webdav", "refused">>, <<"mount", "absent">>, <<"mount", "unreadable">>,
   <<"repair", "broken">>, <<"repair", "unknown">>,
   <<"log", "unreadable">>, <<"log", "rejections">>}
AccountConditions == {"account"} \X {"unreachable", "rejected", "odd", "expired", "soon"}

Conditions == ContainerConditions \cup AnswerConditions \cup HostConditions
                \cup ServiceConditions \cup StorageConditions \cup AccountConditions

Statuses == {"ok", "warning", "error", "skipped"}

\* The first of these that holds: an error, a warning, nothing.
Worst(error, warning) == IF error THEN "error" ELSE IF warning THEN "warning" ELSE "ok"

Unanswered(s, t) == <<s, "down">> \in t \/ <<s, "silent">> \in t
Unreadable(s, t) == Unanswered(s, t) \/ <<s, "rejects">> \in t
-----------------------------------------------------------------------------
(* checks/                                                                  *)

NoDocker(t) == <<"docker", "unreachable">> \in t \/ <<"docker", "denied">> \in t

DockerDaemon(t)  == Worst(NoDocker(t), FALSE)
DockerGroup(t)   == Worst(<<"docker", "denied">> \in t, FALSE)
DockerCompose(t) == Worst(<<"compose", "absent">> \in t \/ <<"compose", "old">> \in t,
                          <<"compose", "odd">> \in t)

\* A port held by the gateway is told from a foreign one by asking Docker.
Ports(t) == Worst(FALSE, \/ <<"port", "foreign">> \in t
                         \/ <<"caddy", "down">> \notin t /\ NoDocker(t))

Fuse(t) == Worst(FALSE, <<"fuse", "absent">> \in t \/ <<"fuse", "private">> \in t)

Transcoding(c, t) ==
  Worst(c.transcoding = "hardware" /\ <<"gpu", "absent">> \in t,
        c.transcoding = "cpu" /\ <<"gpu", "absent">> \in t)

\* Without the public address, a name that points elsewhere is not noticed.
Dns(c, t) ==
  IF c.mode # "remote" THEN "ok"
  ELSE Worst(\/ <<"dns", "unresolved">> \in t
             \/ <<"dns", "elsewhere">> \in t /\ <<"address", "unknown">> \notin t,
             <<"address", "unknown">> \in t)

DiskSpace(t) == Worst(<<"disk", "full">> \in t,
                      <<"disk", "low">> \in t \/ <<"disk", "unread">> \in t)

DefaultChecks ==
  <<"docker-daemon", "docker-group", "docker-compose", "ports-availability",
    "fuse", "transcoding", "dns", "disk-space">>

HostStatus(check, c, t) ==
  CASE check = "docker-daemon"      -> DockerDaemon(t)
    [] check = "docker-group"       -> DockerGroup(t)
    [] check = "docker-compose"     -> DockerCompose(t)
    [] check = "ports-availability" -> Ports(t)
    [] check = "fuse"               -> Fuse(t)
    [] check = "transcoding"        -> Transcoding(c, t)
    [] check = "dns"                -> Dns(c, t)
    [] check = "disk-space"         -> DiskSpace(t)
-----------------------------------------------------------------------------
(* The readings that checks share: what `compose ps`, the verification of   *)
(* Decypharr and its log said when they were read.                          *)

Unread == [known |-> FALSE, answered |-> FALSE, saw |-> {}]
Reading(answered, saw) ==
  [known |-> TRUE, answered |-> answered, saw |-> IF answered THEN saw ELSE {}]

\* ps: the services of the manifests, missing ones included.
StackReading(c, t) ==
  Reading(~NoDocker(t) /\ <<"compose", "absent">> \notin t,
          {x \in t \cap ContainerConditions : c.storage \/ x[1] # "decypharr"})

\* verifyDecypharr throws on whatever does not answer, and on the wizard.
VerificationReading(t) ==
  Reading(/\ \A s \in Arrs \cup {"decypharr"} : ~Unreadable(s, t)
          /\ <<"decypharr", "wizard">> \notin t,
          t \cap StorageConditions)

LogReading(t) == Reading(<<"log", "unreadable">> \notin t, t \cap {<<"log", "rejections">>})

\* gateService
Running(stack, s) == stack.answered /\ <<s, "down">> \notin stack.saw
-----------------------------------------------------------------------------
(* doctor/checks/                                                           *)

\* evaluateContainers
Containers(stack) ==
  Worst(\/ ~stack.answered
        \/ \E x \in stack.saw : x[1] \notin Optional /\ x[2] # "starting",
        stack.saw # {})

\* probe
Probe(stack, s, t, status) ==
  IF ~Running(stack, s) THEN "skipped" ELSE IF Unanswered(s, t) THEN "error" ELSE status

ArrApi(c, stack, s, t) ==
  Probe(stack, s, t,
    Worst(\/ <<s, "rejects">> \in t \/ <<s, "health error">> \in t
          \/ c.storage /\ <<s, "client error">> \in t,
          <<s, "health warning">> \in t))

ProwlarrApi(stack, t) ==
  Probe(stack, "prowlarr", t,
    Worst(\E w \in {"rejects", "no indexers", "health error"} : <<"prowlarr", w>> \in t,
          \E w \in {"health warning", "blocked"} : <<"prowlarr", w>> \in t))

BazarrApi(stack, t) ==
  Probe(stack, "bazarr", t,
    Worst(<<"bazarr", "rejects">> \in t, <<"bazarr", "unlinked">> \in t))

JellyfinApi(c, stack, t) ==
  Probe(stack, "jellyfin", t,
    Worst(\/ <<"jellyfin", "wizard">> \in t
          \/ c.jellyfinKey /\ <<"jellyfin", "rejects">> \in t,
          ~c.jellyfinKey))

SeerrApi(stack, t) ==
  Probe(stack, "seerr", t,
    Worst(<<"seerr", "uninitialized">> \in t \/ <<"seerr", "rejects">> \in t, FALSE))

DecypharrConfig(report) ==
  Worst(~report.answered \/ <<"decypharr", "drift">> \in report.saw, FALSE)

DecypharrLink(report) ==
  IF ~report.answered THEN "skipped" ELSE Worst(<<"decypharr", "unlinked">> \in report.saw, FALSE)

\* The folder of all entries is read once more, after the verification.
DebridMount(report, t) ==
  IF ~report.answered THEN "skipped"
  ELSE Worst(\/ <<"webdav", "refused">> \in report.saw \/ <<"mount", "absent">> \in report.saw
             \/ <<"mount", "unreadable">> \in t,
             \E w \in {"broken", "unknown"} : <<"repair", w>> \in report.saw)

RealDebridToken(report, log) ==
  Worst(report.answered /\ log.answered /\ <<"log", "rejections">> \in log.saw,
        ~report.answered \/ ~log.answered)

RealDebridAccount(t) ==
  Worst(\E w \in {"rejected", "expired"} : <<"account", w>> \in t,
        \E w \in {"unreachable", "odd", "soon"} : <<"account", w>> \in t)

\* outcomeFromScan
\* mutant
StuckDownloadsOfWhatWasRead(scan) ==
  IF scan.read = {} /\ scan.unread = {} THEN "skipped"
  ELSE Worst(scan.stuck # {}, scan.undated # {})
StuckDownloads(scan) ==
  IF scan.read = {} /\ scan.unread = {} THEN "skipped"
  ELSE Worst(scan.stuck # {}, scan.unread # {} \/ scan.undated # {})

Reinsertion(log, count) == Worst(FALSE, ~log.answered \/ count >= Threshold)

\* A service that is running but cannot be read is a warning of these three.
Read(stack, s, t, warning) ==
  IF ~Running(stack, s) THEN "skipped" ELSE Worst(FALSE, Unreadable(s, t) \/ warning)

Library(stack, t) == Read(stack, "sonarr", t, <<"library", "incomplete">> \in t)

BazarrProviders(c, stack, t) ==
  Read(stack, "bazarr", t, \/ <<"gestdown", "bad">> \in t
                           \/ c.opensubtitles /\ <<"opensubtitles", "bad">> \in t)

JellyfinPolicy(c, stack, t) ==
  IF ~c.jellyfinKey THEN "skipped" ELSE Read(stack, "jellyfin", t, <<"jellyfin", "policy">> \in t)
-----------------------------------------------------------------------------
(* checks.registry.ts                                                       *)

StackChecks == {"containers", "api-sonarr", "api-radarr", "api-prowlarr", "api-bazarr",
                "api-jellyfin", "api-seerr", "stuck-downloads", "library",
                "bazarr-providers", "jellyfin-policy"}
ReportChecks  == {"decypharr-config", "decypharr-link", "debrid-mount", "realdebrid-token"}
StorageChecks == ReportChecks \cup {"fuse", "decypharr-reinsertion"}
RemediationChecks == {"stuck-downloads", "decypharr-reinsertion"}

PreflightChecks ==
  <<"docker-daemon", "docker-compose", "ports-availability", "fuse", "transcoding",
    "dns", "disk-space">>

\* mutant
DoctorChecksWithoutContainers(c) ==
  PreflightChecks
  \o <<"api-sonarr", "api-radarr", "api-prowlarr", "api-bazarr",
       "api-jellyfin", "api-seerr", "decypharr-config", "decypharr-link",
       "debrid-mount", "realdebrid-token">>
  \o (IF c.realDebrid THEN <<"realdebrid-account">> ELSE <<>>)
  \o <<"stuck-downloads", "decypharr-reinsertion", "library",
       "bazarr-providers", "jellyfin-policy">>
DoctorChecks(c) ==
  PreflightChecks
  \o <<"containers", "api-sonarr", "api-radarr", "api-prowlarr", "api-bazarr",
       "api-jellyfin", "api-seerr", "decypharr-config", "decypharr-link",
       "debrid-mount", "realdebrid-token">>
  \o (IF c.realDebrid THEN <<"realdebrid-account">> ELSE <<>>)
  \o <<"stuck-downloads", "decypharr-reinsertion", "library",
       "bazarr-providers", "jellyfin-policy">>

CheckIds == {"docker-group", "realdebrid-account"} \cup StackChecks \cup StorageChecks
              \cup {"docker-daemon", "docker-compose", "ports-availability",
                    "transcoding", "dns", "disk-space"}

\* What a check answers, given the shared readings; stuck-downloads has a scan.
CheckStatus(check, c, t, memo, count) ==
  IF check \in StorageChecks /\ ~c.storage THEN "skipped" ELSE
  CASE check = "containers"         -> Containers(memo.stack)
    [] check \in {"api-sonarr", "api-radarr"} ->
         ArrApi(c, memo.stack, IF check = "api-sonarr" THEN "sonarr" ELSE "radarr", t)
    [] check = "api-prowlarr"       -> ProwlarrApi(memo.stack, t)
    [] check = "api-bazarr"         -> BazarrApi(memo.stack, t)
    [] check = "api-jellyfin"       -> JellyfinApi(c, memo.stack, t)
    [] check = "api-seerr"          -> SeerrApi(memo.stack, t)
    [] check = "decypharr-config"   -> DecypharrConfig(memo.report)
    [] check = "decypharr-link"     -> DecypharrLink(memo.report)
    [] check = "debrid-mount"       -> DebridMount(memo.report, t)
    [] check = "realdebrid-token"   -> RealDebridToken(memo.report, memo.log)
    [] check = "realdebrid-account" -> RealDebridAccount(t)
    [] check = "decypharr-reinsertion" -> Reinsertion(memo.log, count)
    [] check = "library"            -> Library(memo.stack, t)
    [] check = "bazarr-providers"   -> BazarrProviders(c, memo.stack, t)
    [] check = "jellyfin-policy"    -> JellyfinPolicy(c, memo.stack, t)
    [] OTHER                        -> HostStatus(check, c, t)

\* exitCodeFor, and the summary line "All checks passed."
Errors(results)    == {k \in DOMAIN results : results[k] = "error"}
AllPassed(results) == \A k \in DOMAIN results : results[k] \notin {"warning", "error"}
=============================================================================
