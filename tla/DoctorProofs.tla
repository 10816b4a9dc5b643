----------------------------- MODULE DoctorProofs -----------------------------
(***************************************************************************)
(* That the doctor removes only what was approved and reports all of it,    *)
(* and that it calls only a healthy installation healthy, for any           *)
(* conditions, queues and configurations, proved with TLAPS.                *)
(***************************************************************************)
EXTENDS Doctor, TLAPS

\* The stages of a fix, and what of the plan has been dealt with in each.
Dealt ==
  /\ pc \in Labels /\ decision \in {"none", "approved", "declined", "unavailable"}
  /\ pc \in {"check", "before", "ask"} => removed = {} /\ failed = {} /\ decision = "none"
  /\ pc \in {"remove", "settle", "after", "again"} => decision = "approved"
  /\ pc \in {"settle", "after", "again"} => removed \cup failed = plan
  /\ pc = "done" /\ decision = "approved" => removed \cup failed = plan
  /\ exit # "running" => pc = "done"
  /\ exit = "0" /\ decision = "approved" => removed = plan

\* Which items were asked for, and where they are.
Whereabouts ==
  /\ scan.stuck \subseteq Items
  /\ plan \subseteq Items /\ removed \subseteq plan /\ failed \subseteq plan
  /\ touched \subseteq removed \cup failed /\ removed \subseteq touched
  /\ DOMAIN queue = Items
  /\ \A k \in removed : queue[k] = "absent"

IInv == Dealt /\ Whereabouts


LEMMA InitIInv == Init => IInv
  <1> SUFFICES ASSUME Init PROVE IInv  OBVIOUS
  <1> PICK s \in Scenarios : queue \in s.queues  BY DEF Init
  <1>1. queue \in [Items -> Stages]  BY DoctorAssumption
  <1> QED  BY <1>1 DEF Init, IInv, Dealt, Whereabouts, Labels, NoScan

\* The checks leave the fix alone, except for the plan found by the first scan.
LEMMA ChecksKeepIInv ==
  ASSUME IInv, RunCheck \/ ReadQueue \/ EndScan \/ TimeOut \/ CheckAborted \/ EndOfChecks
  PROVE  IInv'
  <1> USE DEF IInv, Dealt, Whereabouts, Labels, world, fix, history
  <1>0. NoScan.stuck = {}  BY DEF NoScan
  <1>1. CASE RunCheck      BY <1>0, <1>1 DEF RunCheck, Record
  <1>2. CASE ReadQueue
    <2>1. scan'.stuck \subseteq Items  BY <1>2 DEF ReadQueue
    <2> QED  BY <1>2, <2>1 DEF ReadQueue
  <1>3. CASE EndScan
    <2>1. CASE pc = "check"
      <3>1. removed = {} /\ failed = {} /\ touched = {}  BY <2>1
      <3>2. PICK first \in SUBSET scan.stuck : plan' = first
        BY <1>3, <2>1 DEF EndScan
      <3>3. pc' = "check" /\ UNCHANGED <<decision, removed, failed, exit, touched, queue>>
        BY <1>3, <2>1 DEF EndScan
      <3>4. scan'.stuck \subseteq Items  BY <1>0, <1>3 DEF EndScan, Record
      <3> QED  BY <2>1, <3>1, <3>2, <3>3, <3>4
    <2>2. CASE pc # "check"
      BY <1>0, <1>3, <2>2 DEF EndScan, Record
    <2> QED  BY <2>1, <2>2
  <1>4. CASE TimeOut       BY <1>0, <1>4 DEF TimeOut, Record
  <1>5. CASE CheckAborted  BY <1>5 DEF CheckAborted
  <1>6. CASE EndOfChecks   BY <1>6 DEF EndOfChecks
  <1> QED  BY <1>1, <1>2, <1>3, <1>4, <1>5, <1>6

\* The confirmation, the removals, the second count and the exit.
LEMMA FixKeepsIInv ==
  ASSUME IInv,
         \/ CountBefore \/ Decide \/ Remove \/ RemovalFails \/ RemovalUnknown
         \/ EndOfRemovals \/ Settle \/ CountAfter \/ EndOfRerun \/ Exit
  PROVE  IInv'
  <1> USE DEF IInv, Dealt, Whereabouts, Labels, world, fix, history
  <1>1. CASE CountBefore     BY <1>1 DEF CountBefore
  <1>2. CASE Decide          BY <1>2 DEF Decide
  <1>3. CASE Remove
    <2>1. PICK k \in Remaining : /\ removed' = removed \cup {k}
                                 /\ touched' = touched \cup {k}
                                 /\ queue' = [queue EXCEPT ![k] = "absent"]
      BY <1>3 DEF Remove
    <2>2. k \in plan  BY DEF Remaining
    <2> QED  BY <1>3, <2>1, <2>2 DEF Remove
  <1>4. CASE RemovalFails
    <2>1. PICK k \in Remaining : /\ failed' = failed \cup {k}
                                 /\ touched' \subseteq touched \cup {k}
                                 /\ touched \subseteq touched'
      BY <1>4 DEF RemovalFails
    <2>2. k \in plan  BY DEF Remaining
    <2> QED  BY <1>4, <2>1, <2>2 DEF RemovalFails
  <1>5. CASE RemovalUnknown
    <2>1. PICK k \in Remaining : /\ failed' = failed \cup {k}
                                 /\ touched' = touched \cup {k}
                                 /\ queue' = [queue EXCEPT ![k] = "absent"]
      BY <1>5 DEF RemovalUnknown
    <2>2. k \in plan  BY DEF Remaining
    <2> QED  BY <1>5, <2>1, <2>2 DEF RemovalUnknown
  <1>6. CASE EndOfRemovals   BY <1>6 DEF EndOfRemovals, Remaining
  <1>7. CASE Settle          BY <1>7 DEF Settle
  <1>8. CASE CountAfter      BY <1>8 DEF CountAfter
  <1>9. CASE EndOfRerun      BY <1>9 DEF EndOfRerun
  <1>10. CASE Exit           BY <1>10 DEF Exit, Success, FixSucceeded
  <1> QED  BY <1>1, <1>2, <1>3, <1>4, <1>5, <1>6, <1>7, <1>8, <1>9, <1>10

\* A removed record never comes back: a new grab is a new record.
LEMMA WorldKeepsIInv ==
  ASSUME IInv, ConditionComesOrGoes \/ DownloadMoves \/ LogMoves \/ Interrupt
  PROVE  IInv'
  <1> USE DEF IInv, Dealt, Whereabouts, Labels, world, fix, history
  <1>1. CASE ConditionComesOrGoes  BY <1>1 DEF ConditionComesOrGoes
  <1>2. CASE DownloadMoves
    <2>1. PICK k \in Items, next \in Stages :
            /\ queue[k] = "absent" => k \notin touched
            /\ queue' = [queue EXCEPT ![k] = next]
      BY <1>2 DEF DownloadMoves, Stages
    <2>2. \A j \in removed : queue'[j] = "absent"
      BY <2>1
    <2> QED  BY <1>2, <2>1, <2>2 DEF DownloadMoves
  <1>3. CASE LogMoves              BY <1>3 DEF LogMoves
  <1>4. CASE Interrupt             BY <1>4 DEF Interrupt
  <1> QED  BY <1>1, <1>2, <1>3, <1>4

LEMMA StutterKeepsIInv == ASSUME IInv, UNCHANGED vars PROVE IInv'
  BY DEF IInv, Dealt, Whereabouts, vars, world, fix, history

LEMMA NextKeepsIInv == IInv /\ [Next]_vars => IInv'
  BY ChecksKeepIInv, FixKeepsIInv, WorldKeepsIInv, StutterKeepsIInv
     DEF Next, CliStep, UserAnswers

\* For every behaviour, each stage of a fix has dealt with what it should.
THEOREM Invariance == Spec => []IInv
  BY InitIInv, NextKeepsIInv, PTL DEF Spec

\* Every removal that was requested is in the report, what is told as removed is
\* gone, and an exit with 0 means that the whole plan was removed (applyFixes).
THEOREM ReportsAreTrue == Spec => []ReportIsTrue
  <1>1. IInv => ReportIsTrue
    BY DEF IInv, Dealt, Whereabouts, ReportIsTrue
  <1> QED  BY <1>1, Invariance, PTL

Approved == ~aborted /\ decision = "approved" /\ touched' \ touched \subseteq plan

LEMMA StepsAreApproved ==
  ASSUME IInv, [Next]_vars, touched' # touched PROVE Approved
  <1> USE DEF world, fix, history, Approved
  <1>1. Next  BY DEF vars
  <1>2. CASE Remove
    BY <1>2 DEF Remove, Remaining, IInv, Dealt
  <1>3. CASE RemovalFails
    BY <1>3 DEF RemovalFails, Remaining, IInv, Dealt
  <1>4. CASE RemovalUnknown
    BY <1>4 DEF RemovalUnknown, Remaining, IInv, Dealt
  <1>5. CASE RunCheck \/ ReadQueue \/ EndScan \/ TimeOut \/ CheckAborted \/ EndOfChecks
    BY <1>5 DEF RunCheck, ReadQueue, EndScan, TimeOut, CheckAborted, EndOfChecks
  <1>6. CASE \/ CountBefore \/ Decide \/ EndOfRemovals \/ Settle \/ CountAfter
             \/ EndOfRerun \/ Exit
    BY <1>6 DEF CountBefore, Decide, EndOfRemovals, Settle, CountAfter, EndOfRerun, Exit
  <1>7. CASE ConditionComesOrGoes \/ DownloadMoves \/ LogMoves \/ Interrupt
    BY <1>7 DEF ConditionComesOrGoes, DownloadMoves, LogMoves, Interrupt
  <1> QED
    BY <1>1, <1>2, <1>3, <1>4, <1>5, <1>6, <1>7 DEF Next, CliStep, UserAnswers

\* Nothing is removed after an interrupt, without an approval, or outside of the
\* plan that was shown (remediate and the signal of the clients).
THEOREM RemovalsAreApproved == Spec => RemovesOnlyApproved
  <1>1. IInv /\ [Next]_vars => [touched' # touched => Approved]_vars
    BY StepsAreApproved
  <1> QED  BY <1>1, Invariance, PTL DEF Spec, RemovesOnlyApproved, Approved

-----------------------------------------------------------------------------
(* What the checks have found out.                                           *)

Readings == [known : BOOLEAN, answered : BOOLEAN, saw : SUBSET Conditions]
Memos    == [stack : Readings, report : Readings, log : Readings]
Scans    == [left : {<<"sonarr", "radarr">>, <<"radarr">>, <<>>}, read : SUBSET Arrs,
             unread : SUBSET Arrs, stuck : SUBSET Items, undated : SUBSET Items]

Typed ==
  /\ config \in Configurations /\ trouble \subseteq Conditions /\ may \subseteq Conditions
  /\ memo \in Memos /\ scan \in Scans
  /\ results \in [CheckIds -> Statuses \cup {"none"}]
  /\ lasting \subseteq trouble /\ stuckSince \subseteq Items
  /\ \A k \in stuckSince : queue[k] = "stuck"

\* The conditions a reading of the stack shows.
Contained(c) == {x \in ContainerConditions : c.storage \/ x[1] # "decypharr"}

\* A shared reading that was answered shows what has been wrong all the time.
Shared ==
  /\ memo.stack.answered => lasting \cap Contained(config) \subseteq memo.stack.saw
  /\ memo.report.answered =>
       /\ lasting \cap StorageConditions \subseteq memo.report.saw
       /\ <<"decypharr", "wizard">> \notin lasting
       /\ \A s \in Arrs \cup {"decypharr"} : ~Unreadable(s, lasting)
  /\ memo.log.answered =>
       /\ <<"log", "unreadable">> \notin lasting
       /\ <<"log", "rejections">> \in lasting => <<"log", "rejections">> \in memo.log.saw

\* The checks of one service that ask gateService first.
GatedBy(s) ==
  CASE s = "sonarr"   -> {"api-sonarr", "library"}
    [] s = "radarr"   -> {"api-radarr"}
    [] s = "prowlarr" -> {"api-prowlarr"}
    [] s = "bazarr"   -> {"api-bazarr", "bazarr-providers"}
    [] s = "jellyfin" -> {"api-jellyfin", "jellyfin-policy"}
    [] s = "seerr"    -> {"api-seerr"}
    [] OTHER          -> {}

\* The conditions a check is there for: when it says "ok" it has seen none.
Watched(check, c) ==
  CASE check = "docker-daemon"      -> {<<"docker", "unreachable">>, <<"docker", "denied">>}
    [] check = "docker-compose"     -> {<<"compose", w>> : w \in {"absent", "old", "odd"}}
    [] check = "ports-availability" -> {<<"port", "foreign">>}
    [] check = "fuse"               -> {<<"fuse", "absent">>, <<"fuse", "private">>}
    [] check = "transcoding"        -> IF c.transcoding = "off" THEN {}
                                       ELSE {<<"gpu", "absent">>}
    [] check = "dns"                -> IF c.mode # "remote" THEN {}
                                       ELSE {<<"dns", "unresolved">>, <<"dns", "elsewhere">>,
                                             <<"address", "unknown">>}
    [] check = "disk-space"         -> {<<"disk", w>> : w \in {"full", "low", "unread"}}
    [] check = "containers"         -> Contained(c)
    [] check = "api-sonarr"         ->
         {<<"sonarr", w>> : w \in {"silent", "rejects", "health error", "health warning"}}
         \cup IF c.storage THEN {<<"sonarr", "client error">>} ELSE {}
    [] check = "api-radarr"         ->
         {<<"radarr", w>> : w \in {"silent", "rejects", "health error", "health warning"}}
         \cup IF c.storage THEN {<<"radarr", "client error">>} ELSE {}
    [] check = "api-prowlarr"       ->
         {<<"prowlarr", w>> : w \in {"silent", "rejects", "no indexers", "health error",
                                     "health warning", "blocked"}}
    [] check = "api-bazarr"         -> {<<"bazarr", w>> : w \in {"silent", "rejects", "unlinked"}}
    [] check = "api-jellyfin"       -> {<<"jellyfin", w>> : w \in {"silent", "wizard", "rejects"}}
    [] check = "api-seerr"          ->
         {<<"seerr", w>> : w \in {"silent", "uninitialized", "rejects"}}
    [] check = "decypharr-config"   ->
         {<<"decypharr", w>> : w \in {"silent", "rejects", "wizard", "drift"}}
    [] check = "decypharr-link"     -> {<<"decypharr", "unlinked">>}
    [] check = "debrid-mount"       ->
         {<<"webdav", "refused">>, <<"mount", "absent">>, <<"mount", "unreadable">>,
          <<"repair", "broken">>, <<"repair", "unknown">>}
    [] check = "realdebrid-token"   -> {<<"log", "unreadable">>, <<"log", "rejections">>}
    [] check = "realdebrid-account" ->
         {<<"account", w>> : w \in {"unreachable", "rejected", "odd", "expired", "soon"}}
    [] check = "library"            -> {<<"library", "incomplete">>}
    [] check = "bazarr-providers"   ->
         {<<"gestdown", "bad">>} \cup IF c.opensubtitles THEN {<<"opensubtitles", "bad">>} ELSE {}
    [] check = "jellyfin-policy"    -> {<<"jellyfin", "policy">>}
    [] OTHER                        -> {}

NotRunning(s) == memo.stack.known /\ ~Running(memo.stack, s)
GatedServices == Arrs \cup {"prowlarr", "bazarr", "jellyfin", "seerr"}
Gated == UNION {GatedBy(s) : s \in GatedServices}

\* What a status of a check says of what has been wrong all the time.
Says(k, status) ==
  /\ status = "ok" => lasting \cap Watched(k, config) = {}
  /\ status = "skipped" =>
       \/ k \in StorageChecks /\ ~config.storage
       \/ k = "jellyfin-policy" /\ ~config.jellyfinKey
       \/ /\ k \in {"decypharr-link", "debrid-mount"}
          /\ memo.report.known /\ ~memo.report.answered
       \/ \E s \in GatedServices : k \in GatedBy(s) /\ NotRunning(s)
       \/ k = "stuck-downloads" /\ \A s \in Arrs : NotRunning(s)
  /\ k = "containers" /\ status \in {"ok", "warning"} =>
       /\ memo.stack.known /\ memo.stack.answered
       /\ \A x \in memo.stack.saw : x[1] \in Optional \/ x[2] = "starting"
       /\ status = "ok" => memo.stack.saw = {}
  /\ k = "decypharr-config" /\ status = "ok" =>
       memo.report.known /\ memo.report.answered
  /\ k = "api-jellyfin" /\ status = "ok" => config.jellyfinKey
  /\ k = "stuck-downloads" /\ status \in {"ok", "skipped"} =>
       \A i \in stuckSince : NotRunning(AppOf[i])

Evidence == \A k \in CheckIds : Says(k, results[k])

\* The scan of the queues so far.
Scanned ==
  /\ \A s \in Arrs :
       \/ s = "radarr" /\ scan.left # <<>>
       \/ scan.left = <<"sonarr", "radarr">>
       \/ s \in scan.read \cup scan.unread \/ NotRunning(s)
  /\ \A k \in stuckSince : AppOf[k] \in scan.read => k \in scan.stuck

\* No check of the list is forgotten unless the user interrupts.
Listed == {Checks(config)[i] : i \in DOMAIN Checks(config)}
Complete ==
  /\ pc = "check" /\ ~aborted =>
       /\ todo \in Seq(Listed)
       /\ \A k \in Listed : results[k] # "none" \/ \E i \in 1..Len(todo) : todo[i] = k
  /\ pc # "check" /\ ~aborted => \A k \in Listed : results[k] # "none"
  /\ pc \notin {"check", "done"} \/ aborted => config.command = "doctor"
  /\ exit = "0" => ~aborted /\ pc = "done" /\ Errors(results) = {}

Findings == Typed /\ Shared /\ Evidence /\ Scanned /\ Complete

-----------------------------------------------------------------------------
(* The lists of checks.                                                      *)

HostIds == {"docker-daemon", "docker-group", "docker-compose", "ports-availability",
            "fuse", "transcoding", "dns", "disk-space"}

\* What the doctor runs on every installation.
DoctorIds == CheckIds \ {"docker-group", "realdebrid-account"}

Elements(list) == {list[i] : i \in DOMAIN list}

\* What two lists have, their concatenation has.
LEMMA ConcatenatedElements ==
  ASSUME NEW S, NEW a \in Seq(S), NEW b \in Seq(S)
  PROVE  a \o b \in Seq(S) /\ Elements(a \o b) = Elements(a) \cup Elements(b)
<1>1. a \o b \in Seq(S) /\ Len(a \o b) = Len(a) + Len(b)
  OBVIOUS
<1>2. ASSUME NEW i \in 1..Len(a)
      PROVE  (a \o b)[i] = a[i] /\ i \in 1..Len(a \o b)
  BY <1>1, <1>2
<1>3. ASSUME NEW i \in 1..Len(b)
      PROVE  (a \o b)[Len(a) + i] = b[i] /\ Len(a) + i \in 1..Len(a \o b)
  BY <1>1, <1>3
<1>4. ASSUME NEW i \in 1..Len(a \o b)
      PROVE  \/ (a \o b)[i] = a[i] /\ i \in 1..Len(a)
             \/ (a \o b)[i] = b[i - Len(a)] /\ i - Len(a) \in 1..Len(b)
  BY <1>1, <1>4
<1>5. Elements(a) \cup Elements(b) \subseteq Elements(a \o b)
  <2>1. DOMAIN a = 1..Len(a) /\ DOMAIN b = 1..Len(b) /\ DOMAIN (a \o b) = 1..Len(a \o b)
    BY <1>1
  <2> QED
    BY <1>2, <1>3, <2>1 DEF Elements
<1>6. Elements(a \o b) \subseteq Elements(a) \cup Elements(b)
  <2>1. DOMAIN a = 1..Len(a) /\ DOMAIN b = 1..Len(b) /\ DOMAIN (a \o b) = 1..Len(a \o b)
    BY <1>1
  <2> QED
    BY <1>4, <2>1 DEF Elements
<1> QED
  BY <1>1, <1>5, <1>6

\* The list of the doctor has every check that applies, that of `check` those of
\* the host.
LEMMA ListsAreWhole ==
  ASSUME config \in Configurations
  PROVE  /\ Checks(config) \in Seq(Listed)
         /\ config.command = "check" => Listed = HostIds
         /\ config.command = "doctor" =>
              /\ DoctorIds \subseteq Listed /\ Listed \subseteq CheckIds
              /\ config.realDebrid => "realdebrid-account" \in Listed
<1> DEFINE Services1 == <<"containers", "api-sonarr", "api-radarr", "api-prowlarr",
                "api-bazarr", "api-jellyfin", "api-seerr", "decypharr-config",
                "decypharr-link", "debrid-mount", "realdebrid-token">>
           Account == IF config.realDebrid THEN <<"realdebrid-account">> ELSE <<>>
           Services2 == <<"stuck-downloads", "decypharr-reinsertion", "library",
                "bazarr-providers", "jellyfin-policy">>
<1>1. CASE config.command = "check"
  <2>1. Checks(config) = DefaultChecks
    BY <1>1 DEF Checks
  <2> QED
    BY <1>1, <2>1 DEF DefaultChecks, Listed, HostIds
<1>2. CASE config.command = "doctor"
  <2>1. Checks(config) = ((PreflightChecks \o Services1) \o Account) \o Services2
    BY <1>2 DEF Checks, DoctorChecks
  <2>2. PreflightChecks \in Seq(CheckIds) /\ Services1 \in Seq(CheckIds)
        /\ Account \in Seq(CheckIds) /\ Services2 \in Seq(CheckIds)
    <3>1. PreflightChecks \in Seq(CheckIds)
      BY DEF PreflightChecks, CheckIds, StackChecks, StorageChecks, ReportChecks
    <3>2. Services1 \in Seq(CheckIds)
      BY DEF CheckIds, StackChecks, StorageChecks, ReportChecks
    <3>3. Account \in Seq(CheckIds)
      <4>1. <<"realdebrid-account">> \in Seq(CheckIds) /\ <<>> \in Seq(CheckIds)
        BY DEF CheckIds
      <4> QED
        BY <4>1
    <3>4. Services2 \in Seq(CheckIds)
      BY DEF CheckIds, StackChecks, StorageChecks, ReportChecks
    <3> QED
      BY <3>1, <3>2, <3>3, <3>4
  <2>3. Elements(PreflightChecks) = HostIds \ {"docker-group"}
    BY DEF PreflightChecks, Elements, HostIds
  <2>4. /\ Elements(Services1) = {"containers", "api-sonarr", "api-radarr", "api-prowlarr",
                "api-bazarr", "api-jellyfin", "api-seerr", "decypharr-config",
                "decypharr-link", "debrid-mount", "realdebrid-token"}
        /\ Elements(Services2) = {"stuck-downloads", "decypharr-reinsertion", "library",
                "bazarr-providers", "jellyfin-policy"}
        /\ Elements(Account) = IF config.realDebrid THEN {"realdebrid-account"} ELSE {}
    BY DEF Elements
  <2> HIDE DEF Services1, Account, Services2
  <2>5. /\ Checks(config) \in Seq(CheckIds)
        /\ Listed = ((Elements(PreflightChecks) \cup Elements(Services1))
                       \cup Elements(Account)) \cup Elements(Services2)
    <3> DEFINE One == PreflightChecks \o Services1
               Two == One \o Account
    <3>1. One \in Seq(CheckIds)
          /\ Elements(One) = Elements(PreflightChecks) \cup Elements(Services1)
      BY <2>2, ConcatenatedElements
    <3> HIDE DEF One
    <3>2. Two \in Seq(CheckIds) /\ Elements(Two) = Elements(One) \cup Elements(Account)
      BY <2>2, <3>1, ConcatenatedElements
    <3> HIDE DEF Two
    <3>3. /\ Two \o Services2 \in Seq(CheckIds)
          /\ Elements(Two \o Services2) = Elements(Two) \cup Elements(Services2)
      BY <2>2, <3>2, ConcatenatedElements
    <3>4. Checks(config) = Two \o Services2 /\ Listed = Elements(Checks(config))
      BY <2>1 DEF One, Two, Listed, Elements
    <3> QED
      BY <3>1, <3>2, <3>3, <3>4
  <2>6. Checks(config) \in Seq(Listed)
    BY <2>5 DEF Listed
  <2> QED
    BY <1>2, <2>3, <2>4, <2>5, <2>6 DEF DoctorIds, HostIds, CheckIds, StackChecks,
       StorageChecks, ReportChecks
<1> QED
  BY <1>1, <1>2 DEF Configurations

-----------------------------------------------------------------------------
(* The shared readings.                                                      *)

\* A reading that was answered shows what there was to see.
LEMMA ReadingShows ==
  ASSUME NEW a \in BOOLEAN, NEW S
  PROVE  /\ Reading(a, S).known /\ (Reading(a, S).answered <=> a)
         /\ a => Reading(a, S).saw = S
BY DEF Reading

\* The readings have their types.
LEMMA ReadingTypes ==
  ASSUME NEW c, NEW t \in SUBSET Conditions
  PROVE  /\ StackReading(c, t) \in Readings
         /\ VerificationReading(t) \in Readings
         /\ LogReading(t) \in Readings
BY DEF StackReading, VerificationReading, LogReading, Reading, Readings

\* A check finds the readings it needs, and leaves the known ones as they are.
LEMMA Remembered ==
  ASSUME Typed, NEW check
  PROVE  /\ Remember(check) \in Memos
         /\ Remember(check).stack \in {memo.stack, StackReading(config, trouble)}
         /\ memo.stack.known => Remember(check).stack = memo.stack
         /\ check \in StackChecks => Remember(check).stack.known
         /\ Remember(check).report \in {memo.report, VerificationReading(trouble)}
         /\ memo.report.known => Remember(check).report = memo.report
         /\ check \in ReportChecks /\ config.storage => Remember(check).report.known
         /\ Remember(check).log \in {memo.log, LogReading(trouble)}
<1>1. /\ StackReading(config, trouble).known
      /\ VerificationReading(trouble).known
  BY DEF StackReading, VerificationReading, Reading
<1>2. /\ StackReading(config, trouble) \in Readings
      /\ VerificationReading(trouble) \in Readings
      /\ LogReading(trouble) \in Readings
  BY ReadingTypes DEF Typed
<1> QED
  BY <1>1, <1>2 DEF Remember, Typed, Memos

\* What a reading shows of the conditions there are, it shows of those that last.
LEMMA SharedReadings ==
  ASSUME Typed, Shared, memo' \in Memos, config' = config, lasting' \subseteq lasting,
         memo'.stack \in {memo.stack, StackReading(config, trouble)},
         memo'.report \in {memo.report, VerificationReading(trouble)},
         memo'.log \in {memo.log, LogReading(trouble), Unread}
  PROVE  Shared'
<1>1. lasting' \subseteq lasting /\ lasting \subseteq trouble
  BY DEF Typed
<1>2. memo'.stack.answered => lasting' \cap Contained(config') \subseteq memo'.stack.saw
  <2>1. CASE memo'.stack = memo.stack
    BY <1>1, <2>1 DEF Shared
  <2>2. CASE memo'.stack = StackReading(config, trouble)
    <3>1. memo'.stack.answered => memo'.stack.saw =
            {x \in trouble \cap ContainerConditions : config.storage \/ x[1] # "decypharr"}
      <4> DEFINE reached == ~NoDocker(trouble) /\ <<"compose", "absent">> \notin trouble
      <4>1. reached \in BOOLEAN
        OBVIOUS
      <4>2. memo'.stack = Reading(reached,
              {x \in trouble \cap ContainerConditions : config.storage \/ x[1] # "decypharr"})
        BY <2>2 DEF StackReading
      <4> HIDE DEF reached
      <4> QED
        BY <4>1, <4>2, ReadingShows
    <3> QED
      BY <1>1, <3>1 DEF Contained
  <2> QED
    BY <2>1, <2>2
<1>3. memo'.report.answered =>
        /\ lasting' \cap StorageConditions \subseteq memo'.report.saw
        /\ <<"decypharr", "wizard">> \notin lasting'
        /\ \A s \in Arrs \cup {"decypharr"} : ~Unreadable(s, lasting')
  <2>1. CASE memo'.report = memo.report
    BY <1>1, <2>1 DEF Shared, Unreadable, Unanswered
  <2>2. CASE memo'.report = VerificationReading(trouble)
    BY <1>1, <2>2 DEF VerificationReading, Reading, Unreadable, Unanswered
  <2> QED
    BY <2>1, <2>2
<1>4. memo'.log.answered =>
       /\ <<"log", "unreadable">> \notin lasting'
       /\ <<"log", "rejections">> \in lasting' => <<"log", "rejections">> \in memo'.log.saw
  <2>1. CASE memo'.log = memo.log
    BY <1>1, <2>1 DEF Shared
  <2>2. CASE memo'.log = LogReading(trouble)
    <3>1. memo'.log.answered => /\ <<"log", "unreadable">> \notin trouble
                                /\ memo'.log.saw = trouble \cap {<<"log", "rejections">>}
      BY <2>2, ReadingShows DEF LogReading
    <3> QED
      BY <1>1, <3>1
  <2>3. CASE memo'.log = Unread
    BY <2>3 DEF Unread
  <2> QED
    BY <2>1, <2>2, <2>3
<1> QED
  BY <1>2, <1>3, <1>4 DEF Shared

-----------------------------------------------------------------------------
(* What each check says.                                                     *)

\* A host check says of the conditions it watches: there are none, or more.
LEMMA HostStatusSays ==
  ASSUME Typed, NEW k \in HostIds
  PROVE  /\ HostStatus(k, config, trouble) \in Statuses \ {"skipped"}
         /\ HostStatus(k, config, trouble) = "ok" =>
              trouble \cap Watched(k, config) = {}
<1> USE DEF Statuses, Worst, HostStatus, Watched
<1>1. CASE k = "docker-daemon"
  BY <1>1 DEF DockerDaemon, NoDocker
<1>2. CASE k = "docker-group"
  BY <1>2 DEF DockerGroup
<1>3. CASE k = "docker-compose"
  BY <1>3 DEF DockerCompose
<1>4. CASE k = "ports-availability"
  BY <1>4 DEF Ports
<1>5. CASE k = "fuse"
  BY <1>5 DEF Fuse
<1>6. CASE k = "transcoding"
  BY <1>6 DEF Transcoding, Typed, Configurations
<1>7. CASE k = "dns"
  BY <1>7 DEF Dns
<1>8. CASE k = "disk-space"
  BY <1>8 DEF DiskSpace
<1> QED
  BY <1>1, <1>2, <1>3, <1>4, <1>5, <1>6, <1>7, <1>8 DEF HostIds

\* A check that asks gateService first says nothing only of a service that the
\* stack reading did not show running.
LEMMA GatedSays ==
  ASSUME NEW s \in GatedServices, NEW k \in GatedBy(s), NEW status, memo'.stack.known,
         status = "skipped" => ~Running(memo'.stack, s),
         status = "ok" => lasting' \cap Watched(k, config') = {},
         k = "api-jellyfin" /\ status = "ok" => config'.jellyfinKey
  PROVE  Says(k, status)'
<1>1. k \in Gated
  BY DEF Gated
<1>2. k \notin {"containers", "decypharr-config", "stuck-downloads"}
  BY DEF GatedBy
<1>3. status = "skipped" => NotRunning(s)'
  BY DEF NotRunning
<1> QED
  BY <1>2, <1>3 DEF Says

\* The services that gate a check.
LEMMA GatesAre ==
  /\ "api-sonarr" \in GatedBy("sonarr") /\ "library" \in GatedBy("sonarr")
  /\ "api-radarr" \in GatedBy("radarr") /\ "api-prowlarr" \in GatedBy("prowlarr")
  /\ "api-bazarr" \in GatedBy("bazarr") /\ "bazarr-providers" \in GatedBy("bazarr")
  /\ "api-jellyfin" \in GatedBy("jellyfin") /\ "jellyfin-policy" \in GatedBy("jellyfin")
  /\ "api-seerr" \in GatedBy("seerr")
  /\ {"sonarr", "radarr", "prowlarr", "bazarr", "jellyfin", "seerr"} = GatedServices
BY DEF GatedBy, GatedServices, Arrs

\* What a check records is a status, and it is borne out by what has been wrong
\* since the command began.
LEMMA CheckStatusSays ==
  ASSUME Typed, Shared', NEW k \in CheckIds \ {"stuck-downloads"}, NEW status,
         memo' = Remember(k), UNCHANGED <<config, lasting, stuckSince>>,
         status = CheckStatus(k, config, trouble, memo', reinserted)
  PROVE  status \in Statuses /\ Says(k, status)'
<1>0. /\ lasting' \subseteq trouble /\ config' = config /\ config \in Configurations
      /\ k \in StackChecks => memo'.stack.known
      /\ k \in ReportChecks /\ config.storage => memo'.report.known
  BY Remembered DEF Typed
<1>1. CASE k \in StorageChecks /\ ~config.storage
  BY <1>0, <1>1 DEF CheckStatus, Statuses, Says, StorageChecks, ReportChecks
<1> SUFFICES ASSUME k \in StorageChecks => config.storage
             PROVE  status \in Statuses /\ Says(k, status)'
  BY <1>1
<1> USE DEF Statuses, Worst
<1>2. CASE k \in HostIds
  <2>1. status = HostStatus(k, config, trouble)
    BY <1>2 DEF CheckStatus, HostIds
  <2> QED
    BY <1>0, <1>2, <2>1, HostStatusSays DEF Says, HostIds
<1>3. CASE k = "containers"
  <2>1. status = Containers(memo'.stack)
    BY <1>3 DEF CheckStatus
  <2>2. memo'.stack.known
    BY <1>0, <1>3 DEF StackChecks
  <2>3. status \in {"ok", "warning"} =>
          /\ memo'.stack.answered
          /\ \A x \in memo'.stack.saw : x[1] \in Optional \/ x[2] = "starting"
    BY <2>1 DEF Containers
  <2>4. status = "ok" => memo'.stack.saw = {}
    BY <2>1 DEF Containers
  <2>5. status \in {"ok", "warning", "error"}
    BY <2>1 DEF Containers
  <2>6. status = "ok" => lasting' \cap Watched(k, config') = {}
    BY <1>3, <2>3, <2>4 DEF Watched, Shared
  <2> QED
    BY <1>3, <2>2, <2>3, <2>4, <2>5, <2>6 DEF Says
<1>4. CASE k \in {"api-sonarr", "api-radarr"}
  <2> DEFINE s == IF k = "api-sonarr" THEN "sonarr" ELSE "radarr"
  <2>1. status = ArrApi(config, memo'.stack, s, trouble) /\ k \in GatedBy(s)
        /\ s \in GatedServices /\ memo'.stack.known
    BY <1>0, <1>4, GatesAre DEF CheckStatus, StackChecks
  <2>2. /\ status \in Statuses
        /\ status = "skipped" => ~Running(memo'.stack, s)
        /\ status = "ok" => trouble \cap Watched(k, config) = {}
    BY <1>4, <2>1 DEF ArrApi, Probe, Unanswered, Watched
  <2> HIDE DEF s
  <2> QED
    BY <1>0, <1>4, <2>1, <2>2, GatedSays
<1>5. CASE k = "api-prowlarr"
  <2>1. status = ProwlarrApi(memo'.stack, trouble)
    BY <1>5 DEF CheckStatus
  <2>2. /\ status \in Statuses
        /\ status = "skipped" => ~Running(memo'.stack, "prowlarr")
        /\ status = "ok" => trouble \cap Watched(k, config) = {}
    BY <1>5, <2>1 DEF ProwlarrApi, Probe, Unanswered, Watched
  <2> QED
    BY <1>0, <1>5, <2>2, GatedSays, GatesAre DEF StackChecks
<1>6. CASE k = "api-bazarr"
  <2>1. status = BazarrApi(memo'.stack, trouble)
    BY <1>6 DEF CheckStatus
  <2>2. /\ status \in Statuses
        /\ status = "skipped" => ~Running(memo'.stack, "bazarr")
        /\ status = "ok" => trouble \cap Watched(k, config) = {}
    BY <1>6, <2>1 DEF BazarrApi, Probe, Unanswered, Watched
  <2> QED
    BY <1>0, <1>6, <2>2, GatedSays, GatesAre DEF StackChecks
<1>7. CASE k = "api-jellyfin"
  <2>1. status = JellyfinApi(config, memo'.stack, trouble)
    BY <1>7 DEF CheckStatus
  <2>2. /\ status \in Statuses
        /\ status = "skipped" => ~Running(memo'.stack, "jellyfin")
        /\ status = "ok" => trouble \cap Watched(k, config) = {} /\ config.jellyfinKey
    BY <1>7, <2>1 DEF JellyfinApi, Probe, Unanswered, Watched
  <2> QED
    BY <1>0, <1>7, <2>2, GatedSays, GatesAre DEF StackChecks
<1>8. CASE k = "api-seerr"
  <2>1. status = SeerrApi(memo'.stack, trouble)
    BY <1>8 DEF CheckStatus
  <2>2. /\ status \in Statuses
        /\ status = "skipped" => ~Running(memo'.stack, "seerr")
        /\ status = "ok" => trouble \cap Watched(k, config) = {}
    BY <1>8, <2>1 DEF SeerrApi, Probe, Unanswered, Watched
  <2> QED
    BY <1>0, <1>8, <2>2, GatedSays, GatesAre DEF StackChecks
<1>9. CASE k = "decypharr-config"
  <2>1. status = DecypharrConfig(memo'.report) /\ memo'.report.known
    BY <1>0, <1>9 DEF CheckStatus, ReportChecks, StorageChecks
  <2>2. status \in {"ok", "error"}
        /\ (status = "ok" => memo'.report.answered
                             /\ <<"decypharr", "drift">> \notin memo'.report.saw)
    BY <2>1 DEF DecypharrConfig
  <2>3. status = "ok" =>
          /\ <<"decypharr", "silent">> \notin lasting'
          /\ <<"decypharr", "rejects">> \notin lasting'
          /\ <<"decypharr", "wizard">> \notin lasting'
    <3>1. status = "ok" => ~Unreadable("decypharr", lasting')
      BY <2>2 DEF Shared
    <3> QED
      BY <2>2, <3>1 DEF Shared, Unreadable, Unanswered
  <2>4. status = "ok" => <<"decypharr", "drift">> \notin lasting'
    BY <2>2 DEF Shared, StorageConditions
  <2>5. status = "ok" => lasting' \cap Watched(k, config') = {}
    BY <1>9, <2>3, <2>4 DEF Watched
  <2> QED
    BY <1>9, <2>1, <2>2, <2>5 DEF Says
<1>10. CASE k = "decypharr-link"
  <2>1. status = DecypharrLink(memo'.report) /\ memo'.report.known
    BY <1>0, <1>10 DEF CheckStatus, ReportChecks, StorageChecks
  <2>2. /\ status \in {"ok", "error", "skipped"}
        /\ status = "skipped" => ~memo'.report.answered
        /\ status = "ok" => memo'.report.answered
                            /\ <<"decypharr", "unlinked">> \notin memo'.report.saw
    BY <2>1 DEF DecypharrLink
  <2>3. status = "ok" => lasting' \cap Watched(k, config') = {}
    BY <1>10, <2>2 DEF Watched, Shared, StorageConditions
  <2> QED
    BY <1>10, <2>1, <2>2, <2>3 DEF Says
<1>11. CASE k = "debrid-mount"
  <2>1. status = DebridMount(memo'.report, trouble) /\ memo'.report.known
    BY <1>0, <1>11 DEF CheckStatus, ReportChecks, StorageChecks
  <2>2. /\ status \in Statuses
        /\ status = "skipped" => ~memo'.report.answered
        /\ status = "ok" =>
             /\ memo'.report.answered /\ <<"mount", "unreadable">> \notin trouble
             /\ {<<"webdav", "refused">>, <<"mount", "absent">>, <<"repair", "broken">>,
                 <<"repair", "unknown">>} \cap memo'.report.saw = {}
    BY <2>1 DEF DebridMount
  <2>3. status = "ok" => lasting' \cap Watched(k, config') = {}
    BY <1>0, <1>11, <2>2 DEF Watched, Shared, StorageConditions
  <2> QED
    BY <1>11, <2>1, <2>2, <2>3 DEF Says
<1>12. CASE k = "realdebrid-token"
  <2>1. status = RealDebridToken(memo'.report, memo'.log)
    BY <1>12 DEF CheckStatus
  <2>2. /\ status \in {"ok", "warning", "error"}
        /\ status = "ok" => memo'.log.answered
                            /\ <<"log", "rejections">> \notin memo'.log.saw
    BY <2>1 DEF RealDebridToken
  <2>3. status = "ok" => lasting' \cap Watched(k, config') = {}
    BY <1>12, <2>2 DEF Watched, Shared
  <2> QED
    BY <1>12, <2>2, <2>3 DEF Says
<1>13. CASE k = "realdebrid-account"
  <2>1. status = RealDebridAccount(trouble)
    BY <1>13 DEF CheckStatus, StorageChecks, ReportChecks
  <2>2. /\ status \in {"ok", "warning", "error"}
        /\ status = "ok" => trouble \cap Watched(k, config) = {}
    BY <1>13, <2>1 DEF RealDebridAccount, Watched
  <2> QED
    BY <1>0, <1>13, <2>2 DEF Says
<1>14. CASE k = "decypharr-reinsertion"
  <2>1. status = Reinsertion(memo'.log, reinserted)
    BY <1>14 DEF CheckStatus
  <2> QED
    BY <1>14, <2>1 DEF Reinsertion, Says, Watched
<1>15. CASE k = "library"
  <2>1. status = Library(memo'.stack, trouble)
    BY <1>15 DEF CheckStatus, StorageChecks, ReportChecks
  <2>2. /\ status \in Statuses
        /\ status = "skipped" => ~Running(memo'.stack, "sonarr")
        /\ status = "ok" => trouble \cap Watched(k, config) = {}
    BY <1>15, <2>1 DEF Library, Read, Watched
  <2> QED
    BY <1>0, <1>15, <2>2, GatedSays, GatesAre DEF StackChecks
<1>16. CASE k = "bazarr-providers"
  <2>1. status = BazarrProviders(config, memo'.stack, trouble)
    BY <1>16 DEF CheckStatus, StorageChecks, ReportChecks
  <2>2. /\ status \in Statuses
        /\ status = "skipped" => ~Running(memo'.stack, "bazarr")
        /\ status = "ok" => trouble \cap Watched(k, config) = {}
    BY <1>16, <2>1 DEF BazarrProviders, Read, Watched
  <2> QED
    BY <1>0, <1>16, <2>2, GatedSays, GatesAre DEF StackChecks
<1>17. CASE k = "jellyfin-policy"
  <2>1. status = JellyfinPolicy(config, memo'.stack, trouble)
    BY <1>17 DEF CheckStatus, StorageChecks, ReportChecks
  <2>2. /\ status \in Statuses
        /\ status = "skipped" /\ config.jellyfinKey => ~Running(memo'.stack, "jellyfin")
        /\ status = "ok" => trouble \cap Watched(k, config) = {}
    BY <1>17, <2>1 DEF JellyfinPolicy, Read, Watched
  <2>3. CASE config.jellyfinKey
    BY <1>0, <1>17, <2>2, <2>3, GatedSays, GatesAre DEF StackChecks
  <2>4. CASE ~config.jellyfinKey
    BY <1>0, <1>17, <2>2, <2>4 DEF Says
  <2> QED
    BY <2>3, <2>4
<1> QED
  BY <1>2, <1>3, <1>4, <1>5, <1>6, <1>7, <1>8, <1>9, <1>10, <1>11, <1>12, <1>13,
     <1>14, <1>15, <1>16, <1>17
     DEF CheckIds, StackChecks, StorageChecks, ReportChecks, HostIds

-----------------------------------------------------------------------------
(* The findings are borne out in every state.                                *)

\* What no step takes back: readings of this run, and how long things last.
Onward ==
  /\ config' = config /\ lasting' \subseteq lasting /\ stuckSince' \subseteq stuckSince
  /\ memo.stack.known => memo'.stack = memo.stack
  /\ memo.report.known => memo'.report = memo.report

\* What a status says stays said: readings stay, and what lasts only ends.
LEMMA SaysKept ==
  ASSUME Onward, NEW k, NEW status, Says(k, status)
  PROVE  Says(k, status)'
<1>1. ASSUME NEW s, NotRunning(s)
      PROVE  NotRunning(s)'
  BY <1>1 DEF NotRunning, Onward
<1> QED
  BY <1>1 DEF Says, Onward

\* The same for every result.
LEMMA EvidenceKept ==
  ASSUME Evidence, Onward, results' = results
  PROVE  Evidence'
<1> SUFFICES ASSUME NEW k \in CheckIds
             PROVE  Says(k, results[k])'
  BY DEF Evidence
<1>1. PICK status : status = results[k]
  OBVIOUS
<1>2. Says(k, status)
  BY <1>1 DEF Evidence
<1>3. Says(k, status)'
  BY <1>2, SaysKept
<1> QED
  BY <1>1, <1>3

\* A check that records what is borne out.
LEMMA EvidenceRecorded ==
  ASSUME Typed, Evidence, Onward, NEW k, NEW status,
         results' = [results EXCEPT ![k] = status],
         k \in CheckIds => status \in Statuses /\ Says(k, status)'
  PROVE  Evidence' /\ results' \in [CheckIds -> Statuses \cup {"none"}]
<1>1. results' \in [CheckIds -> Statuses \cup {"none"}]
  BY DEF Typed
<1>2. ASSUME NEW x \in CheckIds
      PROVE  Says(x, results[x])'
  <2>1. PICK now : now = results'[x]
    OBVIOUS
  <2>2. CASE x = k
    <3>1. now = status
      BY <2>1, <2>2 DEF Typed
    <3> QED
      BY <2>1, <2>2, <3>1
  <2>3. CASE x # k
    <3>1. now = results[x]
      BY <2>1, <2>3 DEF Typed
    <3>2. Says(x, now)
      BY <3>1 DEF Evidence
    <3>3. Says(x, now)'
      BY <3>2, SaysKept
    <3> QED
      BY <2>1, <3>3
  <2> QED
    BY <2>2, <2>3
<1> QED
  BY <1>1, <1>2 DEF Evidence

\* What the scan has read stays read.
LEMMA ScannedKept ==
  ASSUME Scanned, Onward, scan' = scan
  PROVE  Scanned'
<1>1. ASSUME NEW s, NotRunning(s)
      PROVE  NotRunning(s)'
  BY <1>1 DEF NotRunning, Onward
<1> QED
  BY <1>1 DEF Scanned, Onward

\* A scan that has read nothing claims nothing.
LEMMA ScanBegins ==
  ASSUME scan' = NoScan
  PROVE  Scanned' /\ NoScan \in Scans
<1>1. NoScan.left = <<"sonarr", "radarr">> /\ NoScan.read = {}
  BY DEF NoScan
<1> QED
  BY <1>1 DEF Scanned, NoScan, Scans

\* A check leaves the list when it has a result.
LEMMA CompleteRecorded ==
  ASSUME Typed, Complete, Checking, ~aborted, NEW status \in Statuses,
         Record(Head(todo), status), UNCHANGED <<pc, aborted, config, exit>>
  PROVE  Complete'
<1>1. Listed' = Listed /\ Listed \subseteq CheckIds
  <2>1. HostIds \subseteq CheckIds
    BY DEF HostIds, CheckIds, StackChecks, StorageChecks, ReportChecks
  <2> QED
    BY <2>1, ListsAreWhole DEF Typed, Listed, Configurations
<1>2. results' = [results EXCEPT ![Head(todo)] = status] /\ todo' = Tail(todo)
      /\ status # "none"
  BY DEF Record, Statuses
<1>3. ASSUME NEW k \in Listed, results[k] # "none"
      PROVE  results'[k] # "none"
  BY <1>1, <1>2, <1>3 DEF Typed
<1>4. CASE pc = "check"
  <2>1. todo \in Seq(Listed) /\ todo # <<>>
        /\ \A k \in Listed : results[k] # "none" \/ \E i \in 1..Len(todo) : todo[i] = k
    BY <1>4 DEF Complete, Checking
  <2>2. todo' \in Seq(Listed)
    BY <1>2, <2>1
  <2>3. ASSUME NEW k \in Listed
        PROVE  results'[k] # "none" \/ \E i \in 1..Len(todo') : todo'[i] = k
    <3>1. CASE results[k] # "none"
      BY <1>3, <3>1
    <3>2. CASE \E i \in 1..Len(todo) : todo[i] = k
      <4>1. PICK i \in 1..Len(todo) : todo[i] = k
        BY <3>2
      <4>2. CASE i = 1
        <5>1. k = Head(todo)
          BY <2>1, <4>1, <4>2
        <5> QED
          BY <1>1, <1>2, <5>1 DEF Typed
      <4>3. CASE i # 1
        <5>1. i - 1 \in 1..Len(todo') /\ todo'[i - 1] = k
          BY <1>2, <2>1, <4>1, <4>3
        <5> QED
          BY <5>1
      <4> QED
        BY <4>2, <4>3
    <3> QED
      BY <2>1, <3>1, <3>2
  <2> QED
    BY <1>1, <1>4, <2>2, <2>3 DEF Complete
<1>5. CASE pc # "check"
  BY <1>1, <1>3, <1>5 DEF Complete, Checking
<1> QED
  BY <1>4, <1>5

\* The rest leaves the list and the results alone.
LEMMA CompleteKept ==
  ASSUME Complete, UNCHANGED <<config, todo, results, exit, pc>>,
         \/ aborted' = aborted
         \/ aborted' = TRUE /\ config.command = "doctor" /\ pc # "done"
  PROVE  Complete'
BY DEF Complete, Listed

\* In the beginning nothing has been found and every check is to come.
LEMMA InitFindings == Init => Findings
<1> SUFFICES ASSUME Init PROVE Findings
  OBVIOUS
<1>1. PICK s \in Scenarios : /\ config = s.config /\ may = s.may /\ chances = s.chances
                             /\ trouble \in s.start /\ queue \in s.queues
  BY DEF Init
<1>2. /\ config \in Configurations /\ trouble \subseteq Conditions
      /\ may \subseteq Conditions /\ queue \in [Items -> Stages]
  BY <1>1, DoctorAssumption
<1>3. NoMemo \in Memos /\ ~NoMemo.stack.answered /\ ~NoMemo.report.answered
      /\ ~NoMemo.log.answered
  BY DEF NoMemo, Memos, Readings, Unread
<1>4. NoScan \in Scans /\ NoScan.left = <<"sonarr", "radarr">> /\ NoScan.read = {}
  BY DEF NoScan, Scans
<1>5. Typed
  BY <1>2, <1>3, <1>4 DEF Typed, Init
<1>6. Shared
  BY <1>3 DEF Shared, Init
<1>7. Evidence
  <2> SUFFICES ASSUME NEW k \in CheckIds PROVE Says(k, results[k])
    BY DEF Evidence
  <2>1. results[k] = "none"
    BY DEF Init
  <2> QED
    BY <2>1 DEF Says
<1>8. Scanned
  BY <1>4 DEF Scanned, Init
<1>9. Complete
  <2>1. todo \in Seq(Listed) /\ todo = Checks(config) /\ pc = "check" /\ ~aborted
        /\ exit # "0"
    BY <1>2, ListsAreWhole DEF Init
  <2>2. \A k \in Listed : \E i \in 1..Len(todo) : todo[i] = k
    BY <2>1 DEF Listed
  <2> QED
    BY <2>1, <2>2 DEF Complete
<1> QED
  BY <1>5, <1>6, <1>7, <1>8, <1>9 DEF Findings

\* Both lists are made of checks.
LEMMA ListedAreChecks == Typed => Listed \subseteq CheckIds
<1>1. HostIds \subseteq CheckIds
  BY DEF HostIds, CheckIds, StackChecks, StorageChecks, ReportChecks
<1> QED
  BY <1>1, ListsAreWhole DEF Typed, Listed, Configurations

\* A check that shares what is known and records what is borne out.
LEMMA RecordKeepsFindings ==
  ASSUME Findings, Checking, ~aborted, NEW k, k = Head(todo), NEW status \in Statuses,
         memo' = Remember(k), Record(k, status),
         k \in CheckIds => Says(k, status)',
         UNCHANGED <<config, may, trouble, queue, pc, aborted, exit, lasting, stuckSince>>
  PROVE  Findings'
<1> USE DEF Findings
<1>1. Onward
  BY Remembered DEF Onward
<1>2. results' = [results EXCEPT ![k] = status] /\ scan' = NoScan
  BY DEF Record
<1>3. Evidence' /\ results' \in [CheckIds -> Statuses \cup {"none"}]
  BY <1>1, <1>2, EvidenceRecorded
<1>4. Scanned' /\ NoScan \in Scans
  BY <1>2, ScanBegins
<1>5. Complete'
  BY CompleteRecorded
<1>6. Typed'
  BY <1>2, <1>3, <1>4, Remembered DEF Typed
<1>7. Shared'
  BY <1>6, Remembered, SharedReadings DEF Typed
<1> QED
  BY <1>3, <1>4, <1>5, <1>6, <1>7

\* A check that answers: of the host, of the shared readings, or run again.
LEMMA RunCheckKeepsFindings ==
  ASSUME Findings, RunCheck
  PROVE  Findings'
<1> USE DEF Findings
<1>1. PICK k : k = Head(todo)
  OBVIOUS
<1>2. PICK status :
        status = IF config.command = "check" THEN HostStatus(k, config, trouble)
                 ELSE CheckStatus(k, config, trouble, memo', reinserted)
  OBVIOUS
<1>3. /\ Checking /\ ~aborted /\ k # "stuck-downloads"
      /\ memo' = Remember(k) /\ Record(k, status)
      /\ UNCHANGED <<config, may, trouble, queue, pc, aborted, exit, lasting, stuckSince>>
  BY <1>1, <1>2 DEF RunCheck, world, history
<1>4. memo' \in Memos /\ Shared'
  <2>1. memo' \in Memos
    BY <1>3, Remembered
  <2> QED
    BY <1>3, <2>1, Remembered, SharedReadings
<1>5. CASE k \in CheckIds
  <2>1. CASE config.command = "check"
    <3>1. pc = "check"
      BY <1>3, <2>1 DEF Complete, Checking
    <3>2. k \in HostIds
      <4>1. todo \in Seq(Listed) /\ todo # <<>>
        BY <1>3, <3>1 DEF Complete, Checking
      <4>2. k \in Listed
        BY <1>1, <4>1
      <4> QED
        BY <2>1, <4>2, ListsAreWhole DEF Typed
    <3>3. /\ status \in Statuses \ {"skipped"}
          /\ status = "ok" => trouble \cap Watched(k, config) = {}
      BY <1>2, <2>1, <3>2, HostStatusSays
    <3>4. Says(k, status)'
      BY <1>3, <3>2, <3>3 DEF Says, HostIds, Typed
    <3> QED
      BY <1>1, <1>3, <3>3, <3>4, RecordKeepsFindings
  <2>2. CASE config.command # "check"
    <3>1. status = CheckStatus(k, config, trouble, memo', reinserted)
      BY <1>2, <2>2
    <3>2. status \in Statuses /\ Says(k, status)'
      BY <1>3, <1>4, <1>5, <3>1, CheckStatusSays
    <3> QED
      BY <1>1, <1>3, <3>2, RecordKeepsFindings
  <2> QED
    BY <2>1, <2>2
<1>6. CASE k \notin CheckIds
  <2>1. pc = "again"
    <3>1. CASE pc = "check"
      <4>1. todo \in Seq(Listed) /\ todo # <<>>
        BY <1>3, <3>1 DEF Complete, Checking
      <4>2. k \in Listed
        BY <1>1, <4>1
      <4> QED
        BY <1>6, <4>2, ListedAreChecks
    <3> QED
      BY <1>3, <3>1 DEF Checking
  <2>2. results' = results /\ scan' = NoScan
    <3>1. results' = [results EXCEPT ![k] = status] /\ scan' = NoScan
      BY <1>3 DEF Record
    <3>2. results \in [CheckIds -> Statuses \cup {"none"}]
      BY DEF Typed
    <3> QED
      BY <1>6, <3>1, <3>2
  <2>3. Onward
    BY <1>3, Remembered DEF Onward
  <2>4. Evidence'
    BY <2>2, <2>3, EvidenceKept
  <2>5. Scanned' /\ NoScan \in Scans
    BY <2>2, ScanBegins
  <2>6. Complete'
    BY <1>3, <2>1, <2>2 DEF Complete, Listed
  <2>7. Typed'
    BY <1>3, <1>4, <2>2, <2>5 DEF Typed
  <2> QED
    BY <1>4, <2>4, <2>5, <2>6, <2>7
<1> QED
  BY <1>5, <1>6

\* A check that times out is recorded as an error, which claims nothing.
LEMMA TimeOutKeepsFindings ==
  ASSUME Findings, TimeOut
  PROVE  Findings'
<1>1. PICK k : k = Head(todo)
  OBVIOUS
<1>2. /\ Checking /\ ~aborted /\ memo' = Remember(k) /\ Record(k, "error")
      /\ UNCHANGED <<config, may, trouble, queue, pc, aborted, exit, lasting, stuckSince>>
  BY <1>1 DEF TimeOut, world, history
<1>3. "error" \in Statuses /\ Says(k, "error")'
  BY DEF Statuses, Says
<1> QED
  BY <1>1, <1>2, <1>3, RecordKeepsFindings

\* What the end of the scan says of what has been stuck all the time.
LEMMA EndScanKeepsFindings ==
  ASSUME Findings, EndScan
  PROVE  Findings'
<1> USE DEF Findings
<1>1. PICK status : status = StuckDownloads(scan)
  OBVIOUS
<1>2. /\ Checking /\ ~aborted /\ "stuck-downloads" = Head(todo) /\ scan.left = <<>>
      /\ memo' = Remember("stuck-downloads") /\ Record("stuck-downloads", status)
      /\ UNCHANGED <<config, may, trouble, queue, pc, aborted, exit, lasting, stuckSince>>
  BY <1>1 DEF EndScan, world, history
<1>3. memo.stack.known => memo'.stack = memo.stack
  BY <1>2, Remembered
<1>4. /\ status \in Statuses
      /\ status = "skipped" => scan.read = {} /\ scan.unread = {}
      /\ status = "ok" => scan.unread = {} /\ scan.stuck = {}
  BY <1>1 DEF StuckDownloads, Worst, Statuses
<1>5. ASSUME NEW s \in Arrs
      PROVE  s \in scan.read \cup scan.unread \/ NotRunning(s)
  BY <1>2 DEF Scanned
<1>6. ASSUME NEW s, NotRunning(s) PROVE NotRunning(s)'
  BY <1>3, <1>6 DEF NotRunning
<1>7. status = "skipped" => \A s \in Arrs : NotRunning(s)'
  BY <1>4, <1>5, <1>6
<1>8. ASSUME NEW i \in stuckSince, status \in {"ok", "skipped"}
      PROVE  NotRunning(AppOf[i])'
  <2>1. AppOf[i] \in Arrs
    BY DoctorAssumption DEF Typed
  <2>2. CASE status = "skipped"
    BY <1>7, <2>1, <2>2
  <2>3. CASE status = "ok"
    <3>1. AppOf[i] \notin scan.read
      BY <1>4, <2>3 DEF Scanned
    <3>2. NotRunning(AppOf[i])
      BY <1>4, <1>5, <2>1, <2>3, <3>1
    <3> QED
      BY <1>6, <3>2
  <2> QED
    BY <1>8, <2>2, <2>3
<1>9. Says("stuck-downloads", status)'
  <2>1. status = "ok" => lasting' \cap Watched("stuck-downloads", config') = {}
    BY DEF Watched
  <2>2. status \in {"ok", "skipped"} => \A i \in stuckSince' : NotRunning(AppOf[i])'
    BY <1>2, <1>8
  <2> QED
    BY <1>7, <2>1, <2>2 DEF Says
<1> QED
  BY <1>2, <1>4, <1>9, RecordKeepsFindings

\* A queue that is read is read whole, one of a service that is down is not.
LEMMA ReadQueueKeepsFindings ==
  ASSUME Findings, ReadQueue
  PROVE  Findings'
<1> USE DEF Findings
<1>1. /\ Checking /\ ~aborted /\ scan.left # <<>>
      /\ UNCHANGED <<config, may, trouble, queue, pc, todo, results, aborted, exit,
                     lasting, stuckSince>>
      /\ memo' = [memo EXCEPT !.stack = IF @.known THEN @ ELSE StackReading(config, trouble)]
  BY DEF ReadQueue, world, history
<1>2. /\ memo' \in Memos /\ memo'.report = memo.report /\ memo'.log = memo.log
      /\ memo'.stack.known /\ (memo.stack.known => memo'.stack = memo.stack)
      /\ memo'.stack \in {memo.stack, StackReading(config, trouble)}
  <2>1. StackReading(config, trouble) \in Readings /\ StackReading(config, trouble).known
    BY ReadingTypes DEF Typed, StackReading, Reading
  <2> QED
    BY <1>1, <2>1 DEF Typed, Memos
<1>3. Onward
  BY <1>1, <1>2 DEF Onward
<1>4. Shared'
  BY <1>1, <1>2, SharedReadings DEF Typed
<1>5. Evidence' /\ Complete'
  BY <1>1, <1>3, EvidenceKept, CompleteKept
<1>6. PICK app : app = Head(scan.left)
  OBVIOUS
<1>7. PICK stuck, undated :
        /\ stuck = {k \in Items : AppOf[k] = app /\ queue[k] = "stuck"}
        /\ undated = {k \in Items : AppOf[k] = app /\ queue[k] = "undated"}
  OBVIOUS
<1>8. \/ /\ ~Running(memo'.stack, app)
         /\ scan' = [scan EXCEPT !.left = Tail(scan.left)]
      \/ scan' = [scan EXCEPT !.left = Tail(scan.left), !.unread = scan.unread \cup {app}]
      \/ scan' = [scan EXCEPT !.left = Tail(scan.left), !.read = scan.read \cup {app},
                              !.stuck = scan.stuck \cup stuck,
                              !.undated = scan.undated \cup undated]
  <2>1. PICK rest : rest = [scan EXCEPT !.left = Tail(scan.left)]
    OBVIOUS
  <2>2. scan' = IF ~Running(memo'.stack, app) THEN rest
                ELSE IF Unreadable(app, trouble) THEN [rest EXCEPT !.unread = @ \cup {app}]
                ELSE [rest EXCEPT !.read = @ \cup {app}, !.stuck = @ \cup stuck,
                                  !.undated = @ \cup undated]
    BY <1>6, <1>7, <2>1 DEF ReadQueue
  <2> QED
    BY <2>1, <2>2 DEF Typed, Scans
<1>9. \/ /\ scan.left = <<"sonarr", "radarr">> /\ app = "sonarr"
         /\ Tail(scan.left) = <<"radarr">>
      \/ scan.left = <<"radarr">> /\ app = "radarr" /\ Tail(scan.left) = <<>>
  <2>1. Head(<<"sonarr", "radarr">>) = "sonarr" /\ Tail(<<"sonarr", "radarr">>) = <<"radarr">>
    OBVIOUS
  <2>2. Head(<<"radarr">>) = "radarr" /\ Tail(<<"radarr">>) = <<>>
    OBVIOUS
  <2>3. scan.left \in {<<"sonarr", "radarr">>, <<"radarr">>}
    BY <1>1 DEF Typed, Scans
  <2> QED
    BY <1>6, <2>1, <2>2, <2>3
<1>10. /\ scan' \in Scans /\ scan'.left = Tail(scan.left)
       /\ scan.read \subseteq scan'.read /\ scan.unread \subseteq scan'.unread
       /\ scan.stuck \subseteq scan'.stuck
       /\ app \in scan'.read \cup scan'.unread \/ ~Running(memo'.stack, app)
       /\ scan'.read \subseteq scan.read \cup {app}
       /\ app \in scan'.read => app \in scan.read \/ stuck \subseteq scan'.stuck
  <2>1. /\ Tail(scan.left) \in {<<"radarr">>, <<>>} /\ app \in Arrs
        /\ stuck \subseteq Items /\ undated \subseteq Items
    BY <1>7, <1>9 DEF Arrs
  <2>2. scan \in [left : {<<"sonarr", "radarr">>, <<"radarr">>, <<>>}, read : SUBSET Arrs,
                  unread : SUBSET Arrs, stuck : SUBSET Items, undated : SUBSET Items]
    BY DEF Typed, Scans
  <2>3. scan' \in Scans
    BY <1>8, <2>1, <2>2 DEF Scans
  <2>4. /\ scan'.left = Tail(scan.left)
        /\ scan.read \subseteq scan'.read /\ scan.unread \subseteq scan'.unread
        /\ scan.stuck \subseteq scan'.stuck
    BY <1>8, <2>2
  <2>5. /\ app \in scan'.read \cup scan'.unread \/ ~Running(memo'.stack, app)
        /\ scan'.read \subseteq scan.read \cup {app}
        /\ app \in scan'.read => app \in scan.read \/ stuck \subseteq scan'.stuck
    BY <1>8, <2>2
  <2> QED
    BY <2>3, <2>4, <2>5
<1>11. Typed'
  BY <1>1, <1>2, <1>10 DEF Typed
<1>12. Scanned'
  <2>1. ASSUME NEW s \in Arrs
        PROVE  (\/ s = "radarr" /\ scan.left # <<>>
                \/ scan.left = <<"sonarr", "radarr">>
                \/ s \in scan.read \cup scan.unread \/ NotRunning(s))'
    <3>1. CASE s = app
      BY <1>2, <1>10, <3>1 DEF NotRunning
    <3>2. CASE s # app /\ scan.left = <<"sonarr", "radarr">>
      BY <1>9, <1>10, <3>2 DEF Arrs
    <3>3. CASE s # app /\ scan.left # <<"sonarr", "radarr">>
      <4>1. s \in scan.read \cup scan.unread \/ NotRunning(s)
        BY <1>9, <3>3 DEF Scanned
      <4>2. NotRunning(s) => NotRunning(s)'
        BY <1>2 DEF NotRunning
      <4> QED
        BY <1>10, <4>1, <4>2
    <3> QED
      BY <3>1, <3>2, <3>3
  <2>2. ASSUME NEW k \in stuckSince', AppOf[k] \in scan'.read
        PROVE  k \in scan'.stuck
    <3>1. k \in stuckSince /\ k \in Items /\ queue[k] = "stuck"
      BY <1>1, <2>2 DEF Typed
    <3>2. AppOf[k] \in scan.read \/ (AppOf[k] = app /\ stuck \subseteq scan'.stuck)
      <4>1. scan'.read \subseteq scan.read \cup {app}
            /\ (app \in scan'.read => app \in scan.read \/ stuck \subseteq scan'.stuck)
        BY <1>10
      <4> QED
        BY <2>2, <4>1
    <3> QED
      BY <1>7, <1>10, <3>1, <3>2 DEF Scanned
  <2> QED
    BY <2>1, <2>2 DEF Scanned
<1> QED
  BY <1>4, <1>5, <1>11, <1>12

\* A step that records nothing: readings of the services stay as they are, and
\* what has been wrong all the time may end.
LEMMA RestKeepsFindings ==
  ASSUME Findings, UNCHANGED <<config, may, results, scan>>,
         memo' \in Memos, memo'.stack = memo.stack, memo'.report = memo.report,
         memo'.log \in {memo.log, LogReading(trouble), Unread},
         trouble' \subseteq Conditions, lasting' \subseteq lasting \cap trouble',
         stuckSince' \subseteq stuckSince, \A k \in stuckSince' : queue'[k] = "stuck",
         Complete'
  PROVE  Findings'
<1> USE DEF Findings
<1>1. Onward
  BY DEF Onward
<1>2. Typed'
  BY DEF Typed
<1>3. Shared'
  BY SharedReadings
<1> QED
  BY <1>1, <1>2, <1>3, EvidenceKept, ScannedKept

\* The list ends with every check recorded, or with an interrupt.
LEMMA ChecksEndWithFindings ==
  ASSUME Findings, CheckAborted \/ EndOfChecks
  PROVE  Findings'
<1> USE DEF Findings
<1>1. /\ UNCHANGED <<config, may, trouble, queue, results, scan, memo, aborted, exit,
                     lasting, stuckSince>>
      /\ memo \in Memos /\ lasting \subseteq trouble /\ trouble \subseteq Conditions
      /\ \A k \in stuckSince : queue[k] = "stuck"
  BY DEF CheckAborted, EndOfChecks, world, history, Typed
<1>2. Listed' = Listed
  BY <1>1 DEF Listed
<1>3. Complete'
  <2>1. CASE CheckAborted
    BY <1>1, <2>1 DEF CheckAborted, Complete, Checking
  <2>2. CASE EndOfChecks
    <3>1. ~aborted => \A k \in Listed : results[k] # "none"
      BY <2>2 DEF EndOfChecks, Complete
    <3>2. pc = "check" /\ pc' \in {"before", "done"}
          /\ (pc' = "before" => config.command = "doctor")
      BY <2>2 DEF EndOfChecks
    <3> QED
      BY <1>1, <1>2, <3>1, <3>2 DEF Complete
  <2> QED
    BY <2>1, <2>2
<1> QED
  BY <1>1, <1>3, RestKeepsFindings

\* The fix changes no result, and reads only the log again.
LEMMA FixKeepsFindings ==
  ASSUME Findings, IInv,
         \/ CountBefore \/ Decide \/ Remove \/ RemovalFails \/ RemovalUnknown
         \/ EndOfRemovals \/ Settle \/ CountAfter \/ EndOfRerun
  PROVE  Findings'
<1> USE DEF Findings, world, history, fix
<1>1. UNCHANGED <<config, may, trouble, results, scan, aborted, exit, lasting>>
  BY DEF CountBefore, Decide, Remove, RemovalFails, RemovalUnknown, EndOfRemovals,
         Settle, CountAfter, EndOfRerun
<1>2. Complete'
  <2>1. pc # "check" /\ pc' # "check" /\ (pc = "done" => pc' = "done")
        /\ (pc = "done" => FALSE)
    BY DEF CountBefore, Decide, Remove, RemovalFails, RemovalUnknown, EndOfRemovals,
           Settle, CountAfter, EndOfRerun
  <2>2. exit # "0"
    BY <2>1 DEF Complete
  <2> QED
    BY <1>1, <2>1, <2>2 DEF Complete, Listed
<1>3. /\ memo' \in Memos /\ memo'.stack = memo.stack /\ memo'.report = memo.report
      /\ memo'.log \in {memo.log, LogReading(trouble), Unread}
  <2>1. CASE CountBefore \/ CountAfter
    <3>1. memo' = Reread
      BY <2>1 DEF CountBefore, CountAfter
    <3>2. LogReading(trouble) \in Readings /\ Unread \in Readings /\ memo \in Memos
      BY ReadingTypes DEF Typed, Readings, Unread
    <3> QED
      BY <3>1, <3>2 DEF Reread, Memos
  <2>2. CASE ~(CountBefore \/ CountAfter)
    <3>1. memo' = memo
      BY <2>2 DEF Decide, Remove, RemovalFails, RemovalUnknown, EndOfRemovals, Settle,
                  EndOfRerun
    <3> QED
      BY <3>1 DEF Typed
  <2> QED
    BY <2>1, <2>2
<1>4. stuckSince' \subseteq stuckSince /\ \A k \in stuckSince' : queue'[k] = "stuck"
  <2>1. CASE Remove \/ RemovalUnknown
    <3>1. PICK k : /\ queue' = [queue EXCEPT ![k] = "absent"]
                   /\ stuckSince' = stuckSince \ {k}
      BY <2>1 DEF Remove, RemovalUnknown
    <3> QED
      BY <3>1 DEF Typed, IInv, Whereabouts
  <2>2. CASE ~(Remove \/ RemovalUnknown)
    <3>1. UNCHANGED <<queue, stuckSince>>
      BY <2>2 DEF CountBefore, Decide, RemovalFails, EndOfRemovals, Settle, CountAfter,
                  EndOfRerun
    <3> QED
      BY <3>1 DEF Typed
  <2> QED
    BY <2>1, <2>2
<1>5. lasting \subseteq trouble /\ trouble \subseteq Conditions
  BY DEF Typed
<1> QED
  BY <1>1, <1>2, <1>3, <1>4, <1>5, RestKeepsFindings

\* An exit with 0 has no error among the results.
LEMMA ExitKeepsFindings ==
  ASSUME Findings, Exit
  PROVE  Findings'
<1> USE DEF Findings, world, history, fix
<1>1. /\ UNCHANGED <<config, may, trouble, queue, todo, results, scan, memo, aborted, pc,
                     lasting, stuckSince>>
      /\ pc = "done" /\ (exit' = "0" => ~aborted /\ Success)
  BY DEF Exit
<1>2. Complete'
  BY <1>1 DEF Complete, Success, Listed, Errors
<1> QED
  BY <1>1, <1>2, RestKeepsFindings DEF Typed

\* Whatever comes or goes meanwhile has not been there all the time.
LEMMA SurroundingsKeepFindings ==
  ASSUME Findings, IInv, ConditionComesOrGoes \/ DownloadMoves \/ LogMoves \/ Interrupt
  PROVE  Findings'
<1> USE DEF Findings, world, history, fix, Change
<1>1. UNCHANGED <<config, may, pc, todo, results, scan, memo, exit>>
  BY DEF ConditionComesOrGoes, DownloadMoves, LogMoves, Interrupt
<1>2. Complete'
  <2>1. CASE Interrupt
    BY <1>1, <2>1, CompleteKept DEF Interrupt
  <2>2. CASE ~Interrupt
    <3>1. aborted' = aborted
      BY <2>2 DEF ConditionComesOrGoes, DownloadMoves, LogMoves
    <3> QED
      BY <1>1, <3>1, CompleteKept
  <2> QED
    BY <2>1, <2>2
<1>3. trouble' \subseteq Conditions /\ lasting' \subseteq lasting \cap trouble'
  <2>1. CASE ConditionComesOrGoes
    <3>1. PICK x \in may :
            trouble' = IF x \in trouble THEN trouble \ {x}
                       ELSE {y \in trouble : ~(/\ y[1] = x[1]
                                               /\ {x, y} \subseteq ContainerConditions)}
                              \cup {x}
      BY <2>1 DEF ConditionComesOrGoes
    <3>2. trouble' \subseteq trouble \cup may
      BY <3>1
    <3> QED
      BY <2>1, <3>2 DEF ConditionComesOrGoes, Typed
  <2>2. CASE ~ConditionComesOrGoes
    BY <2>2 DEF DownloadMoves, LogMoves, Interrupt, Typed
  <2> QED
    BY <2>1, <2>2
<1>4. stuckSince' \subseteq stuckSince /\ \A k \in stuckSince' : queue'[k] = "stuck"
  <2>1. CASE DownloadMoves
    <3>1. PICK k \in Items : \E next : /\ queue' = [queue EXCEPT ![k] = next]
                                       /\ stuckSince' = stuckSince \ {k}
      BY <2>1 DEF DownloadMoves
    <3> QED
      BY <3>1 DEF Typed, IInv, Whereabouts
  <2>2. CASE ~DownloadMoves
    BY <2>2 DEF ConditionComesOrGoes, LogMoves, Interrupt, Typed
  <2> QED
    BY <2>1, <2>2
<1> QED
  BY <1>1, <1>2, <1>3, <1>4, RestKeepsFindings DEF Typed

\* The findings are borne out in every reachable state.
LEMMA FindingsHold == Spec => []Findings
<1>1. ASSUME Findings, IInv, [Next]_vars
      PROVE  Findings'
  <2>1. CASE UNCHANGED vars
    <3>1. UNCHANGED <<config, may, trouble, queue, pc, todo, results, scan, memo, aborted,
                      exit, lasting, stuckSince>>
      BY <2>1 DEF vars, world, history
    <3>2. Complete'
      BY <1>1, <3>1, CompleteKept DEF Findings
    <3> QED
      BY <1>1, <3>1, <3>2, RestKeepsFindings DEF Findings, Typed
  <2>2. CASE RunCheck
    BY <1>1, <2>2, RunCheckKeepsFindings
  <2>3. CASE ReadQueue
    BY <1>1, <2>3, ReadQueueKeepsFindings
  <2>4. CASE EndScan
    BY <1>1, <2>4, EndScanKeepsFindings
  <2>5. CASE TimeOut
    BY <1>1, <2>5, TimeOutKeepsFindings
  <2>6. CASE CheckAborted \/ EndOfChecks
    BY <1>1, <2>6, ChecksEndWithFindings
  <2>7. CASE \/ CountBefore \/ Decide \/ Remove \/ RemovalFails \/ RemovalUnknown
             \/ EndOfRemovals \/ Settle \/ CountAfter \/ EndOfRerun
    BY <1>1, <2>7, FixKeepsFindings
  <2>8. CASE Exit
    BY <1>1, <2>8, ExitKeepsFindings
  <2>9. CASE ConditionComesOrGoes \/ DownloadMoves \/ LogMoves \/ Interrupt
    BY <1>1, <2>9, SurroundingsKeepFindings
  <2> QED
    BY <1>1, <2>1, <2>2, <2>3, <2>4, <2>5, <2>6, <2>7, <2>8, <2>9
       DEF Next, CliStep, UserAnswers
<1>2. Spec => []IInv
  BY Invariance
<1> QED
  BY <1>1, <1>2, InitFindings, PTL DEF Spec

-----------------------------------------------------------------------------
(* Types.                                                                    *)

\* What the findings and the stages of a fix do not say of the variables.  The
\* list of the second pass is an exception: SelectSeq makes it.
Bounds ==
  /\ queue \in [Items -> Stages] /\ pending \subseteq Items
  /\ reinserted \in 0..MaxReinserted /\ chances \in Nat
  /\ before \in 0..MaxReinserted /\ after \in 0..MaxReinserted
  /\ aborted \in BOOLEAN /\ exit \in {"running", "0", "1", "130"}
  /\ pc \in Labels
  /\ pc # "again" => todo \in Seq(CheckIds)
  /\ pc \in {"before", "ask", "remove", "settle", "after"} => todo = <<>>

LEMMA InitBounds == Init => Bounds
<1> SUFFICES ASSUME Init PROVE Bounds
  OBVIOUS
<1>1. PICK s \in Scenarios : config = s.config /\ chances = s.chances /\ queue \in s.queues
  BY DEF Init
<1>2. config \in Configurations /\ chances \in Nat /\ queue \in [Items -> Stages]
  BY <1>1, DoctorAssumption
<1>3. todo \in Seq(CheckIds)
  <2>1. todo \in Seq(Listed) /\ Listed \subseteq CheckIds
    BY <1>2, ListsAreWhole DEF Init, HostIds, CheckIds, StackChecks, StorageChecks,
       ReportChecks, Configurations
  <2> QED
    BY <2>1
<1>4. MaxReinserted \in Nat /\ Threshold \in 0..MaxReinserted
  BY DoctorAssumption
<1>5. reinserted \in 0..MaxReinserted /\ 0 \in 0..MaxReinserted
  BY <1>4 DEF Init
<1> QED
  BY <1>2, <1>3, <1>5 DEF Init, Bounds, Labels

LEMMA NextBounds ==
  ASSUME Findings, IInv, Bounds, [Next]_vars
  PROVE  Bounds'
<1> USE DEF Bounds
<1>0. /\ Labels' = Labels /\ Stages' = Stages /\ CheckIds' = CheckIds
      /\ scan.stuck \subseteq Items
  BY DEF Labels, Stages, IInv, Whereabouts
<1>1. CASE UNCHANGED vars
  BY <1>1 DEF vars, world, fix
<1>2. CASE RunCheck \/ EndScan \/ TimeOut
  <2>1. /\ todo' = Tail(todo) /\ todo # <<>> /\ pc' = pc /\ pc \in {"check", "again"}
        /\ UNCHANGED <<queue, reinserted, before, after, aborted, exit>>
    BY <1>2 DEF RunCheck, EndScan, TimeOut, Record, Checking, world, fix
  <2>2. ASSUME pc = "check" PROVE todo' \in Seq(CheckIds)
    <3>1. PICK list \in Seq(CheckIds) : list = todo
      BY <2>2
    <3>2. list # <<>>
      BY <2>1, <3>1
    <3>3. Tail(list) \in Seq(CheckIds)
      BY <3>1, <3>2
    <3> QED
      BY <2>1, <3>1, <3>3
  <2>3. chances' \in Nat
    BY <1>2 DEF RunCheck, EndScan, TimeOut
  <2>4. pending' \subseteq Items
    BY <1>2, <1>0 DEF RunCheck, EndScan, TimeOut, fix
  <2> QED
    BY <2>1, <2>2, <2>3, <2>4
<1>3. CASE ReadQueue
  BY <1>3 DEF ReadQueue, world, fix
<1>4. CASE CheckAborted
  BY <1>4 DEF CheckAborted, Checking, world, fix
<1>5. CASE EndOfChecks \/ EndOfRemovals \/ Settle \/ EndOfRerun
  <2>1. /\ UNCHANGED <<queue, pending, reinserted, chances, before, after, aborted, exit, todo>>
        /\ pc' \in {"before", "settle", "after", "done"}
    BY <1>5 DEF EndOfChecks, EndOfRemovals, Settle, EndOfRerun, world, fix
  <2>2. todo = <<>>
    BY <1>5 DEF EndOfChecks, EndOfRemovals, Settle, EndOfRerun
  <2> QED
    BY <2>1, <2>2 DEF Labels
<1>6. CASE CountBefore \/ CountAfter
  <2>1. Count \in 0..MaxReinserted
    BY DoctorAssumption DEF Count
  <2> QED
    BY <1>6, <2>1 DEF CountBefore, CountAfter, Labels, world
<1>7. CASE Decide
  BY <1>7 DEF Decide, Labels, world
<1>8. CASE Remove \/ RemovalFails \/ RemovalUnknown
  <2>1. /\ UNCHANGED <<reinserted, pc, todo, pending, before, after, aborted, exit>>
        /\ chances' \in Nat
    BY <1>8 DEF Remove, RemovalFails, RemovalUnknown, world
  <2>2. queue' \in [Items -> Stages]
    BY <1>8 DEF Remove, RemovalFails, RemovalUnknown, world, Stages
  <2> QED
    BY <2>1, <2>2
<1>9. CASE Exit
  BY <1>9 DEF Exit, world, fix
<1>10. CASE ConditionComesOrGoes
  BY <1>10 DEF ConditionComesOrGoes, Change, fix
<1>11. CASE DownloadMoves
  <2>1. PICK k \in Items : \E next \in Stages : queue' = [queue EXCEPT ![k] = next]
    BY <1>11 DEF DownloadMoves, Stages
  <2> QED
    BY <1>11, <2>1 DEF DownloadMoves, Change, fix
<1>12. CASE LogMoves
  BY <1>12 DEF LogMoves, Change, fix
<1>13. CASE Interrupt
  BY <1>13 DEF Interrupt, world, fix
<1> QED
  BY <1>1, <1>2, <1>3, <1>4, <1>5, <1>6, <1>7, <1>8, <1>9, <1>10, <1>11, <1>12, <1>13
     DEF Next, CliStep, UserAnswers

\* Types, for any conditions, queues and configurations; of the list of the
\* second pass only what TLC checks.
THEOREM TypeCorrect == Spec => [](DataOK /\ (pc # "again" => TypeOK))
<1>1. Findings /\ IInv /\ Bounds => DataOK
  <2> SUFFICES ASSUME Findings, IInv, Bounds PROVE DataOK
    OBVIOUS
  <2>1. /\ IsReading(memo.stack) /\ IsReading(memo.report) /\ IsReading(memo.log)
    BY DEF Findings, Typed, Memos, Readings, IsReading
  <2>2. scan \in [left : Seq(Arrs), read : SUBSET Arrs, unread : SUBSET Arrs,
                  stuck : SUBSET Items, undated : SUBSET Items]
    <3>1. <<"sonarr", "radarr">> \in Seq(Arrs) /\ <<"radarr">> \in Seq(Arrs)
          /\ <<>> \in Seq(Arrs)
      BY DEF Arrs
    <3>2. scan \in Scans
      BY DEF Findings, Typed
    <3> QED
      BY <3>1, <3>2 DEF Scans
  <2>3. /\ plan \subseteq Items /\ removed \subseteq Items /\ failed \subseteq Items
        /\ touched \subseteq Items
        /\ decision \in {"none", "approved", "declined", "unavailable"}
    BY DEF IInv, Dealt, Whereabouts
  <2>4. /\ trouble \subseteq Conditions /\ lasting \subseteq Conditions
        /\ stuckSince \subseteq Items /\ results \in [CheckIds -> Statuses \cup {"none"}]
    BY DEF Findings, Typed
  <2>5. /\ queue \in [Items -> Stages] /\ pending \subseteq Items
        /\ reinserted \in 0..MaxReinserted /\ chances \in Nat
        /\ before \in 0..MaxReinserted /\ after \in 0..MaxReinserted
        /\ aborted \in BOOLEAN /\ exit \in {"running", "0", "1", "130"} /\ pc \in Labels
    BY DEF Bounds
  <2> QED
    BY <2>1, <2>2, <2>3, <2>4, <2>5 DEF DataOK
<1>2. Bounds /\ DataOK => (pc # "again" => TypeOK)
  BY DEF Bounds, TypeOK
<1>3. Findings /\ IInv /\ Bounds /\ [Next]_vars => Bounds'
  BY NextBounds
<1> QED
  BY <1>1, <1>2, <1>3, InitBounds, FindingsHold, Invariance, PTL DEF Spec

-----------------------------------------------------------------------------
(* What an exit with 0 is worth.                                             *)

\* A check that says nothing is one that does not apply, or one of a service
\* that another check reports.
LEMMA SkippedIsExcused ==
  ASSUME NEW k \in CheckIds, Says(k, "skipped"), k \notin Gated
  PROVE  \/ k \in StorageChecks /\ ~config.storage
         \/ k \in {"decypharr-link", "debrid-mount"} /\ ~memo.report.answered
         \/ k = "stuck-downloads" /\ \A s \in Arrs : NotRunning(s)
<1>1. k # "jellyfin-policy"
  <2>1. "jellyfin-policy" \in Gated
    BY GatesAre DEF Gated
  <2> QED
    BY <2>1
<1>2. \A s \in GatedServices : k \notin GatedBy(s)
  BY DEF Gated
<1> QED
  BY <1>1, <1>2 DEF Says

\* When all checks passed, each of the list has said "ok" or nothing.
LEMMA PassedCheckSays ==
  ASSUME Findings, exit = "0", AllPassed(results), NEW k \in Listed
  PROVE  /\ k \in CheckIds /\ Says(k, results[k])
         /\ results[k] \in {"ok", "skipped"}
<1>1. k \in CheckIds
  BY ListedAreChecks DEF Findings
<1>2. results[k] # "none"
  BY DEF Findings, Complete
<1>3. results[k] \in Statuses \cup {"none"} /\ DOMAIN results = CheckIds
  BY <1>1 DEF Findings, Typed
<1>4. results[k] \notin {"warning", "error"}
  BY <1>1, <1>3 DEF AllPassed
<1> QED
  BY <1>1, <1>2, <1>3, <1>4 DEF Statuses, Findings, Evidence

\* The checks that ask gateService first.
LEMMA NothingIsGated ==
  /\ Gated = {"api-sonarr", "library", "api-radarr", "api-prowlarr", "api-bazarr",
              "bazarr-providers", "api-jellyfin", "jellyfin-policy", "api-seerr"}
BY DEF Gated, GatedServices, GatedBy, Arrs

\* Nothing of the host has been wrong all the time, if all of its checks passed.
LEMMA HostIsSound ==
  ASSUME Findings, exit = "0", AllPassed(results), NEW x \in lasting \cap HostConditions,
         HostIds \ {"docker-group"} \subseteq Listed
  PROVE  x \in Harmless(config)
<1>1. ASSUME NEW k \in HostIds \ {"docker-group"}
      PROVE  x \notin Watched(k, config) \/ (k = "fuse" /\ ~config.storage)
  <2>1. k \in CheckIds /\ Says(k, results[k]) /\ results[k] \in {"ok", "skipped"}
    BY PassedCheckSays
  <2>2. CASE results[k] = "ok"
    <3>1. lasting \cap Watched(k, config) = {}
      BY <2>1, <2>2 DEF Says
    <3> QED
      BY <3>1
  <2>3. CASE results[k] = "skipped"
    BY <2>1, <2>3, SkippedIsExcused, NothingIsGated
       DEF HostIds, StorageChecks, ReportChecks
  <2> QED
    BY <2>1, <2>2, <2>3
<1>2. x \in Conditions
  BY DEF Findings, Typed
<1>3. config \in Configurations
  BY DEF Findings, Typed
<1>4. CASE x \in {<<"docker", "unreachable">>, <<"docker", "denied">>}
  <2>1. x \notin Watched("docker-daemon", config)
    BY <1>1 DEF HostIds
  <2> QED
    BY <1>4, <2>1 DEF Watched
<1>5. CASE x \in {<<"compose", "absent">>, <<"compose", "old">>, <<"compose", "odd">>}
  <2>1. x \notin Watched("docker-compose", config)
    BY <1>1 DEF HostIds
  <2> QED
    BY <1>5, <2>1 DEF Watched
<1>6. CASE x = <<"port", "foreign">>
  <2>1. x \notin Watched("ports-availability", config)
    BY <1>1 DEF HostIds
  <2> QED
    BY <1>6, <2>1 DEF Watched
<1>7. CASE x \in {<<"fuse", "absent">>, <<"fuse", "private">>}
  <2>1. x \notin Watched("fuse", config) \/ ~config.storage
    BY <1>1 DEF HostIds
  <2>2. CASE ~config.storage
    <3>1. x[1] = "fuse"
      BY <1>7
    <3> QED
      BY <1>2, <2>2, <3>1 DEF Harmless
  <2> QED
    BY <1>7, <2>1, <2>2 DEF Watched
<1>8. CASE x = <<"gpu", "absent">>
  <2>1. x \notin Watched("transcoding", config)
    BY <1>1 DEF HostIds
  <2>2. config.transcoding = "off"
    BY <1>8, <2>1 DEF Watched
  <2> QED
    BY <1>2, <1>8, <2>2 DEF Harmless
<1>9. CASE x \in {<<"dns", "unresolved">>, <<"dns", "elsewhere">>, <<"address", "unknown">>}
  <2>1. x \notin Watched("dns", config)
    BY <1>1 DEF HostIds
  <2>2. config.mode # "remote"
    BY <1>9, <2>1 DEF Watched
  <2>3. x[1] \in {"dns", "address"}
    BY <1>9
  <2> QED
    BY <1>2, <2>2, <2>3 DEF Harmless
<1>10. CASE x \in {<<"disk", "full">>, <<"disk", "low">>, <<"disk", "unread">>}
  <2>1. x \notin Watched("disk-space", config)
    BY <1>1 DEF HostIds
  <2> QED
    BY <1>10, <2>1 DEF Watched
<1> QED
  BY <1>4, <1>5, <1>6, <1>7, <1>8, <1>9, <1>10 DEF HostConditions

\* `moody-blues check` passes only a host in which nothing has been wrong.
LEMMA CheckIsRight ==
  ASSUME Findings, exit = "0", AllPassed(results), config.command = "check"
  PROVE  lasting \subseteq Harmless(config)
<1> SUFFICES ASSUME NEW x \in lasting PROVE x \in Harmless(config)
  OBVIOUS
<1>1. Listed = HostIds /\ x \in Conditions
  BY ListsAreWhole DEF Findings, Typed
<1>2. CASE x \in HostConditions
  BY <1>1, <1>2, HostIsSound
<1>3. CASE x \notin HostConditions
  BY <1>1, <1>3 DEF Harmless
<1> QED
  BY <1>2, <1>3

\* Where every check of the doctor passed, every service of the stack runs and
\* every check that applies has seen nothing of what it watches.
LEMMA PassedMeansSeen ==
  ASSUME Findings, exit = "0", AllPassed(results), config.command = "doctor"
  PROVE  /\ lasting \cap Contained(config) = {} /\ stuckSince = {}
         /\ \A k \in Listed : lasting \cap Watched(k, config) = {}
                              \/ (k \in StorageChecks /\ ~config.storage)
<1>1. DoctorIds \subseteq Listed /\ Listed \subseteq CheckIds
  BY ListsAreWhole DEF Findings, Typed
<1>2. {"containers", "api-jellyfin", "decypharr-config", "stuck-downloads"} \subseteq Listed
  BY <1>1 DEF DoctorIds, CheckIds, StackChecks, StorageChecks, ReportChecks
<1>3. memo.stack.known /\ memo.stack.answered /\ memo.stack.saw = {}
  <2>1. Says("containers", results["containers"])
        /\ results["containers"] \in {"ok", "skipped"} /\ "containers" \in CheckIds
    BY <1>2, PassedCheckSays
  <2>2. results["containers"] # "skipped"
    BY <2>1, SkippedIsExcused, NothingIsGated DEF StorageChecks, ReportChecks
  <2> QED
    BY <2>1, <2>2 DEF Says
<1>4. lasting \cap Contained(config) = {}
  BY <1>3 DEF Findings, Shared
<1>5. \A s : ~NotRunning(s)
  BY <1>3 DEF NotRunning, Running
<1>6. ASSUME NEW k \in Listed, k # "jellyfin-policy", results[k] = "skipped"
      PROVE  \/ k \in StorageChecks /\ ~config.storage
             \/ k \in {"decypharr-link", "debrid-mount"} /\ ~memo.report.answered
  <2>1. k \in CheckIds /\ Says(k, "skipped")
    BY <1>6, PassedCheckSays
  <2> QED
    BY <1>5, <1>6, <2>1 DEF Says, Arrs
<1>7. config.storage => memo.report.answered
  <2>1. Says("decypharr-config", results["decypharr-config"])
        /\ results["decypharr-config"] \in {"ok", "skipped"}
    BY <1>2, PassedCheckSays
  <2>2. config.storage => results["decypharr-config"] # "skipped"
    BY <1>2, <1>6
  <2> QED
    BY <2>1, <2>2 DEF Says
<1>8. config.jellyfinKey
  <2>1. Says("api-jellyfin", results["api-jellyfin"])
        /\ results["api-jellyfin"] \in {"ok", "skipped"}
    BY <1>2, PassedCheckSays
  <2>2. results["api-jellyfin"] # "skipped"
    BY <1>2, <1>6 DEF StorageChecks, ReportChecks
  <2> QED
    BY <2>1, <2>2 DEF Says
<1>9. ASSUME NEW k \in Listed
      PROVE  lasting \cap Watched(k, config) = {} \/ (k \in StorageChecks /\ ~config.storage)
  <2>1. Says(k, results[k]) /\ results[k] \in {"ok", "skipped"}
    BY PassedCheckSays
  <2>2. CASE results[k] = "ok"
    BY <2>1, <2>2 DEF Says
  <2>3. CASE results[k] = "skipped" /\ k = "jellyfin-policy"
    BY <1>5, <1>8, <2>1, <2>3 DEF Says, StorageChecks, ReportChecks
  <2>4. CASE results[k] = "skipped" /\ k # "jellyfin-policy"
    BY <1>6, <1>7, <2>4 DEF StorageChecks, ReportChecks
  <2> QED
    BY <2>1, <2>2, <2>3, <2>4
<1>10. stuckSince = {}
  <2>1. Says("stuck-downloads", results["stuck-downloads"])
        /\ results["stuck-downloads"] \in {"ok", "skipped"}
    BY <1>2, PassedCheckSays
  <2> QED
    BY <1>5, <2>1 DEF Says
<1> QED
  BY <1>4, <1>9, <1>10

\* The doctor passes only an installation in which nothing has been wrong.
LEMMA DoctorIsRight ==
  ASSUME Findings, exit = "0", AllPassed(results), config.command = "doctor"
  PROVE  lasting \subseteq Harmless(config)
<1> SUFFICES ASSUME NEW x \in lasting PROVE x \in Harmless(config)
  OBVIOUS
<1>1. x \in Conditions /\ config \in Configurations
  BY DEF Findings, Typed
<1>2. DoctorIds \subseteq Listed
      /\ (config.realDebrid => "realdebrid-account" \in Listed)
  BY ListsAreWhole DEF Findings, Typed
<1>3. ASSUME NEW k \in DoctorIds
      PROVE  x \notin Watched(k, config) \/ (k \in StorageChecks /\ ~config.storage)
  BY <1>2, <1>3, PassedMeansSeen
<1>4. ASSUME NEW k \in DoctorIds \ StorageChecks
      PROVE  x \notin Watched(k, config)
  BY <1>3
<1>5. /\ {"containers", "api-sonarr", "api-radarr", "api-prowlarr", "api-bazarr",
          "api-jellyfin", "api-seerr", "library", "bazarr-providers",
          "jellyfin-policy"} \subseteq DoctorIds \ StorageChecks
      /\ {"decypharr-config", "decypharr-link", "debrid-mount",
          "realdebrid-token"} \subseteq DoctorIds
      /\ HostIds \ {"docker-group"} \subseteq Listed
  BY <1>2 DEF DoctorIds, CheckIds, StackChecks, StorageChecks, ReportChecks, HostIds
<1>6. CASE x \in HostConditions
  BY <1>5, <1>6, HostIsSound
<1>7. CASE x \in ContainerConditions
  <2>1. x \notin Contained(config)
    BY PassedMeansSeen
  <2> QED
    BY <1>1, <1>7, <2>1 DEF Contained, Harmless
<1>8. CASE x \in AccountConditions
  <2>1. CASE config.realDebrid
    <3>1. x \notin Watched("realdebrid-account", config)
      BY <1>2, <2>1, PassedMeansSeen DEF StorageChecks, ReportChecks
    <3> QED
      BY <1>8, <3>1 DEF AccountConditions, Watched
  <2>2. CASE ~config.realDebrid
    BY <1>1, <1>8, <2>2 DEF AccountConditions, Harmless
  <2> QED
    BY <2>1, <2>2
<1>9. CASE x \in StorageConditions
  <2>1. CASE config.storage
    <3>1. /\ x \notin Watched("decypharr-config", config)
          /\ x \notin Watched("decypharr-link", config)
          /\ x \notin Watched("debrid-mount", config)
          /\ x \notin Watched("realdebrid-token", config)
      BY <1>3, <1>5, <2>1
    <3> QED
      BY <1>9, <3>1 DEF StorageConditions, Watched
  <2>2. CASE ~config.storage
    BY <1>1, <1>9, <2>2 DEF Harmless
  <2> QED
    BY <2>1, <2>2
<1>10. CASE x \in AnswerConditions \cup ServiceConditions
  <2>1. PICK p, w :
          /\ x = <<p, w>>
          /\ \/ /\ p \in {"sonarr", "radarr", "prowlarr", "bazarr", "jellyfin", "seerr",
                         "decypharr"}
                /\ w \in {"silent", "rejects"}
             \/ /\ p \in {"sonarr", "radarr"}
                /\ w \in {"health error", "health warning", "client error", "indexer error"}
             \/ /\ p = "prowlarr"
                /\ w \in {"health error", "health warning", "no indexers", "blocked"}
             \/ <<p, w>> \in {<<"bazarr", "unlinked">>, <<"jellyfin", "wizard">>,
                              <<"jellyfin", "policy">>, <<"seerr", "uninitialized">>,
                              <<"gestdown", "bad">>, <<"opensubtitles", "bad">>,
                              <<"library", "incomplete">>}
    <3>1. CASE x \in AnswerConditions
      <4>1. Services \ {"caddy", "flaresolverr"}
              = {"sonarr", "radarr", "prowlarr", "bazarr", "jellyfin", "seerr", "decypharr"}
        BY DEF Services, Arrs, Optional
      <4>2. PICK p \in Services \ {"caddy", "flaresolverr"}, w \in {"silent", "rejects"} :
              x = <<p, w>>
        BY <3>1 DEF AnswerConditions
      <4> QED
        BY <4>1, <4>2
    <3>2. CASE x \in ServiceConditions
      <4>1. \/ x \in {"sonarr", "radarr"}
                      \X {"health error", "health warning", "client error", "indexer error"}
            \/ x \in {"prowlarr"}
                      \X {"health error", "health warning", "no indexers", "blocked"}
            \/ x \in {<<"bazarr", "unlinked">>, <<"jellyfin", "wizard">>,
                       <<"jellyfin", "policy">>, <<"seerr", "uninitialized">>,
                       <<"gestdown", "bad">>, <<"opensubtitles", "bad">>,
                       <<"library", "incomplete">>}
        BY <3>2 DEF ServiceConditions, Arrs
      <4>2. \E p, w : x = <<p, w>>
        <5>1. ASSUME NEW S, NEW T, x \in S \X T
              PROVE  \E p, w : x = <<p, w>>
          BY <5>1
        <5> QED
          BY <4>1, <5>1
      <4>3. PICK p, w : x = <<p, w>>
        BY <4>2
      <4> QED
        BY <4>1, <4>3
    <3> QED
      BY <1>10, <3>1, <3>2
  <2>2. x[1] = p /\ x[2] = w
    BY <2>1
  <2>3. CASE p = "sonarr"
    <3>1. x \notin Watched("api-sonarr", config)
      BY <1>4, <1>5
    <3>2. w = "indexer error" \/ (w = "client error" /\ ~config.storage)
      BY <2>1, <2>3, <3>1 DEF Watched
    <3> QED
      BY <1>1, <2>2, <3>2 DEF Harmless
  <2>4. CASE p = "radarr"
    <3>1. x \notin Watched("api-radarr", config)
      BY <1>4, <1>5
    <3>2. w = "indexer error" \/ (w = "client error" /\ ~config.storage)
      BY <2>1, <2>4, <3>1 DEF Watched
    <3> QED
      BY <1>1, <2>2, <3>2 DEF Harmless
  <2>5. CASE p = "prowlarr"
    <3>1. x \notin Watched("api-prowlarr", config)
      BY <1>4, <1>5
    <3> QED
      BY <2>1, <2>5, <3>1 DEF Watched
  <2>6. CASE p = "bazarr"
    <3>1. x \notin Watched("api-bazarr", config)
      BY <1>4, <1>5
    <3> QED
      BY <2>1, <2>6, <3>1 DEF Watched
  <2>7. CASE p = "jellyfin"
    <3>1. /\ x \notin Watched("api-jellyfin", config)
          /\ x \notin Watched("jellyfin-policy", config)
      BY <1>4, <1>5
    <3> QED
      BY <2>1, <2>7, <3>1 DEF Watched
  <2>8. CASE p = "seerr"
    <3>1. x \notin Watched("api-seerr", config)
      BY <1>4, <1>5
    <3> QED
      BY <2>1, <2>8, <3>1 DEF Watched
  <2>9. CASE p = "decypharr"
    <3>1. CASE config.storage
      <4>1. x \notin Watched("decypharr-config", config)
        BY <1>3, <1>5, <3>1
      <4> QED
        BY <2>1, <2>9, <4>1 DEF Watched
    <3>2. CASE ~config.storage
      BY <1>1, <2>2, <2>9, <3>2 DEF Harmless
    <3> QED
      BY <3>1, <3>2
  <2>10. CASE p = "gestdown"
    <3>1. x \notin Watched("bazarr-providers", config)
      BY <1>4, <1>5
    <3> QED
      BY <2>1, <2>10, <3>1 DEF Watched
  <2>11. CASE p = "opensubtitles"
    <3>1. x \notin Watched("bazarr-providers", config)
      BY <1>4, <1>5
    <3>2. ~config.opensubtitles
      BY <2>1, <2>11, <3>1 DEF Watched
    <3> QED
      BY <1>1, <2>2, <2>11, <3>2 DEF Harmless
  <2>12. CASE p = "library"
    <3>1. x \notin Watched("library", config)
      BY <1>4, <1>5
    <3> QED
      BY <2>1, <2>12, <3>1 DEF Watched
  <2> QED
    BY <2>1, <2>3, <2>4, <2>5, <2>6, <2>7, <2>8, <2>9, <2>10, <2>11, <2>12
<1> QED
  BY <1>1, <1>6, <1>7, <1>8, <1>9, <1>10 DEF Conditions

\* "All checks passed" is said, for every configuration and whatever comes and goes
\* meanwhile, only if nothing that does harm has been wrong since the command
\* began: what a check skips because of gateService, of an unanswered
\* verification or of the configuration, another one reports or does not apply.
THEOREM AllPassedIsTrue == Spec => []AllPassedIsHealthy
<1>1. Findings => AllPassedIsHealthy
  <2> SUFFICES ASSUME Findings, exit = "0", AllPassed(results)
               PROVE  /\ lasting \subseteq Harmless(config)
                      /\ config.command = "doctor" => stuckSince = {}
    BY DEF AllPassedIsHealthy
  <2>1. config.command \in {"doctor", "check"}
    BY DEF Findings, Typed, Configurations
  <2> QED
    BY <2>1, CheckIsRight, DoctorIsRight, PassedMeansSeen
<1> QED
  BY <1>1, FindingsHold, PTL

\* Whatever the fix removes, fails to remove or is told while it runs, an exit of
\* the doctor with 0 overlooks a download that has been stuck all the time only
\* with a warning that a queue could not be read.
THEOREM SuccessIsHonest == Spec => []SuccessOverlooksOnlyUnread
<1>1. Findings => SuccessOverlooksOnlyUnread
  <2> SUFFICES ASSUME Findings, exit = "0", config.command = "doctor",
                      stuckSince # {}, results["stuck-downloads"] # "warning"
               PROVE  FALSE
    BY DEF SuccessOverlooksOnlyUnread
  <2>1. DoctorIds \subseteq Listed
    BY ListsAreWhole DEF Findings, Typed
  <2>2. {"containers", "stuck-downloads"} \subseteq Listed \cap CheckIds
    BY <2>1 DEF DoctorIds, CheckIds, StackChecks, StorageChecks, ReportChecks
  <2>3. ASSUME NEW k \in Listed \cap CheckIds
        PROVE  results[k] \in {"ok", "warning", "skipped"} /\ Says(k, results[k])
    <3>1. results[k] # "none" /\ results[k] # "error"
      BY DEF Findings, Complete, Errors, Typed
    <3> QED
      BY <3>1 DEF Findings, Typed, Evidence, Statuses
  <2>4. results["containers"] # "skipped"
    <3>1. "containers" \in CheckIds
      BY <2>2
    <3> QED
      BY <2>2, <2>3, <3>1, SkippedIsExcused, NothingIsGated DEF StorageChecks, ReportChecks
  <2>5. memo.stack.answered
        /\ \A x \in memo.stack.saw : x[1] \in Optional \/ x[2] = "starting"
    BY <2>2, <2>3, <2>4 DEF Says
  <2>6. ASSUME NEW s \in Arrs PROVE ~NotRunning(s)
    <3>1. <<s, "down">> \notin memo.stack.saw
      BY <2>5, <2>6 DEF Arrs, Optional
    <3> QED
      BY <2>5, <3>1 DEF NotRunning, Running
  <2>7. PICK i \in stuckSince : TRUE
    OBVIOUS
  <2>8. AppOf[i] \in Arrs
    BY DoctorAssumption DEF Findings, Typed
  <2>9. results["stuck-downloads"] \in {"ok", "skipped"}
    BY <2>2, <2>3
  <2> QED
    BY <2>2, <2>3, <2>6, <2>7, <2>8, <2>9 DEF Says
<1> QED
  BY <1>1, FindingsHold, PTL
=============================================================================
