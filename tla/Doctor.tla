-------------------------------- MODULE Doctor --------------------------------
(***************************************************************************)
(* `moody-blues doctor` and `moody-blues check` (doctor.runner.ts,          *)
(* doctor-fix.service.ts, doctor-context.loader.ts, stuck-downloads and     *)
(* reinsertion checks, doctor.command.ts, runner.check.ts): the checks one  *)
(* after another over readings they share, then, with --fix, the plan, the  *)
(* confirmation, the removals and the checks that are run again.            *)
(*                                                                          *)
(* Meanwhile conditions come and go, downloads get stuck, are imported or   *)
(* are grabbed, Decypharr re-inserts torrents, a check takes longer than    *)
(* its timeout, a reply is lost, and the user interrupts.                   *)
(*                                                                          *)
(* A definition marked `mutant` is a faulty variant of the next one, used   *)
(* only to check that the properties can fail.                              *)
(***************************************************************************)
EXTENDS Diagnosis, FiniteSets

CONSTANTS
  Items, AppOf,         \* the records of the queues, and whose queue each is in
  Scenarios,            \* the situations of an instance, see Init
  MaxFixItems,          \* MAX_FIX_ITEMS
  MaxReinserted         \* bound on the re-insertions in the log

\* Where a download is: trackedDownloadState, and the age of an item in a state
\* of STUCK_STATES (evaluateStuck).
Stages == {"absent", "downloading", "young", "undated", "stuck"}

\* MoodyBluesConfig and .env as far as a check asks for them, and the options.
Configurations ==
  [command : {"doctor", "check"}, fix : BOOLEAN, answer : {"yes", "asked", "unavailable"},
   storage : BOOLEAN, mode : {"local", "remote"}, transcoding : {"off", "cpu", "hardware"},
   opensubtitles : BOOLEAN, jellyfinKey : BOOLEAN, realDebrid : BOOLEAN]

ASSUME DoctorAssumption ==
  /\ AppOf \in [Items -> Arrs] /\ MaxFixItems \in Nat \ {0}
  /\ MaxReinserted \in Nat /\ Threshold \in 0..MaxReinserted
  /\ \A s \in Scenarios :
       /\ s.config \in Configurations /\ s.queues \subseteq [Items -> Stages]
       /\ s.start \subseteq SUBSET Conditions /\ s.may \subseteq Conditions
       /\ s.chances \in Nat

VARIABLES
  \* the installation and its surroundings
  config,               \* the configuration and the options of the command
  may, chances,         \* conditions that may come or go, and how often
  trouble, queue, reinserted,
  \* the command
  pc, todo, results, scan,
  memo,                 \* doctor-context.loader.ts: promises shared by the checks
  plan, pending, decision, removed, failed, before, after,
  aborted, exit,
  \* history variables
  lasting,              \* conditions there since the command began
  stuckSince,           \* items stuck since the command began
  touched               \* items whose removal was requested

world   == <<config, may, trouble, queue, reinserted>>
fix     == <<plan, pending, decision, removed, failed, before, after>>
history == <<lasting, stuckSince, touched>>
vars    == <<world, chances, pc, todo, results, scan, memo, fix, aborted, exit, history>>

Labels  == {"check", "before", "ask", "remove", "settle", "after", "again", "done"}
NoScan  == [left |-> <<"sonarr", "radarr">>, read |-> {}, unread |-> {},
            stuck |-> {}, undated |-> {}]
NoMemo  == [stack |-> Unread, report |-> Unread, log |-> Unread]

IsReading(r) == r \in [known : BOOLEAN, answered : BOOLEAN, saw : SUBSET Conditions]

DataOK ==
  /\ trouble \subseteq Conditions /\ queue \in [Items -> Stages]
  /\ reinserted \in 0..MaxReinserted /\ chances \in Nat
  /\ pc \in Labels
  /\ results \in [CheckIds -> Statuses \cup {"none"}]
  /\ scan \in [left : Seq(Arrs), read : SUBSET Arrs, unread : SUBSET Arrs,
               stuck : SUBSET Items, undated : SUBSET Items]
  /\ IsReading(memo.stack) /\ IsReading(memo.report) /\ IsReading(memo.log)
  /\ plan \subseteq Items /\ pending \subseteq Items
  /\ decision \in {"none", "approved", "declined", "unavailable"}
  /\ removed \subseteq Items /\ failed \subseteq Items
  /\ before \in 0..MaxReinserted /\ after \in 0..MaxReinserted
  /\ aborted \in BOOLEAN /\ exit \in {"running", "0", "1", "130"}
  /\ lasting \subseteq Conditions /\ stuckSince \subseteq Items /\ touched \subseteq Items
TypeOK == DataOK /\ todo \in Seq(CheckIds)

Checks(c) == IF c.command = "check" THEN DefaultChecks ELSE DoctorChecks(c)

Init ==
  /\ \E s \in Scenarios :
       /\ config = s.config /\ may = s.may /\ chances = s.chances
       /\ trouble \in s.start /\ queue \in s.queues
  /\ reinserted \in {0, Threshold}
  /\ pc = "check" /\ todo = Checks(config) /\ results = [k \in CheckIds |-> "none"]
  /\ scan = NoScan /\ memo = NoMemo
  /\ plan = {} /\ pending = {} /\ decision = "none" /\ removed = {} /\ failed = {}
  /\ before = 0 /\ after = 0
  /\ aborted = FALSE /\ exit = "running"
  /\ lasting = trouble /\ touched = {}
  /\ stuckSince = {k \in Items : queue[k] = "stuck"}
-----------------------------------------------------------------------------
(* doctor.runner.ts, runner.check.ts: the checks                            *)

\* memo: the first check that needs a reading makes it, the others share it.
\* A verification outlives a check that timed out; the next one waits for it.
Remember(check) ==
  [memo EXCEPT
    !.stack  = IF check \in StackChecks /\ ~@.known THEN StackReading(config, trouble) ELSE @,
    !.report = IF check \in ReportChecks /\ config.storage /\ ~@.known
               THEN VerificationReading(trouble) ELSE @,
    !.log    = IF /\ check \in {"realdebrid-token", "decypharr-reinsertion", "stuck-downloads"}
                  /\ config.storage /\ ~@.known
               THEN LogReading(trouble) ELSE @]

Record(check, status) ==
  /\ results' = [results EXCEPT ![check] = status]
  /\ todo' = Tail(todo) /\ scan' = NoScan

Checking == pc \in {"check", "again"} /\ todo # <<>>

RunCheck ==
  /\ Checking /\ ~aborted /\ Head(todo) # "stuck-downloads"
  /\ memo' = Remember(Head(todo))
  /\ Record(Head(todo),
       IF config.command = "check" THEN HostStatus(Head(todo), config, trouble)
       ELSE CheckStatus(Head(todo), config, trouble, memo', reinserted))
  /\ UNCHANGED <<world, chances, pc, fix, aborted, exit, history>>

\* scanStuckDownloads: one queue after the other.
ReadQueue ==
  /\ Checking /\ ~aborted /\ Head(todo) = "stuck-downloads" /\ scan.left # <<>>
  /\ memo' = [memo EXCEPT !.stack = IF @.known THEN @ ELSE StackReading(config, trouble)]
  /\ LET app == Head(scan.left)
         rest == [scan EXCEPT !.left = Tail(@)]
         of(stage) == {k \in Items : AppOf[k] = app /\ queue[k] = stage}
     IN scan' = IF ~Running(memo'.stack, app) THEN rest
                ELSE IF Unreadable(app, trouble) THEN [rest EXCEPT !.unread = @ \cup {app}]
                ELSE [rest EXCEPT !.read = @ \cup {app}, !.stuck = @ \cup of("stuck"),
                                  !.undated = @ \cup of("undated")]
  /\ UNCHANGED <<world, chances, pc, todo, results, fix, aborted, exit, history>>

\* The first MAX_FIX_ITEMS of what was found would be the plan.
EndScan ==
  /\ Checking /\ ~aborted /\ Head(todo) = "stuck-downloads" /\ scan.left = <<>>
  /\ memo' = Remember("stuck-downloads")
  /\ Record("stuck-downloads", StuckDownloads(scan))
  /\ IF pc = "check"
     THEN \E first \in SUBSET scan.stuck :
            /\ Cardinality(first) <= MaxFixItems
            /\ first = scan.stuck \/ Cardinality(first) = MaxFixItems
            /\ plan' = first /\ pending' = scan.stuck \ first
     ELSE UNCHANGED <<plan, pending>>
  /\ UNCHANGED <<world, chances, pc, decision, removed, failed, before, after,
                 aborted, exit, history>>

\* runCheck: the race with the timeout, and whatever the check throws.
TimeOut ==
  /\ Checking /\ ~aborted /\ config.command = "doctor" /\ chances > 0
  /\ chances' = chances - 1
  /\ memo' = Remember(Head(todo))
  /\ Record(Head(todo), "error")
  /\ UNCHANGED <<world, pc, fix, aborted, exit, history>>

\* An abort ends the requests of a check, whose result is then of no use; no
\* other check begins.
CheckAborted ==
  /\ Checking /\ aborted
  /\ todo' = <<>>
  /\ UNCHANGED <<world, chances, pc, results, scan, memo, fix, aborted, exit, history>>

\* runDoctor, remediate
EndOfChecks ==
  /\ pc = "check" /\ todo = <<>>
  /\ pc' = IF config.command = "doctor" /\ config.fix /\ ~aborted /\ plan # {}
           THEN "before" ELSE "done"
  /\ UNCHANGED <<world, chances, todo, results, scan, memo, fix, aborted, exit, history>>
-----------------------------------------------------------------------------
(* remediate, applyFixes                                                    *)

\* countReinsertions; a log that cannot be read counts as no re-insertion.
Count == IF config.storage /\ <<"log", "unreadable">> \notin trouble THEN reinserted ELSE 0
Reread == [memo EXCEPT !.log = IF config.storage THEN LogReading(trouble) ELSE Unread]

CountBefore ==
  /\ pc = "before"
  /\ before' = Count /\ memo' = Reread /\ pc' = "ask"
  /\ UNCHANGED <<world, chances, todo, results, scan, plan, pending, decision,
                 removed, failed, after, aborted, exit, history>>

\* confirm; an abort while the question is on the screen declines it.
Decide ==
  /\ pc = "ask"
  /\ \/ config.answer = "yes" /\ decision' = "approved"
     \/ config.answer = "unavailable" /\ decision' = "unavailable"
     \/ config.answer = "asked" /\ decision' = "declined"
     \/ config.answer = "asked" /\ ~aborted /\ decision' = "approved"
  /\ pc' = IF decision' = "approved" THEN "remove" ELSE "done"
  /\ after' = IF decision' = "approved" THEN after ELSE before
  /\ UNCHANGED <<world, chances, todo, results, scan, memo, plan, pending,
                 removed, failed, before, aborted, exit, history>>

Remaining == plan \ (removed \cup failed)

\* removeQueueItem: one request, which is never repeated.
\* mutant
RemoveAlthoughAborted ==
  /\ pc = "remove"
  /\ \E k \in Remaining :
       /\ ~Unreadable(AppOf[k], trouble) /\ queue[k] # "absent"
       /\ queue' = [queue EXCEPT ![k] = "absent"]
       /\ removed' = removed \cup {k} /\ touched' = touched \cup {k}
       /\ stuckSince' = stuckSince \ {k}
  /\ UNCHANGED <<config, may, trouble, reinserted, chances, pc, todo, results, scan, memo,
                 plan, pending, decision, failed, before, after, aborted, exit, lasting>>
Remove ==
  /\ pc = "remove" /\ ~aborted
  /\ \E k \in Remaining :
       /\ ~Unreadable(AppOf[k], trouble) /\ queue[k] # "absent"
       /\ queue' = [queue EXCEPT ![k] = "absent"]
       /\ removed' = removed \cup {k} /\ touched' = touched \cup {k}
       /\ stuckSince' = stuckSince \ {k}
  /\ UNCHANGED <<config, may, trouble, reinserted, chances, pc, todo, results, scan, memo,
                 plan, pending, decision, failed, before, after, aborted, exit, lasting>>

\* The record is gone, the service does not answer, or the abort ends the request.
\* mutant
RemovalFailsAndStops ==
  /\ pc = "remove"
  /\ \E k \in Remaining :
       /\ aborted \/ Unreadable(AppOf[k], trouble) \/ queue[k] = "absent"
       /\ touched' = IF aborted THEN touched ELSE touched \cup {k}
  /\ pc' = "settle"
  /\ UNCHANGED <<world, chances, todo, results, scan, memo, plan, pending, decision,
                 removed, failed, before, after, aborted, exit, lasting, stuckSince>>
RemovalFails ==
  /\ pc = "remove"
  /\ \E k \in Remaining :
       /\ aborted \/ Unreadable(AppOf[k], trouble) \/ queue[k] = "absent"
       /\ failed' = failed \cup {k}
       /\ touched' = IF aborted THEN touched ELSE touched \cup {k}
  /\ UNCHANGED <<world, chances, pc, todo, results, scan, memo, plan, pending, decision,
                 removed, before, after, aborted, exit, lasting, stuckSince>>

\* The reply to a removal is lost; the record is removed all the same.
RemovalUnknown ==
  /\ pc = "remove" /\ ~aborted /\ chances > 0
  /\ chances' = chances - 1
  /\ \E k \in Remaining :
       /\ queue[k] # "absent"
       /\ queue' = [queue EXCEPT ![k] = "absent"]
       /\ failed' = failed \cup {k} /\ touched' = touched \cup {k}
       /\ stuckSince' = stuckSince \ {k}
  /\ UNCHANGED <<config, may, trouble, reinserted, pc, todo, results, scan, memo,
                 plan, pending, decision, removed, before, after, aborted, exit, lasting>>

EndOfRemovals ==
  /\ pc = "remove" /\ Remaining = {}
  /\ pc' = IF removed # {} THEN "settle" ELSE "after"
  /\ UNCHANGED <<world, chances, todo, results, scan, memo, fix, aborted, exit, history>>

\* settle: half a minute, or an abort.
Settle ==
  /\ pc = "settle"
  /\ pc' = "after"
  /\ UNCHANGED <<world, chances, todo, results, scan, memo, fix, aborted, exit, history>>

\* The second count; then the remediation checks, with the log it has read and
\* the stack the first pass has read.
CountAfter ==
  /\ pc = "after"
  /\ after' = Count /\ memo' = Reread /\ pc' = "again"
  /\ todo' = SelectSeq(Checks(config), LAMBDA k : k \in RemediationChecks)
  /\ UNCHANGED <<world, chances, results, scan, plan, pending, decision,
                 removed, failed, before, aborted, exit, history>>

EndOfRerun ==
  /\ pc = "again" /\ todo = <<>>
  /\ pc' = "done"
  /\ UNCHANGED <<world, chances, todo, results, scan, memo, fix, aborted, exit, history>>

\* success
LoopStopped == after <= before
FixSucceeded == removed # {} /\ LoopStopped /\ failed = {}
Success == Errors(results) = {} /\ (decision = "none" \/ FixSucceeded)

\* exitCodeFor, executeHeadlessCheck
Exit ==
  /\ pc = "done" /\ exit = "running"
  /\ exit' = IF aborted THEN "130" ELSE IF Success THEN "0" ELSE "1"
  /\ UNCHANGED <<world, chances, pc, todo, results, scan, memo, fix, aborted, history>>
-----------------------------------------------------------------------------
(* The surroundings                                                         *)

Change == exit = "running" /\ chances > 0 /\ chances' = chances - 1

\* A service has one condition of its container at a time.
ConditionComesOrGoes ==
  /\ Change
  /\ \E x \in may :
       trouble' = IF x \in trouble THEN trouble \ {x}
                  ELSE {y \in trouble : ~(y[1] = x[1] /\ {x, y} \subseteq ContainerConditions)}
                         \cup {x}
  /\ lasting' = lasting \cap trouble'
  /\ UNCHANGED <<config, may, queue, reinserted, pc, todo, results, scan, memo, fix,
                 aborted, exit, stuckSince, touched>>

\* A download comes to its import, is imported, or a new one is grabbed.
DownloadMoves ==
  /\ Change
  /\ \E k \in Items :
       \E next \in CASE queue[k] = "absent"      -> {"downloading"}
                     [] queue[k] = "downloading" -> {"young", "undated"}
                     [] queue[k] = "young"       -> {"stuck", "absent"}
                     [] OTHER                    -> {"absent"} :
         /\ queue[k] = "absent" => k \notin touched
         /\ queue' = [queue EXCEPT ![k] = next]
         /\ stuckSince' = stuckSince \ {k}
  /\ UNCHANGED <<config, may, trouble, reinserted, pc, todo, results, scan, memo, fix,
                 aborted, exit, lasting, touched>>

\* Decypharr re-inserts a torrent, or a line of its log leaves the window.
LogMoves ==
  /\ Change
  /\ reinserted' \in {reinserted - 1, reinserted + 1} \cap 0..MaxReinserted
  /\ UNCHANGED <<config, may, trouble, queue, pc, todo, results, scan, memo, fix,
                 aborted, exit, history>>

Interrupt ==
  /\ pc # "done" /\ ~aborted
  /\ config.command = "doctor"
  /\ aborted' = TRUE
  /\ UNCHANGED <<world, chances, pc, todo, results, scan, memo, fix, exit, history>>
-----------------------------------------------------------------------------
\* An answer the user need not give.
Prompted == config.answer = "asked" /\ ~aborted
UserAnswers == Prompted /\ Decide

CliStep ==
  \/ RunCheck \/ ReadQueue \/ EndScan \/ CheckAborted \/ EndOfChecks
  \/ CountBefore \/ (~Prompted /\ Decide)
  \/ Remove \/ RemovalFails \/ EndOfRemovals \/ Settle \/ CountAfter \/ EndOfRerun
  \/ Exit
Next ==
  \/ CliStep \/ UserAnswers \/ TimeOut \/ RemovalUnknown
  \/ ConditionComesOrGoes \/ DownloadMoves \/ LogMoves \/ Interrupt

Spec == Init /\ [][Next]_vars
FairSpec == Spec /\ WF_vars(CliStep)
-----------------------------------------------------------------------------
(* Properties                                                               *)

\* Conditions that do no harm to an installation so configured.
Harmless(c) ==
  {x \in Conditions :
    \/ x[2] = "indexer error"
    \/ ~c.storage /\ \/ x \in StorageConditions \/ x[1] = "fuse"
                     \/ x[1] = "decypharr" \/ x[2] = "client error"
    \/ c.transcoding = "off" /\ x = <<"gpu", "absent">>
    \/ c.mode # "remote" /\ x[1] \in {"dns", "address"}
    \/ ~c.opensubtitles /\ x[1] = "opensubtitles"
    \/ ~c.realDebrid /\ x[1] = "account"
    \/ c.command = "check" /\ x \notin HostConditions}

\* "All checks passed" is not said of an installation in which something was
\* wrong all the time: what one check skips, another reports, also when the
\* stack is read once and shared (gateService, evaluateContainers, the memos).
AllPassedIsHealthy ==
  exit = "0" /\ AllPassed(results)
    => /\ lasting \subseteq Harmless(config)
       /\ config.command = "doctor" => stuckSince = {}

\* An exit with 0 overlooks a download that was stuck all the time only if its
\* queue could not be read, which the report then says (outcomeFromScan,
\* buildFixPlan, the checks run again over results of the first pass).
SuccessOverlooksOnlyUnread ==
  exit = "0" /\ config.command = "doctor" /\ stuckSince # {}
    => results["stuck-downloads"] = "warning"

\* The report of a fix is complete: every removal that was requested is told as
\* done or as failed, a removal told as done did happen, and an exit with 0
\* means that nothing of the plan failed (applyFixes).
ReportIsTrue ==
  /\ touched \subseteq removed \cup failed
  /\ \A k \in removed : queue[k] = "absent"
  /\ pc \in {"settle", "after", "again", "done"} /\ decision = "approved"
       => removed \cup failed = plan
  /\ exit = "0" /\ decision = "approved" => removed = plan

\* Nothing is removed after an interrupt, nor without an approved plan that had
\* the item among those found stuck (remediate, the signal of the clients).
RemovesOnlyApproved ==
  [][touched' # touched => /\ ~aborted /\ decision = "approved"
                           /\ touched' \ touched \subseteq plan]_vars

\* The command ends, or waits for an answer to its question: no service that
\* fails to answer keeps it (the timeout of a check, of a request, of settle).
Terminates == []<>(exit # "running" \/ (pc = "ask" /\ Prompted))
=============================================================================
