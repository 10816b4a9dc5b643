----------------------------- MODULE CodeUpdate -----------------------------
(***************************************************************************)
(* The code directory and who changes it: `moody-blues update`              *)
(* (update.code.ts, update.service.ts), which checks out a release,         *)
(* reinstalls, rebuilds, redeploys with the new command and rolls back when *)
(* it fails, the installer (install.sh), which does the same without a      *)
(* rollback, and `update --redeploy`.  The command that updates runs from   *)
(* the files it rebuilds, so a job that dies half way may leave no command. *)
(*                                                                          *)
(* The three jobs share their phases.  Versions are numbers; 0 is the       *)
(* branch main, which is restored by name as a release is by its commit.    *)
(*                                                                          *)
(* A definition marked `mutant` is a faulty variant of the next one, used   *)
(* only to check that the properties can fail.                              *)
(***************************************************************************)
EXTENDS Integers

CONSTANTS
  MaxRelease,     \* bound on the releases published
  MaxFaults,      \* bound on the commands (git, pnpm, node) that fail
  MaxInterrupts,  \* bound on the jobs interrupted
  MaxEdits,       \* bound on the local changes made by hand
  Broken          \* built or installed for no version

ASSUME CodeUpdateAssumption ==
  /\ {MaxRelease, MaxFaults, MaxInterrupts, MaxEdits} \subseteq Nat
  /\ Broken \notin Int

VARIABLES
  published,      \* the latest release on GitHub
  \* the code directory
  head,           \* the version checked out
  dirty,          \* tracked files have local changes
  modules,        \* the version node_modules was installed for
  engine, cli,    \* the versions of packages/provisioner/dist, apps/cli/dist
  \* the stack
  stack,          \* the version that deployed it (NotSetUp: no installation)
  \* the job
  job, phase, outcome,
  target,         \* the release to check out
  previousRef, checkedOut,
  \* history variables
  found,          \* the code directory when the job began
  running,        \* the version of the command that runs
  faults, interrupts, edits

code     == <<head, modules, engine, cli>>
progress == <<job, phase, outcome, target, previousRef, checkedOut>>
start    == <<found, running>>
counters == <<faults, interrupts, edits>>
vars     == <<published, code, dirty, stack, progress, start, counters>>

Versions == 0..MaxRelease
Builds == Versions \cup {Broken}
NotSetUp == -1

Jobs == {"none", "update", "rollback", "installer", "redeploy"}
Phases == {"idle", "check", "fetch", "checkout", "install", "engine", "cli",
           "redeploy"}
Outcomes == {"none", "upToDate", "updated", "failed", "restored", "stuck",
             "redeployFailed", "redeployed", "installed", "installFailed",
             "aborted"}

TypeOK ==
  /\ published \in Versions /\ head \in Versions /\ dirty \in BOOLEAN
  /\ modules \in Builds /\ engine \in Builds /\ cli \in Builds
  /\ stack \in Builds \cup {NotSetUp}
  /\ job \in Jobs /\ phase \in Phases /\ outcome \in Outcomes
  /\ target \in Versions /\ previousRef \in Versions /\ checkedOut \in BOOLEAN
  /\ found \in Versions \X Builds \X Builds \X Builds /\ running \in Builds
  /\ {faults, interrupts, edits} \subseteq Nat

\* The installer has run for whatever was the latest release.
Init ==
  /\ published \in Versions
  /\ head = published /\ modules = published /\ engine = published
  /\ cli = published /\ dirty = FALSE
  /\ stack \in {NotSetUp, published}
  /\ job = "none" /\ phase = "idle" /\ outcome = "none"
  /\ target = published /\ previousRef = published /\ checkedOut = FALSE
  /\ found = <<head, modules, engine, cli>> /\ running = cli
  /\ faults = 0 /\ interrupts = 0 /\ edits = 0

\* The command starts: main.js imports the engine and the packages.
Runnable == Broken \notin {modules, engine, cli}

-----------------------------------------------------------------------------
(* The jobs.                                                                  *)

Begin(j, p, t) ==
  /\ phase = "idle"
  /\ job' = j /\ phase' = p /\ target' = t /\ outcome' = "none"
  /\ checkedOut' = FALSE
  /\ found' = code /\ running' = cli
  /\ UNCHANGED <<published, code, dirty, stack, previousRef, counters>>

Settle(o) == phase' = "idle" /\ job' = "none" /\ outcome' = o

\* checkForUpdate: the latest release is newer than this command.
Update ==
  /\ Runnable /\ published > cli
  /\ Begin("update", "check", published)

UpToDate ==
  /\ phase = "idle" /\ Runnable /\ published <= cli
  /\ outcome' = "upToDate"
  /\ UNCHANGED <<published, code, dirty, stack, job, phase, target, previousRef,
                 checkedOut, start, counters>>

Install == Begin("installer", "check", published)
Redeploy == Runnable /\ stack # NotSetUp /\ Begin("redeploy", "redeploy", target)

\* A command of the job fails.
PhaseFails ==
  CASE job = "update" /\ phase = "redeploy" -> Settle("redeployFailed")
    [] job = "update" /\ phase # "redeploy" /\ checkedOut ->
         job' = "rollback" /\ phase' = "checkout" /\ UNCHANGED outcome
    [] job = "update" /\ phase # "redeploy" /\ ~checkedOut -> Settle("failed")
    [] job = "rollback"  -> Settle("stuck")
    [] job = "installer" -> Settle("installFailed")
    [] job = "redeploy"  -> Settle("redeployFailed")

-----------------------------------------------------------------------------
(* The phases.                                                                *)

\* The name of the branch, or the commit of a detached HEAD.
PreviousRef == head

CheckClean ==
  /\ phase = "check"
  /\ IF dirty
     THEN PhaseFails /\ UNCHANGED previousRef
     ELSE phase' = "fetch" /\ previousRef' = PreviousRef /\ UNCHANGED <<job, outcome>>
  /\ UNCHANGED <<published, code, dirty, stack, target, checkedOut, start, counters>>

\* The installer takes the highest of the tags it fetched.
Fetch ==
  /\ phase = "fetch"
  /\ phase' = "checkout"
  /\ target' = IF job = "installer" THEN published ELSE target
  /\ UNCHANGED <<published, code, dirty, stack, job, outcome, previousRef,
                 checkedOut, start, counters>>

Destination == IF job = "rollback" THEN previousRef ELSE target

\* The rollback is armed as soon as the release is checked out.
CheckedOutOnceBuilt == FALSE     \* mutant: only after the build
CheckedOut == job # "installer"

\* git refuses a checkout that would overwrite a local change.
Checkout ==
  /\ phase = "checkout"
  /\ head' = Destination /\ phase' = "install" /\ checkedOut' = CheckedOut
  /\ UNCHANGED <<published, modules, engine, cli, dirty, stack, job, outcome,
                 target, previousRef, start, counters>>

CheckoutRefused ==
  /\ phase = "checkout" /\ dirty
  /\ PhaseFails
  /\ UNCHANGED <<published, code, dirty, stack, target, previousRef, checkedOut,
                 start, counters>>

InstalledModules == head

InstallDependencies ==
  /\ phase = "install"
  /\ modules' = InstalledModules /\ phase' = "engine"
  /\ UNCHANGED <<published, head, engine, cli, dirty, stack, job, outcome,
                 target, previousRef, checkedOut, start, counters>>

EngineOnlyOnce == IF engine = Broken THEN head ELSE engine    \* mutant
BuiltEngine == head

BuildEngine ==
  /\ phase = "engine"
  /\ engine' = BuiltEngine /\ phase' = "cli"
  /\ UNCHANGED <<published, head, modules, cli, dirty, stack, job, outcome,
                 target, previousRef, checkedOut, start, counters>>

CliOfNewHead ==    \* mutant: no build when the checkout changed nothing
  IF head = found[1] THEN cli ELSE head
BuiltCli == head

\* What the job does when everything is built.
Built ==
  CASE job = "update" /\ stack # NotSetUp ->
         phase' = "redeploy" /\ UNCHANGED <<job, outcome>>
    [] job = "update" /\ stack = NotSetUp -> Settle("updated")
    [] job = "rollback"  -> Settle("restored")
    [] job = "installer" -> Settle("installed")

BuildCli ==
  /\ phase = "cli"
  /\ cli' = BuiltCli /\ Built
  /\ UNCHANGED <<published, head, modules, engine, dirty, stack, target,
                 previousRef, checkedOut, start, counters>>

\* The command that was built pulls the images and provisions again.
RunRedeploy ==
  /\ phase = "redeploy" /\ Runnable
  /\ stack' = cli
  /\ Settle(IF job = "update" THEN "updated" ELSE "redeployed")
  /\ UNCHANGED <<published, code, dirty, target, previousRef, checkedOut, start,
                 counters>>

-----------------------------------------------------------------------------
(* Failures.                                                                  *)

\* What the command of a phase may leave when it does not finish: pnpm has
\* half replaced node_modules, tsup has deleted what it was to build (clean).
HalfDone ==
  /\ modules' \in IF phase = "install" THEN {modules, head, Broken} ELSE {modules}
  /\ engine' \in IF phase = "engine" THEN {engine, head, Broken} ELSE {engine}
  /\ cli' \in IF phase = "cli" THEN {cli, head, Broken} ELSE {cli}
  /\ stack' \in IF phase = "redeploy" THEN {stack, cli, Broken} ELSE {stack}

Fail ==
  /\ phase # "idle" /\ faults < MaxFaults
  /\ faults' = faults + 1
  /\ HalfDone /\ PhaseFails
  /\ UNCHANGED <<published, head, dirty, target, previousRef, checkedOut, start,
                 interrupts, edits>>

\* Ctrl-C, a closed terminal, a host that dies.  A checkout that is killed may
\* have replaced files before it moved HEAD.
Interrupt ==
  /\ phase # "idle" /\ interrupts < MaxInterrupts
  /\ interrupts' = interrupts + 1
  /\ HalfDone
  /\ IF phase = "checkout"
     THEN head' \in {head, Destination} /\ dirty' \in {dirty, TRUE}
     ELSE UNCHANGED <<head, dirty>>
  /\ Settle(CASE job = "installer" -> "installFailed"
              [] job = "redeploy" -> "redeployFailed"
              [] OTHER -> "aborted")
  /\ UNCHANGED <<published, target, previousRef, checkedOut, start, faults, edits>>

-----------------------------------------------------------------------------
(* The world.                                                                 *)

Publish ==
  /\ published < MaxRelease
  /\ published' = published + 1
  /\ UNCHANGED <<code, dirty, stack, progress, start, counters>>

\* Somebody changes a file of the code directory, or discards the changes.
Edit ==
  /\ edits < MaxEdits /\ edits' = edits + 1 /\ dirty' = TRUE
  /\ UNCHANGED <<published, code, stack, progress, start, faults, interrupts>>
Discard ==
  /\ dirty /\ dirty' = FALSE
  /\ UNCHANGED <<published, code, stack, progress, start, counters>>

\* The first `moody-blues setup`.
Setup ==
  /\ phase = "idle" /\ Runnable /\ stack = NotSetUp
  /\ stack' = cli
  /\ UNCHANGED <<published, code, dirty, progress, start, counters>>

Job == CheckClean \/ Fetch \/ Checkout \/ CheckoutRefused \/ InstallDependencies
         \/ BuildEngine \/ BuildCli \/ RunRedeploy
World == Publish \/ Edit \/ Discard \/ Setup
Next == Update \/ UpToDate \/ Install \/ Redeploy \/ Job \/ Fail \/ Interrupt \/ World

Spec == Init /\ [][Next]_vars

\* A job goes on, and the administrator discards the changes that stop it and
\* runs the installer again as long as there is no command to run.
FairSpec ==
  Spec /\ WF_vars(Job) /\ WF_vars(Discard) /\ WF_vars(~Runnable /\ Install)

-----------------------------------------------------------------------------
(* Properties.                                                                *)

At(v) == code = <<v, v, v, v>>

\* An update that reports success has checked out, installed and built the release
\* it announced, and the stack, if there is one, was deployed by it; whatever an
\* earlier job left in the code directory.
UpdatedIsTarget ==
  outcome = "updated" => At(target) /\ stack \in {NotSetUp, target}

\* An update that fails without a rollback has not touched the code, and one that
\* says it restored the previous version has installed and built all of what was
\* checked out when it began; if that was whole, it is back as it was.
FailureIsClean ==
  /\ outcome = "failed" => code = found
  /\ outcome = "restored" => At(previousRef) /\ previousRef = found[1]

\* Whatever was interrupted or failed, running the installer again ("It is safe
\* to run again") brings back a command that runs.
CommandComesBack == []<>Runnable

\* Refuted: an update that says "The previous version was restored." has restored
\* the version that was running.
RestoredIsPrevious == outcome = "restored" => cli = running

\* Refuted: an interrupted update can be repeated, as its message says.
InterruptedCanRepeat == outcome = "aborted" => Runnable

\* Refuted: who repeats an interrupted update, as its message says, and is told
\* that there is nothing to update, has the stack that the update was to deploy.
RepeatFinishes ==
  [][outcome = "aborted" /\ outcome' = "upToDate" => stack \in {NotSetUp, cli}]_vars

=============================================================================
