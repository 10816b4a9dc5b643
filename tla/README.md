# A formal model of Moody Blues

Moody Blues is a command (`moody-blues`) that installs and runs a home media
stack with Docker Compose: Jellyfin, Sonarr, Radarr, Prowlarr, Bazarr, Seerr,
Decypharr (Real-Debrid) and Caddy. Nothing of it runs as a daemon. Every command
is a process that changes files, containers and the services' databases through
their APIs, and may die between any two of those changes. What is hard in this
code is therefore not parallelism inside one process but what a command finds
that an earlier one left half done, what commands in two terminals do to each
other's files, and what the services do on their own while a command waits for
them. That is what the modules here are about.

Paths below are relative to the repository; `provisioner` stands for
`packages/provisioner/src`, `cli` for `apps/cli/src`.

## The system

| Part | State it keeps | Operations | What is hard | Correct when | Module |
|---|---|---|---|---|---|
| Provisioning pipeline (`provisioner/pipeline`, `home`, `preseed`, `gateway`, `state`) | `moody-blues.json`, `.env`, seeded files, Caddyfile; flags of the run, in memory | an ordered list of idempotent steps, filtered by scope | a run dies anywhere and its flags with it; inputs change between runs | a run that succeeds has configured everything as asked; a repeated run repairs | `Provisioning` |
| Service clients and their provisioning (`provisioner/jellyfin`, `arr`, `servarr`, `profile`, `prowlarr`, `bazarr`, `decypharr`, `seerr`) | the databases of the services | read, compare, write what differs | a POST repeated by the HTTP client, keys created but not stored, passwords that cannot be read back | the services hold the live secrets of `.env` and know each other | `Provisioning` |
| `setup`, `config`, `reset`, `start`, `stop` (`cli/commands`, `cli/setup`, `cli/config`, `cli/reset`) | none of their own | choose the input and the plan of a run | reset deletes only a part; start before the files are seeded | reset repairs every state | `Provisioning`, `Installation` |
| Values of a setup, its wizard and the schema (`cli/setup`, `cli/ui`, `provisioner/config`) | the answers so far | merge layers, ask, validate | two functions decide what is missing; blank values; earlier settings | only what was asked is changed, nothing missing goes unasked | `SetupInput` |
| State file and `.env` (`provisioner/state`, `cli/installation`) | both files | read whole, write whole | no lock: commands interleave between their reads and writes | a setup brings the files back together, keys are kept | `Installation` |
| Release check (`cli/update/update.cache.ts`, `semver.utils.ts`, ...) | the cache in `moody-blues.json` | compare versions, ask GitHub, store | the whole state is written back; the clock is set | no stale release is announced as fresh | `Releases`, `Installation` |
| `retry` (`cli/retry`, `cli/commands/retry.command.ts`) | none; Sonarr's queue and history, Decypharr's torrents | search, choose, grab, wait, probe, import, roll back | Sonarr imports, grabs and loses downloads meanwhile; every call may fail after it was executed | never deletes what the library plays from, never lowers a quality, never reports an import that did not happen | `Retry` |
| Compose runner and health waiter (`cli/docker`) | containers | up, down, ps, restart, wait until healthy | services flap; the wait heals optional services while its clock runs | ends in time, fails only for required services | `HealthWaiter` |
| `update` and the installer (`cli/update`, `install.sh`) | the git checkout, `node_modules`, two `dist` directories | check out, install, build, redeploy, roll back | the command rebuilds the files it runs from; interrupts | what it reports is what is on the disk, a command can always be brought back | `CodeUpdate` |
| `remove` (`cli/remove`, `cli/commands/remove.command.ts`) | none; Radarr's and Sonarr's titles and history, Decypharr's torrents, Seerr's records | select, plan, confirm, delete the title, its torrents and its record | torrents shared with other titles, a title that is gone before the rest, lost replies | nothing another title uses is deleted, what is left is reported | `Remove`, `Removal` |
| HTTP client (`provisioner/http`) | attempts of one request, the time spent | probe and verify until ready, send, retry with backoff and Retry-After, abort | a request that ran although its reply was lost; a service that comes up between two probes | a POST is not repeated unless its connection was reset; everything ends in time | `HttpClient`, `Exchange` |
| Host checks (`cli/checks`) | none | one status per condition | what one check skips another must report | as for `doctor` | `Diagnosis` |
| `doctor` (`cli/doctor`) | none; readings shared by the checks | ordered checks, plan, confirmation, removals, checks again | readings that are old when they are used; services that stop answering; lost replies | no clean report of an unhealthy installation; what is removed was approved and is told | `Diagnosis`, `Doctor` |
| `tunnel` (`cli/tunnel`) | one ssh child | test the ports, start ssh, test until open, wait for its end | the two processes learn of an interrupt in either order; other programs take the ports | an interrupt always ends it and is no error; the ports it reports are those of ssh | `Tunnel` |
| `status`, `logs`, progress views, catalogue of services | none | read, print | nothing | - | not modelled |

The parts meet in four places. The commands share the files of MB_HOME with every
later command (`moody-blues.json` is read by `loadInstallation`, `.env` by every
step). The pipeline calls the compose runner and its waiter in `containers-up`.
The update starts the freshly built command as a child process, whose redeploy is
again a run of the pipeline. `retry` and `remove` share Sonarr and Decypharr
with everybody, `remove` Radarr and Seerr as well, `doctor` their queues.

## Modules

Each component has its module, an `MC` module that gives TLC its instances, one
`.cfg` per question, and a `Proofs` module. A definition marked `mutant` is a
plausible wrong variant of the next definition: every checked property is checked
to fail when the mutant takes its place.

### Provisioning

State: the files (`saved` is `moody-blues.json`; `env`, `serviceKeys` and
`jellyfinKey` are `.env`; `seed`, `caddyfile`, `tree`, `markers`), the containers
(`stack`, `container`, `caddyLoaded`), the services (`password`, `static`,
`wizard`, `jellyfinKeys`, `libraries`, `client`, `arrKey`, `seerr`, ...), and the
process (`command`, `plan`, `at`, `input`, `flags`).

`Plans` lists the operations of PROVISIONING_PIPELINE and of the shorter plans of
`reset`, `config transcoding` (with and without a crossing to hardware), `start`
and `stop`, in the order of the code. An operation is one call that writes, with
the reads that decide it; `Doing` enables the next one. `Fail` ends a run before
any operation: a call that fails, a wait that ends, Ctrl-C, a host that dies. The
process then forgets its input and its flags; the next command starts from the
files. Three operations can also half succeed: a sign-in of Seerr that leaves
the media server behind (`HalfSignIn`), a purge that stops (`PurgeStops`), a POST
that is repeated after it ran (in `CreateKey`).

Left out: more than one command at a time; a `docker compose up` that starts only
some containers; a service directory deleted in part; a changed administrator
name; languages, ACME address and bandwidth settings; `config quality-cap`;
changes made by hand in a service; which indexers fail their test; Seerr's own
token of a Jellyfin that was emptied; image pulls. The version of a container
image never matters to a later step.

### Retry

The choice of the series in `run`, then one season of it in `processSeason` and
`runRetry`. `pc` names the next call. Every call that changes something is a step of its own, and so is every
read whose answer is used after another call (`season`, `files`, `binReady`,
`before`, `kept`), so that Sonarr (`SonarrTracks`, `SonarrImports`,
`CommandImports`, `RivalGrab`, ...), Decypharr (`Reinsert`) and Ctrl-C
(`Interrupt`) interleave everywhere. A failing call may have been executed or
not. A release is one model value for its hash and its download id; the names are
reduced to `Rank` (qualityRank) and `Recognized` (Sonarr can parse it).

Left out: what a release name means, how a file is matched to an episode (any
claim is possible), the sampling of a file (any verdict), how a query finds a
series (one, several or none), the seasons of one series after each other.

### Remove and Removal

`Removal` is what the `remove` command promises, without how: a title goes first
(`DropTitle`), after that only torrents that no other title used when the command
began (`OnlyOf`), and only that title's record in Seerr; releases are grabbed and
torrents disappear at any time. `Remove` is the command. `pc` names the next call:
the library, the history of the title, the other titles of each download
(`ReadOtherTitles`, one step per download), the confirmation, and the steps of
`runRemove`. `Promise` maps it to `Removal`: `gone` is the target once the library
has lost it, `mine` the plan from then on, `before` the history variable `earlier`.
A call that changes something may fail before or after its server ran it.
`DeleteTorrent` is the DELETE of Decypharr's client, `CheckTorrent` the look at the
list with which that client tells a missing torrent from a failure.

Left out: how a query or an id finds its title (any title may be chosen, or none);
the pages of a list; the history of Radarr and that of Sonarr are read in one step
per download; a deleted title comes back only between two commands.

### HealthWaiter

`waitForHealthy`, with a clock that its own commands and sleeps advance. A poll may
answer anything, so a service may change at any time and any way. `Heal` is the
restart or abandonment of each optional service, one after another in any order
(the code takes the order of the compose file, which it does not choose).

Left out: the caller without `restart` (every caller passes it) and the parser of
`docker compose ps`, of which the four states are what remains.

### CodeUpdate

The code directory (`head`, `dirty`, `modules`, `engine`, `cli`: the version each
was made for, or `Broken`), the version that deployed the stack, and the four jobs
that share phases: update, its rollback, the installer, and `--redeploy`. A phase
that does not finish leaves the old, the new or nothing usable (`HalfDone`: tsup
deletes `dist` first, pnpm replaces `node_modules` in place). `Runnable` is a
command that starts.

Left out: the system packages the installer provides, MOODY_BLUES_REF, a
declined confirmation (it changes nothing), moved tags, a fork of the repository.
GitHub's latest release and the highest tag are the same version here.

### HttpClient and Exchange

`Exchange` is what one request promises its caller, without how: the server runs
it at most as often as it was sent, and one that may not be repeated at most once
more than connections were reset; success is told only of a request that ran;
nothing is sent after an abort or after the caller was told. `HttpClient` is the
wait for a service (`waitUntilReady` over `pollUntil`) followed by one request with
its attempts. A probe is a GET of `readyPath` with a timeout of its own and a single
attempt (`Probe`, `ProbeEnds`), then `await verify?.()` (`Verify`, `VerifyEnds`,
`RestEnds`). That is a second GET under the client's own timeout, retries and pauses:
the system status of the \*arr services and of Bazarr, and `verifyFullServer` for
Jellyfin. `verify` is the number of its attempts, chosen in the initial state; 0 stands
for the callers that pass none (Seerr, Decypharr). A service that is starting may
answer `readyPath` already, and then fail the verification, transiently (503) or for
good. A wait may thus last its budget, one probe and a whole request (`EndsInTime`).
`Tick` is the only action that lets time pass, and a timer that is due
goes off before the next tick. The jitter is an interval, Retry-After any of
`Wishes`. A service that has been up for all of a probe or a verification answers it
before its timeout. `strays` counts attempts the client has given up and the server may still
run. `Promise` maps it to `Exchange`: `told` is the result, `stopped` the abort
signal.

Left out: bodies and their encoding, the redaction of messages, headers.

### Diagnosis and Doctor

`Diagnosis` says which status each check gives (`DoctorChecks`, `DefaultChecks`).
What is wrong with the host and the services is a set of conditions, pairs of where
and what; `Reading` is the reading a check shares with others, taken the first time
it is needed (`memo` in `Doctor`). `Doctor` runs the checks one after another, and
with `--fix` makes the plan, asks, removes each item of it, and runs the checks of
`RemediationChecks` again. Between its steps conditions come and go, downloads get
stuck, are imported or are grabbed, Decypharr re-inserts torrents, a check times out,
a reply is lost and the user interrupts.

Left out: the text of logs and the patterns that find a line (a log has a number of
re-insertions, or cannot be read), the redaction of secrets, `--stuck-after` (an item
is stuck, young or has no date).

### SetupInput, Releases and Installation

`SetupInput` are the values of a setup: layers of options, file, environment and
earlier files (`Merge`, `Clears`), the schema (`ConfigIssues`), the configuration
they give over the earlier one (`BuildConfig`) and the questions of the wizard
(`NextQuestion`). `Releases` compares versions as the code does (`CompareSemver`), states
the order of section 11 of Semantic Versioning beside it (`Precedes`), and tells whether
a cache is fresh. Both are pure. `Installation` is `moody-blues.json` (`state`) and `.env` (`env`) with
the commands that read and write them: setup with its wizard, `config transcoding`,
`reset`, `update --redeploy` and `update --check`. Each terminal (`Procs`) runs its
commands one after another, and those of two terminals interleave at every read
and write (`PersistRead`, `PersistWrite`, `EnsureRead`, `EnsureWrite`, `IssueRead`,
`IssueWrite`, `LoadForCheck`, `Store`). A command may fail or be killed anywhere
(`Stop`); a new file replaces the old one as a whole. `Scenarios` gives an instance
the files it starts from and the commands of each terminal.

Left out: the text of the files, their owner and mode, languages and the other
settings no command sets (`rest`), the steps of the pipeline between the ones that
write the two files, which are in `Provisioning`, and `config quality-cap`.

### Tunnel

The command, its ssh process, the local ports and the other programs that may take
them. `FindBusyPorts` tests the ports one by one before ssh is started, `ProbePort`
afterwards, without knowing who answers; `AwaitExit` and `GraceOver` are the end of
`runTunnel`. Ctrl-C reaches the command and ssh, a SIGTERM only the command, and
either may learn of it first. What ssh does is external: it logs in, binds port after
port (`SshForward`), ends when it could not bind them all, or loses the connection.

Left out: which host and which services, the text of the report, host keys.

## Runs

| Run | Shows | Instance | Size |
|---|---|---|---|
| `prov_commands` | success means configured, rotations reach all, reset is never stuck, Sonarr and Radarr use the live key, seeds are of the generation of `.env`, secrets are saved first | every command, two inputs that differ in domain, mode, password and storage, half resets, half sign-ins, repeated POSTs, three runs | 1.9 M |
| `prov_retried` | only faults fail; a failed setup that is repeated succeeds | one password, half resets, repeated POSTs | 575 k |
| `prov_gateway` | refutes `GatewayServesConfig` | two domains | - |
| `retry_unparsed` | rollbacks, imports, termination of the picker loop | two episodes, two packs Sonarr cannot parse, old files of a quality between theirs, failing calls, interrupt | 2.9 M |
| `retry_contended` | an import that is reported happened, although the command may adopt a rival grab | a rival release, failing calls, headless | 1.8 M |
| `remove_titles` | the command implements `Removal`; what it leaves is reported | a film and a series, two torrents they may share and a download that is none, failing calls, interrupt, two commands | 1.0 M |
| `http_exchange` | the client implements `Exchange`; a wait and a request end, in time; a service that is there at the deadline is found | waits verified by none or by up to three attempts; then one to three attempts of a POST or a PUT; refused, reset, broken, slow and busy answers; abort | 1.5 M |
| `health_stack` | the wait ends, in time; no optional service is given up before it was restarted | one required and one optional service, failing commands, interrupt | 503 k |
| `doctor_commands` | no clean report of an unhealthy installation; no overlooked download that was read; removals approved and told | `doctor` and `check` over five configurations and each condition alone; six conditions that come and go, two at a time; `--fix` on three downloads with a plan of two | 4.4 M |
| `update_jobs` | what jobs report is true; a command comes back | main and two releases, two faults, one interrupt, one edit | 135 k |
| `installation_commands` | a setup repairs the files; only what was asked changes; keys are kept; the wizard asks for all; versions compare as they should; no stale release is announced | wizards told some values; setups with each option that stop anywhere, then one that repairs; overlapping commands; all pairs of 14 versions; overlapping release checks | 1.9 M |
| `tunnel_connection` | an interrupt ends the command and is no error; the ports it reports become those of ssh | two ports other programs take and leave three times, both signals | 576 k |

Bounds. `MaxRuns` = 3 allows a run that fails, its repetition and a third with
another input (`MCProvisioning_long.cfg` has a fourth: 10.8 M states, the same
result); `MaxFaults` = 2 lets the repetition fail too. What a fault
leaves depends only on the last operation that ran, so a third failing run meets a
state the second could have met. The cross products that matter (which input after
which) are exhaustive. In `Retry` two episodes separate "every" from "some", two
packs allow a second round of the picker, and one poll before a deadline separates
"in time" from "late"; `RivalGrab` happens once per rival. In `Remove` one title of
each service and two torrents give a shared and an unshared torrent in every order;
the second command meets what the first left; the proofs have any number of each. In
`HttpClient` a backoff of 3 reaches its cap of 5 at the second failure, and a
Retry-After may be nothing, less than the cap (4) and more; the budget of the wait
admits several probes, so that a pause is cut at the deadline; a verification of three
attempts with the longest pauses makes the bound of `EndsInTime` exact. In `Doctor` three items against a
plan of two show what stays behind; no check reads more than two conditions that
another hides, so two that come and go suffice. In `Installation` two terminals give
every overlap of two commands, and the proofs have any number; a cache lives for two ticks, so
that it can be young, old and from the future. In `Tunnel` two ports separate "one" from
"all", and three moves let a program take a port, leave it and take the other. In `HealthWaiter` the
timeout is 8 ticks, the grace 3 and a command at most 1, so that a restart, a
second grace and the timeout all meet; the services' order is covered by the
proof, which has any number of them. In `CodeUpdate` two releases after main give
a version below and above every other.

Fairness. `Provisioning!FairSpec`: a running command goes on, because every call
has a timeout and the pipeline awaits its steps one by one; the administrator
repeats setup (that is the hypothesis of the property). `Retry!FairSpec`: the
command's own steps, and the administrator answers the picker; nothing is assumed
of Sonarr, Decypharr or rivals. `Remove!FairSpec`: the same, and nothing is
assumed of the services. `HealthWaiter!FairSpec`: docker commands end.
`HttpClient!FairSpec`: time passes, and what is due happens; no attempt need be answered.
`Tunnel!Fairness`: the command's own steps and its handlers run, a login is ended by the
server at the latest (LoginGraceTime), and ssh does not ignore the signals it is sent;
nothing is assumed of a connection that is up. `GraceOver` is enabled only when no signal that
was sent is unhandled: its grace of 100 ms is longer than the event loop takes to run
the handler of a signal already sent. `Doctor!FairSpec`: the command's own steps.
`CodeUpdate!FairSpec`: a job goes on, local changes are discarded, and the
installer is run when there is no command left.

`retry_contended` runs without earlier imports, since `MCRetry_resent.cfg` shows that
`ImportedIsTrue` fails with them (below).

Three configurations that pass are kept beside the runs: `MCProvisioning_long.cfg`
(above), `MCRemove_ends.cfg` (the remove command ends; its types) and
`MCDoctor_ends.cfg` (the doctor ends or waits for its answer; its types, 2 M states).

## What the code does otherwise than it says

Listed in PROJECT.json, with the run that shows it:

- A setup with a new domain that fails between the Caddyfile and the reload is not
  repaired by repeating it: Caddy keeps the old configuration (`prov_gateway`).

These properties are stated in the modules as well and are refuted, each by the
configuration named here, which is not part of the list of runs:

| Configuration | Property | What happens |
|---|---|---|
| `MCProvisioning_hardware.cfg` | `HardwareReachesContainer` | `config transcoding hardware` that fails in `containers-up` is not repaired by repeating it, as its hint (`config.command.ts:57`) says: the container is not recreated |
| `MCProvisioning_libraries.cfg` | `LibrariesWatched` | a setup that fails between creating the libraries and their first scan never scans them when repeated |
| `MCProvisioning_token.cfg` | `TokenReachesDecypharr` | a new Real-Debrid token reaches `.env` but not the seeded configuration of Decypharr |
| `MCRetry_resent.cfg` | `ImportedIsTrue` | a pack imported by an earlier run is sent again: its old history record is taken for an import of now (`retry.service.ts:430`) |
| `MCRetry_lateimport.cfg` | `LibraryIntact` | Sonarr imports a release it can parse between the history read of the rollback and the deletion of the torrent |
| `MCRetry_unbinned.cfg` | `ReplacedFilesAreRecycled` | an episode that was missing when it was read gets a file, which the import then replaces without a recycle bin |
| `MCRemove_undeleted.cfg` | `UndeletedIsThere` | the reply to the deletion of a title is lost: "The title was not deleted", though it was, and no repeated command can find it to delete its torrents |
| `MCHealthWaiter_streak.cfg` | `UnhealthyIsConfirmed` | two unhealthy polls that are not consecutive fail the wait, because the branch that waits for optional services leaves the streaks alone (`health.waiter.ts:142`) |
| `MCCodeUpdate_restored.cfg` | `RestoredIsPrevious` | after an interrupted update has moved HEAD, the next one that fails restores the release it was going to: "The previous version was restored" (`update.command.ts:71`) |
| `MCCodeUpdate_repeat.cfg` | `InterruptedCanRepeat` | an update interrupted in the build leaves no command to repeat it with |
| `MCCodeUpdate_finish.cfg` | `RepeatFinishes` | an update interrupted in the redeploy is "up to date" when repeated |
| `MCInstallation_overlap.cfg` | `CheckChangesNothing` | `update --check` writes back the configuration it read before it asked GitHub, over a change saved meanwhile; its help says "without changing anything" (`update.command.ts:278`) |

## Proofs

TLAPS checks the following for every value of the constants that meets the
module's ASSUME. Each follows the same argument: an inductive invariant (`IInv`
where none is named), a lemma per action or group of actions, and `PTL` for the
temporal step. A second invariant uses the first as a hypothesis of its lemmas.

Every invariant and every safety action property of the passing runs is stated by one
of these theorems.

| Theorem | Says | Why the invariant is stronger |
|---|---|---|
| `ProvisioningProofs!TypeCorrect`, `SeedsNeverStale` | types; no seeded file holds a key of another generation than `.env` | `RunHasInput`: a running command knows its input, or the files it writes would have no type |
| `ProvisioningProofs!SuccessIsConfigured`, `ConnectionsStayLive`, `RotationIsComplete`, `SecretsFirst` | success means configured; Sonarr and Radarr use the live key; a rotation reaches every client; no service gets a password before `.env` has it | `MInv` (theorem `Progress`): whatever operations are behind the run (`Done`), what each of them established still holds, and none that comes later undoes it. `Achieved` says so in parts (`HostAchieved`, `MediaAchieved`, `KeyAchieved`, `SettingsAchieved`, `CredentialsAchieved`, `RequestsAchieved`); `Standing` is what holds whatever became of a run. At the end of the plan `Done` is the whole plan, and the properties follow |
| `ProvisioningProofs!ResetIsNeverStuck` | a reset fails only for a fault outside the program, whatever earlier commands left | `ResetInv`: after the purge of a reset nothing is left to stumble over (`Smooth`), and the steps after it keep it so |
| `ProvisioningProofs!OnlyFaultsStopRuns` | the same of every command, if `Regular` | `RegularInv`: Seerr is never half signed in, no service has invented a key of its own |
| `ProvisioningProofs!GatewayInOneDomain` | a successful provisioning leaves Caddy with the configuration it wrote, if all inputs have one domain | `OnlyDomain`: nothing that is saved, written or served knows another, and a running Caddy that has a file has loaded it |
| `RetryProofs!TypeCorrect`, `RollbackSparesLibrary` | types; no rollback deletes the torrent of a file from an unparsed pack, nor a shared one | `FilesRecorded` ties files to history records, `DeletesUnused` says that a deletion under way is of an unused torrent, `ImportIsFinal` that no import of it can still come, `UnparsedNeverPending` that Sonarr does not import such packs on its own |
| `RetryProofs!RollbackLeavesNothing`, `ImportedPacksAreSound` | a rollback that reports no failure removed the torrent and blocklisted the release, or the library uses it and both stayed; no import is asked for of a pack Decypharr re-inserted or marked bad | `Rounds`: whose the release of this round is (`Adopted`), which packs earlier rounds used up (`Spent`), what each label of the rollback has dealt with (`RolledBack`), that the release waits in the queue unharmed (`Waiting`) |
| `RetryProofs!ImportsAreTrue` | an import that is reported happened, if `Earlier = {}` | `FiledSince`: what was filed since the seasons were read was imported since |
| `RetryProofs!ReplacedAreRecycled`, `QualityNeverDrops` | no file is replaced without a recycle bin; no episode gets a worse file, both if `Alone` | `AsRead`: until the import is asked for, the library is the one that was read, unless Sonarr can parse the pack; `Apart`: what Sonarr then imports on its own is the pack of this very round, and the command asks for no import of such a pack |
| `RetryProofs!LibraryUntouched` | every file of the season keeps its torrent ("The library was not touched"), if Sonarr neither grabs nor imports on its own | `FilesRecorded`, `DeletesUnused` and `UnparsedNeverPending`: a deletion spares every torrent a file came from that Sonarr does not import meanwhile |
| `RemoveProofs!TypeCorrect`, `RemovalIsAccountedFor` | types; every torrent a removed title had is gone, used by another title, kept on request or reported, and exit code 0 leaves no record in Seerr | `SharedRead` and `PlanSound` carry what was read of each torrent to the deletion, `HistoryKept` says that what was read still holds, `LeftKnown` counts the torrents that are still to be looked at |
| `RemoveProofs!RemoveImplementsRemoval` | `Remove` implements `Removal`: initial states map to initial states and every step to a step or a stutter | the same invariant: at the deletion the plan is within `OnlyOf(target)`, and after it only torrents of the plan are left to delete |
| `HealthWaiterProofs!TypeCorrect`, `WaitEndsInTime`, `OptionalNeverFails`, `RestartsOnce` | types; the bound on the wait; who is blamed; one restart | `OnTime` reserves one command for every optional service of the round that was not looked at yet, so that the clock cannot pass the bound in the middle of a round |
| `HealthWaiterProofs!OptionalIsTried` | the wait does not go on without an optional service that its last two polls saw broken before it tried to restart it | `StreaksFollow` (in `TriedInv`): what the counters of a service say about the last two polls, before and after it was looked at in a round |
| `HealthWaiterProofs!UnhealthyTwice` | a required service is reported unhealthy only when two polls in a row saw it so, if `Optional = {}` | `StreaksFresh`: a streak is of the poll before, or of the last one once it has been judged |
| `HttpClientProofs!TypeCorrect`, `RequestsEndInTime` | types; the longest wait (its budget and one probe, with all the attempts of its verification) and the longest request, for every policy | `Clock` adds what the pending timer may still take to the time spent, per phase; `Phases` says how many attempts that can be |
| `HttpClientProofs!ReadyServiceIsFound` | a wait gives up only when its whole budget has passed and the service was not there for all of the last call, probe or verification | the same invariant; only `PauseOrGiveUp` ends a wait that way, and nothing moves after it |
| `HttpClientProofs!ClientImplementsExchange` | `HttpClient` implements `Exchange` | `Sends` counts the attempts the server may still run: of a POST no more than one beyond its resets |
| `DoctorProofs!TypeCorrect` | types of everything but the list of a second pass | `Bounds`: times, chances and inserted checks stay below the end of the log |
| `DoctorProofs!ReportsAreTrue`, `RemovalsAreApproved` | every removal requested is told, exit 0 means the whole plan is gone; only approved items are removed, none after an interrupt | `Dealt` says what of the plan each stage has dealt with, `Whereabouts` that a removed item is gone |
| `DoctorProofs!AllPassedIsTrue`, `SuccessIsHonest` | all passed means that nothing a check is there for lasted through the command, and no download was stuck all along; a success with a stuck download says that a queue was not read | `Findings`: the shared readings and each status are what a condition that lasted makes of them (`Shared`, `Evidence`, through `Says`), the scan has every stuck item of the queues it read (`Scanned`), and no check of the list is forgotten (`Complete`). The lemmas go through the checks one by one, and through what each hides from another |
| `InstallationProofs!TypeCorrect` | types: every key in `.env` was generated by a command or created by Jellyfin | `KeysExist`: the same of the keys a command holds after it read `.env` and before it writes it |
| `InstallationProofs!LoneCheckChangesNothing` | a release check leaves the saved configuration as it found it, if `Procs = {t}` | `AllAlone`: no second command began, so what the check read before its request is what it saves after it |
| `InstallationProofs!NewsStaysFresh` | no release is announced that was not the latest within the time to live, plus what the clock was set back | `NewsInv`: every answer remembered anywhere, also in the memory of a command that will write it back, was true at the time it is dated with |
| `InstallationProofs!CompareIsPrecedence`, `AnnouncementsAreTrue` | an update is announced exactly when its version comes after the one that runs | `Announced`, and `CompareIsPrecedence`: compareSemver computes the order of Semantic Versioning (`Precedes`), in all three of its answers and for any number of identifiers |
| `InstallationProofs!KeysStay` | the keys of `.env` stay once a command has begun on them | `KeyInv`: whoever is about to write `.env` has read the keys that are in it |
| `InstallationProofs!WizardIsComplete` | the wizard never ends with an input that misses a value | `Phases` (in `CommandInv`): what a command holds at each label. In the wizard its draft is what resolveSetupInput made of the sources and every question asked so far has its answer, so that no question left means nothing missing |
| `InstallationProofs!OthersSettingsStay`, `SetupLeavesAgreement` | a command alone changes only what it was asked to; a setup alone that succeeds leaves the files and Jellyfin in agreement | `AloneInv`: a command alone sees the files it began with, or what it has made of them (`Follows`, label by label) |
| `CommandProofs!TypeCorrect`, `SuccessIsComplete`, `FailureLeavesNoMix` | types; a reported update is complete; a failed one left what it found, or one version throughout: the one that was checked out when it began | `Reached` says which parts are at the version checked out in each phase, `Armed` when a failure rolls back, and that the reference it goes back to is the one it found |
| `CommandProofs!TunnelTypeCorrect`, `InterruptsAreNoErrors`, `NoSshIsLeft` | types; a tunnel that was told to stop never ends as a failure, however ssh and its watcher die; no tunnel that has ended leaves an ssh behind | `TunnelInv`: `Unheard`: who has not been told of an interrupt still has every signal to handle; `Lifetime`: what there is of ssh at each label |

Nine theorems have a hypothesis of their own:

- `Regular` (`OnlyFaultsStopRuns`): the password never changes, Seerr keeps nothing of
  a sign-in that failed, and containers are only started by a run that has seeded the
  services (no `start`, no `config transcoding`). `prov_retried` is such an instance.
  `ResetIsNeverStuck` needs no hypothesis.
- One domain in `Inputs` (`GatewayInOneDomain`): `MCProvisioning_gateway.cfg` refutes it
  with two.
- `Earlier = {}` (`ImportsAreTrue`): no pack was imported by an earlier run;
  `MCRetry_resent.cfg` refutes the property otherwise.
- `Alone` (`ReplacedAreRecycled`, `QualityNeverDrops`): Sonarr grabs nothing of its own
  for the series (`Rivals = {}`), and the picker loop does not offer packs Sonarr can
  parse beside packs it cannot; the headless command may offer any. A file of a rival,
  or of a pack of an earlier round, is imported between the read of the season and the
  import and refutes both otherwise (`MCRetry_unbinned.cfg` is such an instance).
- `Rivals = {}` and `Recognized = {}` (`LibraryUntouched`): `MCRetry_lateimport.cfg`
  refutes it where Sonarr can parse a pack.
- `Optional = {}` (`UnhealthyTwice`): `MCHealthWaiter_streak.cfg` refutes it otherwise.
- `Procs = {t}` (`LoneCheckChangesNothing`): `MCInstallation_overlap.cfg` refutes it with
  two terminals.

Everything else rests on the ASSUMEs of the modules, which TLC evaluates in a run:
disjoint sets of packs and rivals, ranks and times that are natural numbers, positive
bounds; that the model values for "none" (`Nothing`, `NoPack`, `NoTitle`, `Never`) are
no values; in `SetupInput` that an undefined or a blank field is neither a domain nor
an e-mail address; in `Doctor` that a scenario is a configuration and conditions
of the model and that the bound of the log admits the threshold; in `Installation` that an instance begins without files or
with ones the schemas take, and that `Versions` lists the releases in the
order of section 11 of Semantic Versioning (`Precedes`), to which compareSemver is
compared.

Only model-checked: all liveness (`RetriedSetupSucceeds`, `CommandComesBack`, the
`Terminates` of three modules, `InterruptEnds`, `ReadyIsServed`), which the prover does
not reach; and in `Doctor` the type of the list of a second pass, made by `SelectSeq`,
which the provers cannot expand. `CommandProofs` holds the proofs of two commands, `CodeUpdate` and `Tunnel`,
which share nothing; that is why the names in `Tunnel` are its own.
The modules are proved one by one; that `Provisioning` and `Remove` use a client
that keeps `Exchange` is in their own actions (`CreateKey` repeats a POST that ran,
the calls of `Remove` fail before or after they ran).

## Not modelled

- `status` and `logs` read and print. The catalogue of services is constants. The
  fakes of `provisioner/testing` belong to the tests.
- The quality profile (`provisioner/profile`): custom formats, scores and sizes are
  data written as a whole when they differ; `MasterProfile` is that write.
- The loop of `retry` over several seasons: each starts from the library the one before
  left, which is one of the libraries `Init` of `Retry` starts from, and none reads
  anything of another.
- Text: log lines and the patterns that find them, release names, `docker compose ps`,
  the formats of both files, JSON output. Each is what it means to the next step.
- Ownership and permissions of files, and the system packages, Node.js, pnpm and Docker
  the installer provides.
- A person who changes settings inside a service, except where the code looks for it.
- The processes of one command in parallel with another in `Provisioning`: the overlap
  of two commands is modelled where they share files (`Installation`), not in every
  call to a service.
