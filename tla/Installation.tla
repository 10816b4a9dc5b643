------------------------------ MODULE Installation ------------------------------
(***************************************************************************)
(* The two files of an installation and the commands that share them:       *)
(* setup, config transcoding, reset, update --redeploy and update --check   *)
(* (setup.service.ts, setup.command.ts, SetupWizardView.tsx,                *)
(* config.service.ts, reset.service.ts, update.redeploy.ts,                 *)
(* update.service.ts, and the steps persist-state, ensure-env and           *)
(* ensureJellyfinAccess of the pipeline).                                   *)
(*                                                                          *)
(* Nothing locks the files.  Commands of several terminals interleave at    *)
(* every read and write; a write replaces a file as a whole                 *)
(* (atomic-write.utils.ts).  A command may fail, be interrupted or be       *)
(* killed anywhere.  Releases appear and the clock is set meanwhile.        *)
(*                                                                          *)
(* A definition marked `mutant` is a faulty variant of the next one, used   *)
(* only to check that the properties can fail.                              *)
(***************************************************************************)
EXTENDS SetupInput, Releases, FiniteSets

CONSTANTS
  Procs,          \* terminals
  Versions,       \* what GitHub may call its latest release, in release order
  Scenarios       \* the situations of an instance, see Init

ASSUME InstallationAssumption == Ttl \in Nat \ {0}

VARIABLES
  \* the home directory
  state,          \* state.json: [config, cache]
  env,            \* .env
  \* Jellyfin, and the keys generated so far
  live, issued, keysMade,
  \* the surroundings
  cli,            \* the version of the commands
  latest, superseded, time, ahead, back,
  changes, stops, \* how often the surroundings may change, a command may stop
  \* the commands
  jobs, pc, task,
  key,            \* a key about to be written
  disk,           \* what was read of the file about to be written
  carried,        \* the cache of the state a command has loaded
  reply,          \* a release check: its `now`, and what GitHub answered
  \* history variables
  told, began, alone,
  settled         \* the keys of .env when a command last began with no other

files    == <<state, env>>
jellyfin == <<live, issued, keysMade>>
news     == <<cli, latest, superseded, time, ahead, back, changes>>
command  == <<jobs, pc, task, key, disk, carried, reply, stops>>
history  == <<told, began, alone, settled>>
vars     == <<files, jellyfin, news, command, history>>

Releases == DOMAIN Versions

ASSUME VersionsAssumption ==
  /\ Versions \in Seq(Semvers)
  /\ \A i, j \in Releases : i < j => Precedes(Versions[i], Versions[j])

NoCache  == [at |-> 0, release |-> 0]
Caches   == [at : Int, release : {0} \cup Releases]
NoState  == [config |-> NoConfig, cache |-> NoCache]
NoEnv    == [home |-> FALSE, domain |-> Undefined, storage |-> FALSE,
             secrets |-> NoSecrets, keys |-> 0, jellyfin |-> 0]
IsEnv(e) ==
  e = [home |-> e.home, domain |-> e.domain, storage |-> e.storage,
       secrets |-> e.secrets, keys |-> e.keys, jellyfin |-> e.jellyfin]
NothingTold == [release |-> 0, available |-> FALSE, at |-> 0]

IsState(s) ==
  /\ s = [config |-> s.config, cache |-> s.cache]
  /\ s.config = NoConfig \/ IsConfig(s.config)
  /\ s.cache \in Caches

\* The options of a command.
Kinds == {"setup", "config", "reset", "redeploy", "check"}
IsJob(j) ==
  /\ j.kind \in Kinds /\ IsValues(j.flags) /\ IsValues(j.envFile)
  /\ j.value \in TranscodingModes
Jobs ==
  {j \in UNION {{s.jobs[p][i] : i \in DOMAIN s.jobs[p]} : s \in Scenarios, p \in Procs} :
     IsJob(j)}

\* The time of an instance begins at 0; a cache there from the beginning is older.
ASSUME ScenariosAssumption ==
  \A s \in Scenarios :
    /\ IsState(s.state) /\ s.state.cache.at <= 0
    /\ IsEnv(s.env) /\ IsSecrets(s.env.secrets)
    /\ s.env.keys \in Nat /\ s.env.jellyfin \in Nat /\ s.live \subseteq 1..s.env.jellyfin
    /\ s.latest \in Releases /\ s.cli \in Releases
    /\ s.jobs \in [Procs -> Seq(Jobs)]

\* What a command holds: its job; what it loaded; the wizard; what it will apply.
NoJob  == [kind |-> "none", flags |-> NoValues, envFile |-> NoValues,
           interactive |-> FALSE, yes |-> FALSE, fuse |-> {FALSE},
           value |-> "off", useCache |-> FALSE]
NoTask == [job |-> NoJob, source |-> NoConfig, saved |-> NoSecrets,
           draft |-> NoValues, answers |-> NoValues, answered |-> {}, issues |-> {},
           config |-> NoConfig, secrets |-> NoSecrets, cleared |-> {},
           result |-> "none"]

Labels  == {"idle", "load", "loadenv", "resolve", "wizard", "again", "confirm", "purge",
            "persist", "persisting", "ensure", "ensuring", "access", "create",
            "issue", "issuing", "fetch", "storing", "done"}
Results == {"none", "success", "stopped", "refused", "cancelled", "incomplete"}
Busy(p) == pc[p] \notin {"idle", "done"}

\* The clock the commands read.
Clock == time + ahead - back

TypeOK ==
  /\ state.cache \in Caches /\ state.config.mode \in DeployModes \cup {"none"}
  /\ env.keys \in 0..keysMade /\ env.jellyfin \in 0..issued
  /\ live \subseteq 1..issued /\ issued \in Nat /\ keysMade \in Nat
  /\ latest \in Releases /\ superseded \in [Releases -> Nat]
  /\ time \in Nat /\ ahead \in Nat /\ back \in Nat
  /\ pc \in [Procs -> Labels] /\ \A p \in Procs : task[p].result \in Results
  /\ key \in [Procs -> Nat]
  /\ carried \in [Procs -> Caches] /\ reply \in [Procs -> Caches]
  /\ told \in [Procs -> [release : {0} \cup Releases, available : BOOLEAN, at : Nat]]

Init ==
  /\ \E s \in Scenarios :
       /\ state = s.state /\ env = s.env /\ live = s.live /\ jobs = s.jobs
       /\ issued = s.env.jellyfin /\ keysMade = s.env.keys
       /\ cli = s.cli /\ latest = s.latest
       /\ changes = s.changes /\ stops = s.stops
  /\ superseded = [r \in Releases |-> 0] /\ time = 0 /\ ahead = 0 /\ back = 0
  /\ pc = [p \in Procs |-> "idle"] /\ task = [p \in Procs |-> NoTask]
  /\ key = [p \in Procs |-> 0] /\ disk = [p \in Procs |-> NoEnv]
  /\ carried = [p \in Procs |-> NoCache] /\ reply = [p \in Procs |-> NoCache]
  /\ told = [p \in Procs |-> NothingTold]
  /\ began = [p \in Procs |-> [state |-> state, env |-> env]]
  /\ alone = [p \in Procs |-> FALSE] /\ settled = 0
-----------------------------------------------------------------------------
(* Beginning, and ending                                                    *)

\* reset asks before it loads anything it will use; config asks once it knows
\* the plan, setup once it knows the input.
Begin(p) ==
  /\ ~Busy(p) /\ jobs[p] # <<>>
  /\ LET job == Head(jobs[p])
     IN /\ task' = [task EXCEPT ![p] = [NoTask EXCEPT !.job = job]]
        /\ pc' = [pc EXCEPT ![p] = IF job.kind = "reset" THEN "confirm" ELSE "load"]
  /\ jobs' = [jobs EXCEPT ![p] = Tail(@)]
  /\ key' = [key EXCEPT ![p] = 0] /\ disk' = [disk EXCEPT ![p] = NoEnv]
  /\ told' = [told EXCEPT ![p] = NothingTold]
  /\ began' = [began EXCEPT ![p] = [state |-> state, env |-> env]]
  /\ alone' = [q \in Procs |-> q = p /\ \A r \in Procs : ~Busy(r)]
  /\ settled' = IF \A r \in Procs : ~Busy(r) THEN env.keys ELSE settled
  /\ UNCHANGED <<files, jellyfin, news, carried, reply, stops>>

Job(p) == task[p].job

\* A command that ends, or goes on, and what it then holds.
GoOn(p, label, t) == pc' = [pc EXCEPT ![p] = label] /\ task' = [task EXCEPT ![p] = t]
End(p, result)    == GoOn(p, "done", [task[p] EXCEPT !.result = result])
Go(p, label)      == GoOn(p, label, task[p])

\* A check that fails, a service that does not answer, an interrupt, a signal:
\* a write that has not happened will not.
Stop(p) ==
  /\ Busy(p) /\ stops > 0
  /\ stops' = stops - 1
  /\ End(p, "stopped")
  /\ UNCHANGED <<files, jellyfin, news, jobs, key, disk, carried, reply, history>>
-----------------------------------------------------------------------------
(* loadSetupSources, loadInstallation: state.json, then .env                *)

LoadState(p) ==
  /\ pc[p] = "load" /\ Job(p).kind # "check"
  /\ carried' = [carried EXCEPT ![p] = state.cache]
  /\ IF state.config = NoConfig /\ Job(p).kind # "setup"
     THEN End(p, "refused")
     ELSE GoOn(p, "loadenv", [task[p] EXCEPT !.source = state.config])
  /\ UNCHANGED <<files, jellyfin, news, jobs, key, disk, reply, stops, history>>

\* runConfigChange: the plan of planTranscoding is disruptive when it begins or
\* ends the use of the hardware.
Disruptive(source, value) == (source.transcoding = "hardware") # (value = "hardware")

LoadEnv(p) ==
  /\ pc[p] = "loadenv"
  /\ LET t      == task[p]
         loaded == [t EXCEPT !.saved = env.secrets, !.secrets = env.secrets,
                             !.config = t.source]
     IN CASE Job(p).kind = "setup" -> GoOn(p, "resolve", [t EXCEPT !.saved = env.secrets])
          [] Job(p).kind # "setup"
               /\ (~env.home \/ \E f \in RequiredSecrets : env.secrets[f] = Undefined)
               -> End(p, "refused")
          [] OTHER
               -> GoOn(p, CASE Job(p).kind = "reset" -> "purge"
                            [] Job(p).kind = "redeploy" -> "persist"
                            [] OTHER -> IF Disruptive(t.source, Job(p).value)
                                        THEN "confirm" ELSE "persist",
                       IF Job(p).kind = "config"
                       THEN [loaded EXCEPT !.config.transcoding = Job(p).value]
                       ELSE loaded)
  /\ UNCHANGED <<files, jellyfin, news, jobs, key, disk, carried, reply, stops, history>>
-----------------------------------------------------------------------------
(* setup.command.ts, SetupWizardView.tsx                                    *)

Resolution(p, storage) ==
  Resolve([config |-> task[p].source, secrets |-> task[p].saved,
           flags |-> Job(p).flags, envFile |-> Job(p).envFile],
          task[p].answers, storage)

Resolved(p, r) ==
  [task[p] EXCEPT !.config = r.config, !.secrets = r.secrets, !.cleared = r.cleared,
                  !.issues = r.issues]

\* session.resolve(): a headless setup needs a complete input, a wizard one
\* without mistakes.  A wizard that has nothing to ask resolves once more before
\* it shows the summary, to the same but for the FUSE check.
FirstResolve(p) ==
  /\ pc[p] = "resolve"
  /\ \E storage \in Job(p).fuse :
       LET r == Resolution(p, storage)
       IN IF r.issues = {} THEN GoOn(p, IF ~Job(p).interactive \/ Job(p).yes
                                        THEN "persist" ELSE "confirm", Resolved(p, r))
          ELSE IF ~Job(p).interactive \/ \E i \in r.issues : i[2] = "invalid"
               THEN End(p, "refused")
          ELSE GoOn(p, "wizard", [task[p] EXCEPT !.draft = r.draft])
  /\ UNCHANGED <<files, jellyfin, news, jobs, key, disk, carried, reply, stops, history>>

KnownTo(p) == Known(task[p].draft, task[p].answers)

\* record: a question that is skipped is answered without a value.
Answer(p) ==
  /\ pc[p] = "wizard" /\ Open(KnownTo(p), task[p].answered) # {}
  /\ LET q == NextQuestion(KnownTo(p), task[p].answered)
     IN \E a \in Answers(q) :
          task' = [task EXCEPT ![p].answered = @ \cup {q},
                               ![p].answers[q] = IF a = Blank THEN @ ELSE a]
  /\ UNCHANGED <<files, jellyfin, news, pc, jobs, key, disk, carried, reply, stops, history>>

SecondResolve(p) ==
  /\ pc[p] = "wizard" /\ Open(KnownTo(p), task[p].answered) = {}
  /\ \E storage \in Job(p).fuse :
       LET r == Resolution(p, storage)
       IN IF r.issues # {}
          THEN GoOn(p, "done", [Resolved(p, r) EXCEPT !.result = "incomplete"])
          ELSE GoOn(p, IF Job(p).yes THEN "persist" ELSE "confirm", Resolved(p, r))
  /\ UNCHANGED <<files, jellyfin, news, jobs, key, disk, carried, reply, stops, history>>

\* The confirmations; without a terminal only --yes approves.
Approve(p) ==
  /\ pc[p] = "confirm" /\ (Job(p).yes \/ Job(p).interactive)
  /\ Go(p, IF Job(p).kind = "reset" THEN "load" ELSE "persist")
  /\ UNCHANGED <<files, jellyfin, news, jobs, key, disk, carried, reply, stops, history>>
Decline(p) ==
  /\ pc[p] = "confirm" /\ ~Job(p).yes
  /\ End(p, "cancelled")
  /\ UNCHANGED <<files, jellyfin, news, jobs, key, disk, carried, reply, stops, history>>
-----------------------------------------------------------------------------
(* The steps of the pipeline that touch the two files, in their order       *)

\* reset-stop, reset-purge: Jellyfin forgets its keys; both files stay.
Purge(p) ==
  /\ pc[p] = "purge"
  /\ live' = {}
  /\ Go(p, "persist")
  /\ UNCHANGED <<files, issued, keysMade, news, jobs, key, disk, carried, reply, stops, history>>

\* persistStateStep
ToPersist(p) == [config |-> [task[p].config EXCEPT !.version = cli], cache |-> carried[p]]
AfterPersist(p) == IF Job(p).kind = "config" THEN "access" ELSE "ensure"

PersistRead(p) ==
  /\ pc[p] = "persist"
  /\ Go(p, IF state = ToPersist(p) THEN AfterPersist(p) ELSE "persisting")
  /\ UNCHANGED <<files, jellyfin, news, jobs, key, disk, carried, reply, stops, history>>
PersistWrite(p) ==
  /\ pc[p] = "persisting"
  /\ state' = ToPersist(p)
  /\ Go(p, AfterPersist(p))
  /\ UNCHANGED <<env, jellyfin, news, jobs, key, disk, carried, reply, stops, history>>

\* ensureEnvStep: what it would make of the .env it has read.
\* mutant
NextEnvWithCleared(p, current, keys) ==
  [home |-> TRUE, domain |-> task[p].config.domain, storage |-> task[p].config.storage,
   secrets |-> [f \in SecretFields |-> Or(task[p].secrets[f], current.secrets[f])],
   keys |-> keys, jellyfin |-> current.jellyfin]
NextEnv(p, current, keys) ==
  [home |-> TRUE, domain |-> task[p].config.domain, storage |-> task[p].config.storage,
   secrets |-> [f \in SecretFields |->
                  IF f \in task[p].cleared THEN Undefined
                  ELSE Or(task[p].secrets[f], current.secrets[f])],
   keys |-> keys, jellyfin |-> current.jellyfin]

\* ensureServiceKeys: keys that are missing are generated.
\* mutant
KeysForAnew(current) == keysMade + 1
KeysFor(current) == IF current.keys = 0 THEN keysMade + 1 ELSE current.keys

EnsureRead(p) ==
  /\ pc[p] = "ensure"
  /\ disk' = [disk EXCEPT ![p] = env]
  /\ key' = [key EXCEPT ![p] = KeysFor(env)]
  /\ keysMade' = IF KeysFor(env) > keysMade THEN KeysFor(env) ELSE keysMade
  /\ pc' = [pc EXCEPT ![p] = IF env = NextEnv(p, env, KeysFor(env))
                             THEN "access" ELSE "ensuring"]
  /\ UNCHANGED <<files, live, issued, news, jobs, task, carried, reply, stops, history>>
EnsureWrite(p) ==
  /\ pc[p] = "ensuring"
  /\ env' = NextEnv(p, disk[p], key[p])
  /\ Go(p, "access")
  /\ UNCHANGED <<state, jellyfin, news, jobs, key, disk, carried, reply, stops, history>>

\* activeKey
FirstKey(keys) == CHOOSE k \in keys : \A j \in keys : k <= j

\* ensureJellyfinAccess: the key of .env if Jellyfin takes it, else its first
\* active key of Moody Blues, else one it is asked to create.
\* mutant
AccessTrustsKey(p) ==
  /\ pc[p] = "access"
  /\ IF env.jellyfin # 0 THEN End(p, "success")
     ELSE IF live = {} THEN Go(p, "create") ELSE Go(p, "issue")
  /\ key' = [key EXCEPT ![p] = IF live = {} THEN @ ELSE FirstKey(live)]
  /\ UNCHANGED <<files, jellyfin, news, jobs, disk, carried, reply, stops, history>>
Access(p) ==
  /\ pc[p] = "access"
  /\ IF env.jellyfin \in live THEN End(p, "success")
     ELSE IF live = {} THEN Go(p, "create") ELSE Go(p, "issue")
  /\ key' = [key EXCEPT ![p] = IF live = {} THEN @ ELSE FirstKey(live)]
  /\ UNCHANGED <<files, jellyfin, news, jobs, disk, carried, reply, stops, history>>
CreateKey(p) ==
  /\ pc[p] = "create"
  /\ issued' = issued + 1 /\ live' = live \cup {issued + 1}
  /\ key' = [key EXCEPT ![p] = FirstKey(live')]
  /\ Go(p, "issue")
  /\ UNCHANGED <<files, keysMade, news, jobs, disk, carried, reply, stops, history>>

\* persistIssuedKey
IssueRead(p) ==
  /\ pc[p] = "issue"
  /\ disk' = [disk EXCEPT ![p] = env]
  /\ IF env.jellyfin = key[p] THEN End(p, "success") ELSE Go(p, "issuing")
  /\ UNCHANGED <<files, jellyfin, news, jobs, key, carried, reply, stops, history>>
IssueWrite(p) ==
  /\ pc[p] = "issuing"
  /\ env' = [disk[p] EXCEPT !.jellyfin = key[p]]
  /\ End(p, "success")
  /\ UNCHANGED <<state, jellyfin, news, jobs, key, disk, carried, reply, stops, history>>
-----------------------------------------------------------------------------
(* update --check (inspectUpdate, checkForUpdate)                           *)

Tell(p, release) ==
  told' = [told EXCEPT ![p] = [release |-> release, at |-> time,
                               available |-> IsNewer(Versions[release], Versions[cli])]]

LoadForCheck(p) ==
  /\ pc[p] = "load" /\ Job(p).kind = "check"
  /\ reply' = [reply EXCEPT ![p] = [at |-> Clock, release |-> 0]]
  /\ carried' = [carried EXCEPT ![p] = state.cache]
  /\ IF Job(p).useCache /\ state.cache.release # 0 /\ IsCacheFresh(state.cache, Clock)
     THEN Tell(p, state.cache.release) /\ End(p, "success")
     ELSE GoOn(p, "fetch", [task[p] EXCEPT !.source = state.config]) /\ UNCHANGED told
  /\ UNCHANGED <<files, jellyfin, news, jobs, key, disk, stops, began, alone, settled>>

\* fetchLatestRelease; GitHub may have no release at all.
Fetch(p) ==
  /\ pc[p] = "fetch"
  /\ reply' = [reply EXCEPT ![p].release = latest]
  /\ Tell(p, latest)
  /\ IF task[p].source = NoConfig THEN End(p, "success") ELSE Go(p, "storing")
  /\ UNCHANGED <<files, jellyfin, news, jobs, key, disk, carried, stops, began, alone, settled>>
FetchNothing(p) ==
  /\ pc[p] = "fetch"
  /\ End(p, "success")
  /\ UNCHANGED <<files, jellyfin, news, jobs, key, disk, carried, reply, stops, history>>

\* storeUpdateCache: the state it had loaded, with the new cache.  A write that
\* fails is no failure.
\* mutant
StoreWithTheTimeOfWriting(p) ==
  /\ pc[p] = "storing"
  /\ state' = [config |-> task[p].source,
               cache |-> [at |-> Clock, release |-> reply[p].release]]
  /\ End(p, "success")
  /\ UNCHANGED <<env, jellyfin, news, jobs, key, disk, carried, reply, stops, history>>
Store(p) ==
  /\ pc[p] = "storing"
  /\ state' = [config |-> task[p].source, cache |-> reply[p]]
  /\ End(p, "success")
  /\ UNCHANGED <<env, jellyfin, news, jobs, key, disk, carried, reply, stops, history>>
-----------------------------------------------------------------------------
(* The surroundings                                                         *)

TimePasses ==
  /\ changes > 0 /\ changes' = changes - 1
  /\ time' = time + 1
  /\ UNCHANGED <<files, jellyfin, cli, latest, superseded, ahead, back, command, history>>

SetClock ==
  /\ changes > 0 /\ changes' = changes - 1
  /\ \/ ahead' = ahead + 1 /\ UNCHANGED back
     \/ back' = back + 1 /\ UNCHANGED ahead
  /\ UNCHANGED <<files, jellyfin, cli, latest, superseded, time, command, history>>

\* A release appears, or the latest one is withdrawn.
Publish ==
  /\ changes > 0 /\ changes' = changes - 1
  /\ latest' \in {latest - 1, latest + 1} \cap Releases
  /\ superseded' = [superseded EXCEPT ![latest] = time]
  /\ UNCHANGED <<files, jellyfin, cli, time, ahead, back, command, history>>
-----------------------------------------------------------------------------
CliStep(p) ==
  \/ Begin(p) \/ LoadState(p) \/ LoadEnv(p)
  \/ FirstResolve(p) \/ Answer(p) \/ SecondResolve(p) \/ Approve(p) \/ Decline(p)
  \/ Purge(p) \/ PersistRead(p) \/ PersistWrite(p) \/ EnsureRead(p) \/ EnsureWrite(p)
  \/ Access(p) \/ CreateKey(p) \/ IssueRead(p) \/ IssueWrite(p)
  \/ LoadForCheck(p) \/ Fetch(p) \/ FetchNothing(p) \/ Store(p)
Next ==
  \/ \E p \in Procs : CliStep(p) \/ Stop(p)
  \/ TimePasses \/ SetClock \/ Publish

Spec == Init /\ [][Next]_vars
-----------------------------------------------------------------------------
(* Properties                                                               *)

\* A release the user is told of was GitHub's latest at most an hour before,
\* give or take what the clock was set back meanwhile: whatever the commands
\* write over each other, no cache is taken for younger than its answer
\* (inspectUpdate, isCacheFresh, storeUpdateCache).
NewsIsFresh ==
  \A p \in Procs :
    told[p].release # 0 =>
      \/ told[p].release = latest
      \/ superseded[told[p].release] + Ttl + back > told[p].at

\* An update is announced exactly when the release comes after the version that
\* runs, prereleases included (compareSemver over the order of releases).
NewerIsNewer ==
  \A p \in Procs :
    told[p].release # 0 => (told[p].available <=> told[p].release > cli)

\* The keys of the services, which their own databases hold too, stay as they
\* were when a command began on them, whatever commands overlap from then on and
\* wherever they stop.  Only two first setups at once can lose each other's
\* (ensureEnvStep, persistIssuedKey).
KeysAreKept == settled # 0 => env.keys = settled

\* Whatever an interrupted command left of the two files, a setup that ran alone
\* and succeeded leaves them in agreement, with a key Jellyfin accepts, and such
\* that the next setup without options would apply the same
\* (resolveSetupInput, persistStateStep, ensureEnvStep, ensureJellyfinAccess).
SetupRepairs ==
  \A p \in Procs :
    alone[p] /\ Job(p).kind = "setup" /\ pc[p] = "done" /\ task[p].result = "success" =>
      LET again == Resolve([config |-> state.config, secrets |-> env.secrets,
                            flags |-> NoValues, envFile |-> NoValues],
                           NoValues, state.config.storage)
      IN /\ env.home /\ env.keys # 0 /\ env.jellyfin \in live
         /\ env.domain = state.config.domain /\ env.storage = state.config.storage
         /\ env.secrets = task[p].secrets
         /\ again.issues = {} /\ again.config = state.config /\ again.secrets = env.secrets

Given(p) ==
  {f \in Fields : \E layer \in {task[p].answers, Job(p).flags, Job(p).envFile} :
                    layer[f] # Undefined}

\* A command that runs alone, also one that stops half way, leaves the settings
\* and secrets it was not asked to change, and the cache, as they were
\* (buildConfig over the previous config, CONFIG_SETTINGS.apply, ensureEnvStep).
OnlyAskedIsChanged ==
  \A p \in Procs : alone[p] =>
    LET before == began[p]
        asked  == CASE Job(p).kind = "setup"  -> Given(p)
                    [] Job(p).kind = "config" -> {"transcoding"}
                    [] OTHER                  -> {}
        old    == before.state.config
        new    == state.config
    IN /\ Job(p).kind # "check" => state.cache = before.state.cache
       /\ old # NoConfig =>
            /\ new.rest = old.rest
            /\ \A f \in ConfigFields \ asked :
                 new[f] = old[f] \/ (f = "domain" /\ "mode" \in asked)
            /\ Job(p).kind # "setup" => new.storage = old.storage
       /\ \A f \in SecretFields \ asked : env.secrets[f] = before.env.secrets[f]
       /\ before.env.keys # 0 => env.keys = before.env.keys
       /\ Job(p).kind = "config" /\ task[p].result = "success"
            => new.transcoding = Job(p).value

\* The wizard has asked for everything that was missing: it never sends the user
\* back for a value it did not ask for (nextSetupQuestion and resolveSetupInput
\* decide that each in its own way).
WizardAsksWhatIsMissing ==
  \A p \in Procs : \A i \in task[p].issues : i[2] # "missing"

\* "--check: Only look for a new release, without changing anything"
\* (update.command.ts): a check adds what it learnt to the state and leaves the
\* settings another command has saved meanwhile.
CheckChangesNothing ==
  [][\A p \in Procs : pc[p] = "storing" /\ pc'[p] = "done" => state'.config = state.config]_vars
=============================================================================
