---------------------------- MODULE Provisioning ----------------------------
(***************************************************************************)
(* The installation and the commands that provision it: setup (with and     *)
(* without --rotate-credentials), update --redeploy, config transcoding,    *)
(* reset --fresh, start and stop.  Each command runs a list of steps        *)
(* (pipeline.runner.ts) over files of the home directory, the containers    *)
(* and the services, and may end at any call: the process forgets what it   *)
(* knew (its input and its flags), the installation keeps what was written, *)
(* and the next command, of any kind, starts from there.                    *)
(*                                                                          *)
(* An operation of a plan is one call that writes; the reads that decide it *)
(* belong to it, and a read or a wait that can only fail is a Fail before   *)
(* the next operation.  One command runs at a time.                         *)
(*                                                                          *)
(* A definition marked `mutant` is a faulty variant of the next one, used   *)
(* only to check that the properties can fail.                              *)
(***************************************************************************)
EXTENDS Integers, Sequences, FiniteSets

CONSTANTS
  Inputs,        \* what the administrator may ask for: configuration, secrets
  Commands,      \* the commands the administrator may run
  Remnants,      \* the services whose directories a failed purge may leave
  HalfSignIns,   \* TRUE: Seerr may keep the server of a sign-in that failed
  RepeatedPosts, \* TRUE: a POST retried on ECONNRESET may have run before
  MaxRuns,       \* bound on the commands
  MaxFaults,     \* bound on the runs that fail or are interrupted
  Nothing        \* no file, no password, no value

Modes == {"off", "cpu", "hardware"}

\* The services with a directory under config/.
Services == {"caddy", "jellyfin", "sonarr", "radarr", "prowlarr", "bazarr",
             "decypharr", "seerr"}
Arrs == {"sonarr", "radarr"}
Servarrs == Arrs \cup {"prowlarr"}
Administered == Servarrs \cup {"jellyfin", "bazarr", "decypharr"}
\* The seeded files: one per service, and auth.json of Decypharr.
SeedFiles == Servarrs \cup {"bazarr", "decypharr", "auth"}
SeedOwner(file) == IF file = "auth" THEN "decypharr" ELSE file
Libraries == {"movies", "tv"}

Domains == {i.domain : i \in Inputs}
Passwords == {i.password : i \in Inputs}
Tokens == {i.token : i \in Inputs}

\* MoodyBluesConfig, and the part of .env that setup derives from its input.
Configs == [domain : Domains, transcoding : Modes, storage : BOOLEAN]
EnvFiles == [domain : Domains, storage : BOOLEAN,
             password : Passwords, token : Tokens]
AllInputs == [domain : Domains, transcoding : Modes, storage : BOOLEAN,
              password : Passwords, token : Tokens]
Containers == [gpu : BOOLEAN, domain : Domains, storage : BOOLEAN]

ASSUME ProvisioningAssumption ==
  /\ Inputs # {} /\ Inputs \subseteq AllInputs
  /\ Commands \subseteq {"setup", "rotate", "redeploy", "config", "reset",
                         "start", "stop"}
  /\ Remnants \subseteq SUBSET Services
  /\ HalfSignIns \in BOOLEAN /\ RepeatedPosts \in BOOLEAN
  /\ MaxRuns \in Nat /\ MaxFaults \in Nat
  /\ Nothing \notin Domains \cup Passwords \cup Tokens
                  \cup Configs \cup EnvFiles \cup Containers

VARIABLES
  \* the command
  command, plan, at, outcome, reason,
  input,           \* ProvisionContext: config and secrets
  flags,           \* ctx.flags and the local flags of the steps
  runs, faults,
  \* the home directory
  tree,            \* every directory the containers mount exists
  markers,         \* the library folders hold their marker files
  saved,           \* moody-blues.json
  env,             \* .env: host values and user secrets
  serviceKeys,     \* .env: generation of the service keys (0: none)
  jellyfinKey,     \* .env: JELLYFIN_API_KEY (0: none)
  caddyfile,
  seed,            \* key in each seeded file (0: no file)
  \* the containers
  stack, container,
  caddyLoaded,     \* domain of the configuration Caddy serves
  \* the services
  password,        \* administrator password of each service
  static,          \* <<service, what>>: settings that are the same for everyone
  wizard, jellyfinKeys, nextKey, libraries, scanned, encoding, policy,
  client, arrKey,  \* Sonarr and Radarr: Decypharr client, Jellyfin connection
  decypharrToken,  \* Real-Debrid token in Decypharr's configuration
  synced,          \* Prowlarr's applications, Bazarr's libraries
  seerr, seerrUrl, seerrHost

process  == <<command, plan, at, outcome, reason, input, flags>>
counters == <<runs, faults>>
files    == <<tree, markers, saved, env, serviceKeys, caddyfile>>
stackVars == <<stack, container, caddyLoaded>>
jellyfinVars == <<wizard, libraries, scanned, encoding, policy>>
keyVars  == <<jellyfinKey, jellyfinKeys, nextKey>>
arrVars  == <<client, arrKey>>
seerrVars == <<seerr, seerrUrl, seerrHost>>
services == <<password, static, jellyfinVars, keyVars, arrVars,
              decypharrToken, synced, seerrVars>>
vars == <<process, counters, files, seed, stackVars, services>>

Outcomes == {"none", "running", "success", "failed"}
Reasons == {"none", "fault", "tree", "seedConflict", "halfWizard", "rejected",
            "drift", "signIn", "seerrHalf", "order"}
Flags == {"rotate", "markersCreated", "gatewayChanged", "wizardWasOpen",
          "createdLibraries", "needsSync", "defaultsChanged"}
Settings == {"settings", "root", "profile", "applications", "indexers",
             "defaults", "seerr", "sonarr", "radarr"}
OwnKey == -1   \* a key the service generated itself

-----------------------------------------------------------------------------
(* The plans: PROVISIONING_PIPELINE, the steps of reset and of config.  *)

\* mutant: the services are given their secrets before .env holds them
InfrastructureOpsEnvLate == <<
  <<"hostTree", "host">>, <<"persist", "state">>, <<"gatewayConfig", "caddy">>,
  <<"seed", "bazarr">>, <<"seed", "auth">>, <<"ensureEnv", "env">>,
  <<"seed", "sonarr">>, <<"seed", "radarr">>, <<"seed", "prowlarr">>,
  <<"seed", "decypharr">>, <<"up", "stack">> >>
InfrastructureOps == <<
  <<"hostTree", "host">>, <<"persist", "state">>, <<"ensureEnv", "env">>,
  <<"gatewayConfig", "caddy">>,
  <<"seed", "sonarr">>, <<"seed", "radarr">>, <<"seed", "prowlarr">>,
  <<"seed", "bazarr">>, <<"seed", "decypharr">>, <<"seed", "auth">>,
  <<"up", "stack">> >>

AccessOps == << <<"createKey", "jellyfin">>, <<"storeKey", "jellyfin">> >>

JellyfinOps == << <<"firstUser", "jellyfin">>, <<"closeWizard", "jellyfin">> >>
  \o AccessOps \o <<
  <<"rotate", "jellyfin">>, <<"settings", "jellyfin">>,
  <<"library", "movies">>, <<"library", "tv">>, <<"scan", "jellyfin">> >>

ArrOps(s) == <<
  <<"admin", s>>, <<"root", s>>, <<"client", s>>, <<"enableClient", s>>,
  <<"settings", s>>, <<"connection", s>> >>

ProfileOps == << <<"profile", "sonarr">>, <<"profile", "radarr">> >>

ProwlarrOps == <<
  <<"admin", "prowlarr">>, <<"applications", "prowlarr">>,
  <<"indexers", "prowlarr">>, <<"sync", "prowlarr">> >>

BazarrOps == << <<"defaults", "bazarr">>, <<"sync", "bazarr">> >>

DecypharrOps == << <<"rotate", "decypharr">>, <<"verify", "decypharr">> >>

SeerrOps == <<
  <<"signIn", "seerr">>, <<"main", "seerr">>, <<"hostname", "seerr">>,
  <<"libraries", "seerr">>, <<"server", "sonarr">>, <<"server", "radarr">>,
  <<"initialize", "seerr">> >>

TranscodingOps == AccessOps \o
  << <<"encoding", "jellyfin">>, <<"policy", "jellyfin">> >>

ApiOps == JellyfinOps \o ArrOps("sonarr") \o ArrOps("radarr") \o ProfileOps
  \o ProwlarrOps \o BazarrOps \o DecypharrOps \o SeerrOps \o TranscodingOps

ResetOps == << <<"down", "stack">>, <<"purge", "host">> >>

\* "retune" and "crossing" are the two plans of `config transcoding`; the
\* gateway is reloaded in every scope but reset (gateway-reload.step.ts).
Plans == [
  setup    |-> InfrastructureOps \o << <<"reload", "caddy">> >> \o ApiOps,
  reset    |-> ResetOps \o InfrastructureOps \o ApiOps,
  retune   |-> << <<"persist", "state">> >> \o TranscodingOps,
  crossing |-> << <<"persist", "state">>, <<"up", "stack">> >> \o TranscodingOps,
  start    |-> << <<"up", "stack">> >>,
  stop     |-> << <<"down", "stack">> >> ]

-----------------------------------------------------------------------------
TypeOK ==
  /\ command \in Commands \cup {"none"} /\ plan \in DOMAIN Plans /\ at \in Nat
  /\ outcome \in Outcomes /\ reason \in Reasons
  /\ input \in AllInputs \cup {Nothing} /\ flags \subseteq Flags
  /\ runs \in Nat /\ faults \in Nat
  /\ tree \in BOOLEAN /\ markers \in BOOLEAN /\ saved \in Configs \cup {Nothing}
  /\ env \in EnvFiles \cup {Nothing}
  /\ serviceKeys \in Nat /\ jellyfinKey \in Nat
  /\ caddyfile \in Domains \cup {Nothing}
  /\ seed \in [SeedFiles -> Int]
  /\ stack \in {"down", "up"} /\ container \in Containers \cup {Nothing}
  /\ caddyLoaded \in Domains \cup {Nothing}
  /\ password \in [Administered -> Passwords \cup {Nothing}]
  /\ static \subseteq Services \X Settings
  /\ wizard \in {"open", "user", "done"}
  /\ jellyfinKeys \subseteq Nat /\ nextKey \in Nat
  /\ libraries \subseteq Libraries /\ scanned \subseteq Libraries
  /\ encoding \in Modes \cup {Nothing} /\ policy \in Modes \cup {Nothing}
  /\ client \in [Arrs -> {"absent", "disabled", "enabled"}]
  /\ arrKey \in [Arrs -> Nat]
  /\ decypharrToken \in Tokens \cup {Nothing}
  /\ synced \subseteq {"prowlarr", "bazarr"}
  /\ seerr \in {"open", "half", "admin", "ready"}
  /\ seerrUrl \in Domains \cup {Nothing} /\ seerrHost \in Domains \cup {Nothing}

\* A host where `setup` was never run.
Init ==
  /\ command = "none" /\ plan = "setup" /\ at = 1
  /\ outcome = "none" /\ reason = "none" /\ input = Nothing /\ flags = {}
  /\ runs = 0 /\ faults = 0
  /\ tree = FALSE /\ markers = FALSE /\ saved = Nothing /\ env = Nothing
  /\ serviceKeys = 0 /\ jellyfinKey = 0 /\ caddyfile = Nothing
  /\ seed = [f \in SeedFiles |-> 0]
  /\ stack = "down" /\ container = Nothing /\ caddyLoaded = Nothing
  /\ password = [s \in Administered |-> Nothing] /\ static = {}
  /\ wizard = "open" /\ jellyfinKeys = {} /\ nextKey = 1
  /\ libraries = {} /\ scanned = {}
  /\ encoding = Nothing /\ policy = Nothing
  /\ client = [s \in Arrs |-> "absent"] /\ arrKey = [s \in Arrs |-> 0]
  /\ decypharrToken = Nothing /\ synced = {}
  /\ seerr = "open" /\ seerrUrl = Nothing /\ seerrHost = Nothing

-----------------------------------------------------------------------------
(* The commands.  *)

Installed == saved # Nothing /\ env # Nothing     \* loadInstallation

ConfigOf(i) == [domain |-> i.domain, transcoding |-> i.transcoding,
                storage |-> i.storage]
EnvOf(i) == [domain |-> i.domain, storage |-> i.storage,
             password |-> i.password, token |-> i.token]
\* The input of a command that takes everything from the installation, with
\* the transcoding mode `config` is given.
SavedInput(mode) ==
  [domain |-> saved.domain, transcoding |-> mode, storage |-> saved.storage,
   password |-> env.password, token |-> env.token]

Begin(c, p, i, fs) ==
  /\ c \in Commands /\ outcome # "running" /\ runs < MaxRuns
  /\ command' = c /\ plan' = p /\ at' = 1 /\ input' = i /\ flags' = fs
  /\ outcome' = "running" /\ reason' = "none"
  /\ runs' = runs + 1
  /\ UNCHANGED <<faults, files, seed, stackVars, services>>

Setup == \E i \in Inputs : Begin("setup", "setup", i, {})
SetupRotating == \E i \in Inputs : Begin("rotate", "setup", i, {"rotate"})
Redeploy ==
  Installed /\ Begin("redeploy", "setup", SavedInput(saved.transcoding), {})
Reset == Installed /\ Begin("reset", "reset", SavedInput(saved.transcoding), {})
Start == Installed /\ Begin("start", "start", SavedInput(saved.transcoding), {})
Stop == Installed /\ Begin("stop", "stop", SavedInput(saved.transcoding), {})

Crosses(mode) == (saved.transcoding = "hardware") # (mode = "hardware")
\* Crossing to or from hardware recreates Jellyfin; any other change needs it
\* to be running.  A change the administrator declines changes nothing.
ConfigTranscoding ==
  /\ Installed
  /\ \E mode \in {i.transcoding : i \in Inputs} :
       \/ Crosses(mode) /\ Begin("config", "crossing", SavedInput(mode), {})
       \/ ~Crosses(mode) /\ stack = "up"
          /\ Begin("config", "retune", SavedInput(mode), {})

\* The next operation of the plan is `do` on `on`.
Doing(do, on) ==
  /\ outcome = "running" /\ at \in DOMAIN Plans[plan]
  /\ Plans[plan][at] = <<do, on>>

Proceed(fs) ==
  /\ at' = at + 1 /\ flags' = fs
  /\ UNCHANGED <<command, plan, outcome, reason, input, counters>>

\* The step throws: the run is over, and the process with it.
Break(why) ==
  /\ outcome' = "failed" /\ reason' = why
  /\ at' = 1 /\ input' = Nothing /\ flags' = {}
  /\ UNCHANGED <<command, plan, runs>>

\* A deterministic error of the step; nothing was changed by the operation.
Refuse(why) ==
  /\ Break(why)
  /\ UNCHANGED <<faults, files, seed, stackVars, services>>

\* A call fails, a wait ends, the administrator presses Ctrl-C, the host dies.
Fail ==
  /\ outcome = "running" /\ faults < MaxFaults
  /\ Break("fault") /\ faults' = faults + 1
  /\ UNCHANGED <<files, seed, stackVars, services>>

Succeed ==
  /\ outcome = "running" /\ at = Len(Plans[plan]) + 1
  /\ outcome' = "success"
  /\ UNCHANGED <<command, plan, at, reason, input, flags, counters, files,
                 seed, stackVars, services>>

-----------------------------------------------------------------------------
(* Infrastructure.  *)

HostTree ==
  /\ Doing("hostTree", "host")
  /\ tree' = TRUE /\ markers' = TRUE
  /\ Proceed(IF markers THEN flags ELSE flags \cup {"markersCreated"})
  /\ UNCHANGED <<saved, env, serviceKeys, caddyfile, seed, stackVars, services>>

PersistState ==
  /\ Doing("persist", "state")
  /\ saved' = ConfigOf(input)
  /\ Proceed(flags)
  /\ UNCHANGED <<tree, markers, env, serviceKeys, caddyfile, seed, stackVars, services>>

EnsuredServiceKeysAnew == serviceKeys + 1    \* mutant
EnsuredServiceKeys == IF serviceKeys = 0 THEN 1 ELSE serviceKeys

EnsureEnv ==
  /\ Doing("ensureEnv", "env")
  /\ env' = EnvOf(input) /\ serviceKeys' = EnsuredServiceKeys
  /\ Proceed(flags)
  /\ UNCHANGED <<tree, markers, saved, caddyfile, seed, stackVars, services>>

\* A Caddy that found no file is restarted until it finds one.
GatewayConfig ==
  /\ Doing("gatewayConfig", "caddy")
  /\ caddyfile' = input.domain
  /\ caddyLoaded' = IF stack = "up" /\ caddyLoaded = Nothing
                    THEN input.domain ELSE caddyLoaded
  /\ Proceed(IF caddyfile = input.domain THEN flags \ {"gatewayChanged"}
             ELSE flags \cup {"gatewayChanged"})
  /\ UNCHANGED <<tree, markers, saved, env, serviceKeys, seed, stack, container, services>>

GatewayReload ==
  /\ Doing("reload", "caddy")
  /\ caddyLoaded' = IF "gatewayChanged" \in flags THEN caddyfile ELSE caddyLoaded
  /\ Proceed(flags)
  /\ UNCHANGED <<files, seed, stack, container, services>>

\* ensureSeedFile: an existing file is kept, whatever else it holds, when its
\* key is the expected one.
SeedFile(f) ==
  /\ Doing("seed", f)
  /\ \/ /\ seed[f] \notin {0, serviceKeys} /\ Refuse("seedConflict")
     \/ /\ seed[f] # 0 /\ seed[f] = serviceKeys
        /\ Proceed(flags) /\ UNCHANGED <<files, seed, stackVars, services>>
     \/ /\ seed[f] = 0
        /\ seed' = [seed EXCEPT ![f] = serviceKeys]
        /\ password' = IF f \in {"bazarr", "auth"}
                       THEN [password EXCEPT ![SeedOwner(f)] = input.password]
                       ELSE password
        /\ decypharrToken' = IF f = "decypharr" THEN input.token
                             ELSE decypharrToken
        /\ Proceed(flags)
        /\ UNCHANGED <<files, stackVars, static, jellyfinVars, keyVars,
                       arrVars, synced, seerrVars>>

\* A service that starts without its file writes one with a key of its own;
\* Decypharr may do without auth.json.
Unseeded == {f \in SeedFiles : seed[f] = 0
                               /\ (SeedOwner(f) = "decypharr" => env.storage)}

\* `docker compose up -d` with the saved configuration and .env; it recreates
\* the containers whose definition or image changed; Caddy's definition never
\* does, its image may have been pulled by a redeploy.  The bind mounts need the
\* directories.
ContainersUp ==
  /\ Doing("up", "stack")
  /\ IF ~Installed THEN Refuse("order") ELSE
     \/ ~tree /\ Refuse("tree")
     \/ /\ tree /\ stack' = "up"
        /\ container' = [gpu |-> saved.transcoding = "hardware",
                         domain |-> env.domain, storage |-> env.storage]
        /\ \/ caddyLoaded' = caddyfile /\ (stack = "up" => command = "redeploy")
           \/ caddyLoaded' = caddyLoaded /\ stack = "up"
        /\ \E own \in {Unseeded, Unseeded \ {"auth"}} :
             seed' = [f \in SeedFiles |-> IF f \in own THEN OwnKey ELSE seed[f]]
        /\ Proceed(flags) /\ UNCHANGED <<files, services>>

ContainersDown ==
  /\ Doing("down", "stack")
  /\ stack' = "down" /\ container' = Nothing /\ caddyLoaded' = Nothing
  /\ Proceed(flags) /\ UNCHANGED <<files, seed, services>>

-----------------------------------------------------------------------------
(* Jellyfin: jellyfin.provision.ts, jellyfin.access.ts, and the step that     *)
(* applies the transcoding mode.                                             *)

\* mutant: a wizard left half-finished is never resumed
FirstUserAnew ==
  /\ Doing("firstUser", "jellyfin")
  /\ \/ wizard = "user" /\ Refuse("halfWizard")
     \/ /\ wizard = "done"
        /\ Proceed(flags) /\ UNCHANGED <<files, seed, stackVars, services>>
     \/ /\ wizard = "open" /\ wizard' = "user"
        /\ password' = [password EXCEPT !["jellyfin"] = input.password]
        /\ Proceed(flags \cup {"wizardWasOpen"})
        /\ UNCHANGED <<files, seed, stackVars, static, libraries, scanned,
                       encoding, policy, keyVars, arrVars, decypharrToken,
                       synced, seerrVars>>

\* setFirstUser is refused once the first user has a password; then the
\* credentials must be the ones the earlier run chose.
FirstUser ==
  /\ Doing("firstUser", "jellyfin")
  /\ \/ /\ wizard = "user" /\ password["jellyfin"] # input.password
        /\ Refuse("halfWizard")
     \/ /\ wizard = "done"
        /\ Proceed(flags) /\ UNCHANGED <<files, seed, stackVars, services>>
     \/ /\ wizard \in {"open", "user"}
        /\ wizard = "user" => password["jellyfin"] = input.password
        /\ wizard' = "user"
        /\ password' = [password EXCEPT !["jellyfin"] = input.password]
        /\ Proceed(flags \cup {"wizardWasOpen"})
        /\ UNCHANGED <<files, seed, stackVars, static, libraries, scanned,
                       encoding, policy, keyVars, arrVars, decypharrToken,
                       synced, seerrVars>>

CloseWizard ==
  /\ Doing("closeWizard", "jellyfin")
  /\ wizard' = "done" /\ Proceed(flags)
  /\ UNCHANGED <<files, seed, stackVars, password, static, libraries, scanned,
                 encoding, policy, keyVars, arrVars, decypharrToken, synced,
                 seerrVars>>

\* ensureJellyfinAccess keeps a stored key that Jellyfin accepts.
KeyAcceptedUnasked == jellyfinKey # 0     \* mutant
KeyAccepted == jellyfinKey \in jellyfinKeys

CreateKey ==
  /\ Doing("createKey", "jellyfin")
  /\ \/ /\ ~KeyAccepted /\ password["jellyfin"] # input.password
        /\ Refuse("rejected")
     \/ /\ KeyAccepted \/ password["jellyfin"] = input.password
        /\ \/ /\ ~KeyAccepted /\ jellyfinKeys = {}
              /\ \E n \in 1..(IF RepeatedPosts THEN 2 ELSE 1) :
                   /\ jellyfinKeys' = nextKey..(nextKey + n - 1)
                   /\ nextKey' = nextKey + n
           \/ /\ KeyAccepted \/ jellyfinKeys # {}
              /\ UNCHANGED <<jellyfinKeys, nextKey>>
        /\ Proceed(flags)
        /\ UNCHANGED <<files, seed, stackVars, password, static, jellyfinVars,
                       jellyfinKey, arrVars, decypharrToken, synced, seerrVars>>

\* persistIssuedKey: any active key of the application will do.
StoreKey ==
  /\ Doing("storeKey", "jellyfin")
  /\ \/ KeyAccepted /\ jellyfinKey' = jellyfinKey
     \/ ~KeyAccepted /\ jellyfinKey' \in jellyfinKeys
  /\ Proceed(flags)
  /\ UNCHANGED <<files, seed, stackVars, password, static, jellyfinVars,
                 jellyfinKeys, nextKey, arrVars, decypharrToken, synced, seerrVars>>

RotateJellyfin ==
  /\ Doing("rotate", "jellyfin")
  /\ password' = IF "rotate" \in flags /\ "wizardWasOpen" \notin flags
                 THEN [password EXCEPT !["jellyfin"] = input.password]
                 ELSE password
  /\ Proceed(flags)
  /\ UNCHANGED <<files, seed, stackVars, static, jellyfinVars, keyVars, arrVars,
                 decypharrToken, synced, seerrVars>>

\* ensureLibrary; createLibrary asks for no scan (refreshLibrary: false).
AddLibrary(l) ==
  /\ Doing("library", l)
  /\ libraries' = libraries \cup {l}
  /\ Proceed(IF l \in libraries THEN flags ELSE flags \cup {"createdLibraries"})
  /\ UNCHANGED <<files, seed, stackVars, password, static, wizard, scanned,
                 encoding, policy, keyVars, arrVars, decypharrToken, synced,
                 seerrVars>>

FirstScan ==
  /\ Doing("scan", "jellyfin")
  /\ scanned' = IF flags \cap {"createdLibraries", "markersCreated"} # {}
                THEN libraries ELSE scanned
  /\ Proceed(flags)
  /\ UNCHANGED <<files, seed, stackVars, password, static, wizard, libraries,
                 encoding, policy, keyVars, arrVars, decypharrToken, synced,
                 seerrVars>>

Encoding ==
  /\ Doing("encoding", "jellyfin")
  /\ encoding' = input.transcoding /\ Proceed(flags)
  /\ UNCHANGED <<files, seed, stackVars, password, static, wizard, libraries,
                 scanned, policy, keyVars, arrVars, decypharrToken, synced,
                 seerrVars>>

PlaybackPolicyOnce ==    \* mutant
  /\ Doing("policy", "jellyfin")
  /\ policy' = IF policy = Nothing THEN input.transcoding ELSE policy
  /\ Proceed(flags)
  /\ UNCHANGED <<files, seed, stackVars, password, static, wizard, libraries,
                 scanned, encoding, keyVars, arrVars, decypharrToken, synced,
                 seerrVars>>
PlaybackPolicy ==
  /\ Doing("policy", "jellyfin")
  /\ policy' = input.transcoding /\ Proceed(flags)
  /\ UNCHANGED <<files, seed, stackVars, password, static, wizard, libraries,
                 scanned, encoding, keyVars, arrVars, decypharrToken, synced,
                 seerrVars>>

-----------------------------------------------------------------------------
(* Sonarr, Radarr, Prowlarr, Bazarr and Decypharr.                            *)

\* A group of settings that is the same in every installation: drift is
\* compared with what the service has, so it is written once.
Configure(service, what, fs) ==
  /\ Doing(what, service)
  /\ static' = static \cup {<<service, what>>}
  /\ Proceed(IF <<service, what>> \in static THEN flags ELSE flags \cup fs)
  /\ UNCHANGED <<files, seed, stackVars, password, jellyfinVars, keyVars,
                 arrVars, decypharrToken, synced, seerrVars>>

ServerSettings == \E s \in Arrs \cup {"jellyfin"} : Configure(s, "settings", {})
RootFolder == \E s \in Arrs : Configure(s, "root", {})
MasterProfile == \E s \in Arrs : Configure(s, "profile", {})
Applications == Configure("prowlarr", "applications", {"needsSync"})
Indexers == Configure("prowlarr", "indexers", {"needsSync"})

\* ensureServarrAdminUser does not see a password, so it writes one only when
\* it is asked to or when the service has no administrator.
CredentialsStaleUnlessSet(s) == password[s] = Nothing    \* mutant
CredentialsStale(s) == "rotate" \in flags \/ password[s] = Nothing

AdminUser(s) ==
  /\ Doing("admin", s)
  /\ password' = IF CredentialsStale(s)
                 THEN [password EXCEPT ![s] = input.password] ELSE password
  /\ Proceed(flags)
  /\ UNCHANGED <<files, seed, stackVars, static, jellyfinVars, keyVars, arrVars,
                 decypharrToken, synced, seerrVars>>

\* Without storage the client is created disabled, to skip the connection test,
\* and enabled by an update; a client found disabled is enabled at once.
DownloadClient(s) ==
  /\ Doing("client", s)
  /\ client' = [client EXCEPT ![s] =
       IF client[s] = "absent" /\ ~input.storage THEN "disabled" ELSE "enabled"]
  /\ Proceed(flags)
  /\ UNCHANGED <<files, seed, stackVars, password, static, jellyfinVars, keyVars,
                 arrKey, decypharrToken, synced, seerrVars>>

EnableClient(s) ==
  /\ Doing("enableClient", s)
  /\ client' = [client EXCEPT ![s] = "enabled"] /\ Proceed(flags)
  /\ UNCHANGED <<files, seed, stackVars, password, static, jellyfinVars, keyVars,
                 arrKey, decypharrToken, synced, seerrVars>>

JellyfinConnection(s) ==
  /\ Doing("connection", s)
  /\ IF jellyfinKey = 0
     THEN Refuse("order")
     ELSE /\ arrKey' = [arrKey EXCEPT ![s] = jellyfinKey] /\ Proceed(flags)
          /\ UNCHANGED <<files, seed, stackVars, password, static, jellyfinVars,
                         keyVars, client, decypharrToken, synced, seerrVars>>

\* The password of Bazarr is compared by its hash, so it needs no flag.
BazarrSettings ==
  /\ Doing("defaults", "bazarr")
  /\ password' = [password EXCEPT !["bazarr"] = input.password]
  /\ static' = static \cup {<<"bazarr", "defaults">>}
  /\ Proceed(IF <<"bazarr", "defaults">> \in static THEN flags
             ELSE flags \cup {"defaultsChanged"})
  /\ UNCHANGED <<files, seed, stackVars, jellyfinVars, keyVars, arrVars,
                 decypharrToken, synced, seerrVars>>

\* forceApplicationSync of Prowlarr, SYNC_TASKS of Bazarr.
Synchronize(s) ==
  /\ Doing("sync", s)
  /\ synced' = IF (IF s = "prowlarr" THEN "needsSync" ELSE "defaultsChanged") \in flags
               THEN synced \cup {s} ELSE synced
  /\ Proceed(flags)
  /\ UNCHANGED <<files, seed, stackVars, password, static, jellyfinVars, keyVars,
                 arrVars, decypharrToken, seerrVars>>

RotateDecypharr ==
  /\ Doing("rotate", "decypharr")
  /\ password' = IF input.storage /\ "rotate" \in flags
                 THEN [password EXCEPT !["decypharr"] = input.password]
                 ELSE password
  /\ Proceed(flags)
  /\ UNCHANGED <<files, seed, stackVars, static, jellyfinVars, keyVars, arrVars,
                 decypharrToken, synced, seerrVars>>

\* verifyDecypharr changes nothing: its configuration must be the seeded one,
\* the clients linked and the mount visible.
DecypharrSound == /\ seed["decypharr"] = serviceKeys
                  /\ \A s \in Arrs : client[s] = "enabled"
                  /\ container # Nothing /\ container.storage
VerifyDecypharr ==
  /\ Doing("verify", "decypharr")
  /\ IF input.storage /\ ~DecypharrSound
     THEN Refuse("drift")
     ELSE Proceed(flags) /\ UNCHANGED <<files, seed, stackVars, services>>

-----------------------------------------------------------------------------
(* Seerr: seerr.provision.ts.                                                 *)

\* A Seerr that has a media server but no administrator cannot be signed in to.
SignIn ==
  /\ Doing("signIn", "seerr")
  /\ \/ /\ seerr = "half" /\ Refuse("seerrHalf")
     \/ /\ seerr = "open" /\ password["jellyfin"] # input.password
        /\ Refuse("signIn")
     \/ /\ seerr # "half"
        /\ seerr = "open" => password["jellyfin"] = input.password
        /\ seerr' = IF seerr = "open" THEN "admin" ELSE seerr
        /\ Proceed(flags)
        /\ UNCHANGED <<files, seed, stackVars, password, static, jellyfinVars,
                       keyVars, arrVars, decypharrToken, synced, seerrUrl,
                       seerrHost>>

\* The sign-in fails after Seerr has kept the server.
HalfSignIn ==
  /\ Doing("signIn", "seerr")
  /\ HalfSignIns /\ seerr = "open" /\ faults < MaxFaults
  /\ seerr' = "half"
  /\ Break("fault") /\ faults' = faults + 1
  /\ UNCHANGED <<files, seed, stackVars, password, static, jellyfinVars, keyVars,
                 arrVars, decypharrToken, synced, seerrUrl, seerrHost>>

MainSettings ==
  /\ Doing("main", "seerr")
  /\ seerrUrl' = input.domain /\ Proceed(flags)
  /\ UNCHANGED <<files, seed, stackVars, password, static, jellyfinVars, keyVars,
                 arrVars, decypharrToken, synced, seerr, seerrHost>>

\* An error of this call is only noted.
ExternalHostname ==
  /\ Doing("hostname", "seerr")
  /\ seerrHost' \in {input.domain, seerrHost} /\ Proceed(flags)
  /\ UNCHANGED <<files, seed, stackVars, password, static, jellyfinVars, keyVars,
                 arrVars, decypharrToken, synced, seerr, seerrUrl>>

\* What Seerr is configured with must exist in the other services.
ConfigureFrom(needed, do, on) ==
  /\ Doing(do, on)
  /\ IF needed
     THEN /\ static' = static \cup {<<"seerr", on>>} /\ Proceed(flags)
          /\ UNCHANGED <<files, seed, stackVars, password, jellyfinVars, keyVars,
                         arrVars, decypharrToken, synced, seerrVars>>
     ELSE Refuse("order")

SeerrLibraries ==
  ConfigureFrom(<<"seerr", "seerr">> \in static \/ libraries # {},
                "libraries", "seerr")
SeerrServer(s) == ConfigureFrom({<<s, "profile">>, <<s, "root">>} \subseteq static,
                                "server", s)

Initialize ==
  /\ Doing("initialize", "seerr")
  /\ seerr' = "ready" /\ Proceed(flags)
  /\ UNCHANGED <<files, seed, stackVars, password, static, jellyfinVars, keyVars,
                 arrVars, decypharrToken, synced, seerrUrl, seerrHost>>

-----------------------------------------------------------------------------
(* reset --fresh: what the services keep in config/ is deleted, the state file, *)
(* .env and what it holds, and the certificates, are not.                      *)

Emptied(S) ==
  /\ tree' = FALSE
  /\ caddyfile' = IF "caddy" \in S THEN Nothing ELSE caddyfile
  /\ seed' = [f \in SeedFiles |-> IF SeedOwner(f) \in S THEN 0 ELSE seed[f]]
  /\ password' = [s \in Administered |-> IF s \in S THEN Nothing ELSE password[s]]
  /\ static' = {setting \in static : setting[1] \notin S}
  /\ synced' = synced \ S
  /\ client' = [s \in Arrs |-> IF s \in S THEN "absent" ELSE client[s]]
  /\ arrKey' = [s \in Arrs |-> IF s \in S THEN 0 ELSE arrKey[s]]
  /\ decypharrToken' = IF "decypharr" \in S THEN Nothing ELSE decypharrToken
  /\ IF "jellyfin" \in S
     THEN /\ wizard' = "open" /\ libraries' = {} /\ scanned' = {}
          /\ encoding' = Nothing /\ policy' = Nothing /\ jellyfinKeys' = {}
     ELSE UNCHANGED <<jellyfinVars, jellyfinKeys>>
  /\ IF "seerr" \in S
     THEN seerr' = "open" /\ seerrUrl' = Nothing /\ seerrHost' = Nothing
     ELSE UNCHANGED seerrVars
  /\ UNCHANGED <<saved, env, serviceKeys, jellyfinKey, nextKey, stackVars>>

PurgeAllButSeerr ==    \* mutant
  /\ Doing("purge", "host")
  /\ Emptied(Services \ {"seerr"}) /\ markers' = FALSE /\ Proceed(flags)
Purge ==
  /\ Doing("purge", "host")
  /\ Emptied(Services) /\ markers' = FALSE /\ Proceed(flags)

\* A deletion is refused: some directories remain, and what follows them.
PurgeStops ==
  /\ Doing("purge", "host") /\ faults < MaxFaults
  /\ \E kept \in Remnants : Emptied(Services \ kept)
  /\ UNCHANGED markers
  /\ Break("fault") /\ faults' = faults + 1

-----------------------------------------------------------------------------
Command ==
  Setup \/ SetupRotating \/ Redeploy \/ ConfigTranscoding \/ Reset \/ Start \/ Stop

Infrastructure ==
  \/ HostTree \/ PersistState \/ EnsureEnv \/ GatewayConfig \/ GatewayReload
  \/ (\E f \in SeedFiles : SeedFile(f))
  \/ ContainersUp \/ ContainersDown \/ Purge

Jellyfin ==
  \/ FirstUser \/ CloseWizard \/ CreateKey \/ StoreKey \/ RotateJellyfin
  \/ (\E l \in Libraries : AddLibrary(l))
  \/ FirstScan \/ Encoding \/ PlaybackPolicy

Automation ==
  \/ ServerSettings \/ RootFolder \/ MasterProfile \/ Applications \/ Indexers
  \/ (\E s \in Servarrs : AdminUser(s))
  \/ (\E s \in Arrs : DownloadClient(s) \/ EnableClient(s) \/ JellyfinConnection(s))
  \/ BazarrSettings \/ (\E s \in {"prowlarr", "bazarr"} : Synchronize(s))
  \/ RotateDecypharr \/ VerifyDecypharr

Requests ==
  \/ SignIn \/ MainSettings \/ ExternalHostname \/ SeerrLibraries
  \/ (\E s \in Arrs : SeerrServer(s)) \/ Initialize

Operation == Infrastructure \/ Jellyfin \/ Automation \/ Requests \/ Succeed
Failure == Fail \/ HalfSignIn \/ PurgeStops
Finished == outcome # "running" /\ runs = MaxRuns /\ UNCHANGED vars

Next == Command \/ Operation \/ Failure \/ Finished

Spec == Init /\ [][Next]_vars

\* A running command goes on: every call has a timeout.  The administrator runs
\* the command again.
FairSpec == Spec /\ WF_vars(Operation) /\ WF_vars(Setup)

-----------------------------------------------------------------------------
(* Properties.  *)

\* The last command was a complete provisioning, and it reported success.
Provisioned == outcome = "success" /\ plan \in {"setup", "reset"}

HostAsAsked ==
  /\ saved = ConfigOf(input) /\ env = EnvOf(input) /\ caddyfile = input.domain
  /\ tree /\ markers /\ \A f \in SeedFiles : seed[f] = serviceKeys
  /\ stack = "up"
  /\ container = [gpu |-> input.transcoding = "hardware",
                  domain |-> input.domain, storage |-> input.storage]

MediaAsAsked ==
  /\ wizard = "done" /\ libraries = Libraries
  /\ encoding = input.transcoding /\ policy = input.transcoding

AutomationAsAsked ==
  /\ \A s \in Arrs : /\ client[s] = "enabled"
                     /\ {"settings", "root", "profile"} \X {s}
                          \subseteq {<<e[2], e[1]>> : e \in static}
  /\ {"applications", "indexers"} \X {"prowlarr"}
       \subseteq {<<e[2], e[1]>> : e \in static}
  /\ \A s \in Administered : password[s] # Nothing

RequestsAsAsked ==
  /\ seerr = "ready" /\ seerrUrl = input.domain
  /\ \A s \in Arrs \cup {"seerr"} : <<"seerr", s>> \in static

\* Whatever failed, was interrupted or was asked for before, a provisioning that
\* reports success leaves the host, the containers and every service the way its
\* input says (the retry the README promises: "Run it again").
SuccessMeansConfigured ==
  Provisioned => /\ HostAsAsked /\ MediaAsAsked
                 /\ AutomationAsAsked /\ RequestsAsAsked

\* A provisioning that reports success leaves in .env a key Jellyfin accepts,
\* and Sonarr and Radarr notify Jellyfin with that very key, even after a reset,
\* half a reset, or a key that was created and never stored.
ConnectionsUseLiveKey ==
  Provisioned => /\ jellyfinKey \in jellyfinKeys
                 /\ \A s \in Arrs : arrKey[s] = jellyfinKey

\* setup --rotate-credentials that reports success has set the new password in
\* every service that is deployed, whatever the services had before.
RotationReachesAll ==
  Provisioned /\ command = "rotate" =>
    \A s \in Administered :
      (s = "decypharr" => input.storage) => password[s] = env.password

\* The seeded files never hold a service key of another generation than .env,
\* across resets and half resets: only a service that wrote its own file does.
SeedsHoldServiceKeys ==
  \A f \in SeedFiles : seed[f] \in {0, OwnKey, serviceKeys}

\* At every moment a run may die, .env already holds the password and the keys
\* that the services hold: nothing is given to a service before it is saved.
SecretsSavedFirst ==
  [][/\ \A s \in Administered :
          password'[s] \notin {password[s], Nothing} =>
            env # Nothing /\ env.password = password'[s]
     /\ \A f \in SeedFiles :
          seed'[f] \notin {seed[f], 0, OwnKey} => seed'[f] = serviceKeys]_vars

\* reset --fresh repairs every state: it can only fail for a fault outside the
\* program, never because of what earlier commands left behind.
ResetNeverStuck == command = "reset" /\ outcome = "failed" => reason = "fault"

\* With the same password all along, and no service started before it was
\* seeded, no command fails because of what an interrupted one left behind.
OnlyFaultsFail == outcome = "failed" => reason = "fault"

\* Setup repeated after every failure succeeds as soon as the faults end.
RetriedSetupSucceeds == <>(outcome = "success")

\* Refuted: the gateway serves the configuration a successful setup wrote.
GatewayServesConfig == Provisioned => caddyLoaded = caddyfile

\* Refuted: a successful setup has scanned the libraries, so Jellyfin watches them.
LibrariesWatched == Provisioned => libraries \subseteq scanned

\* Refuted: a successful `config transcoding` leaves Jellyfin's container with
\* the devices of the mode it reports.
HardwareReachesContainer ==
  outcome = "success" /\ command = "config" =>
    container.gpu = (saved.transcoding = "hardware")

\* Refuted: a successful setup with a new Real-Debrid token gives it to Decypharr.
TokenReachesDecypharr ==
  Provisioned /\ input.storage => decypharrToken = env.token

=============================================================================
