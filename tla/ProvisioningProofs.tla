------------------------- MODULE ProvisioningProofs -------------------------
(***************************************************************************)
(* Proofs about Provisioning, for every set of inputs and commands, every    *)
(* half reset, and any number of runs and faults.                            *)
(*                                                                          *)
(* IInv types the state; MInv adds what a run has achieved so far, one fact  *)
(* per operation it has behind it; ResetInv and RegularInv add what keeps a  *)
(* run from stumbling; OnlyDomain what Caddy serves while the domain stays.  *)
(***************************************************************************)
EXTENDS Provisioning, TLAPS

\* A command that runs knows its input.
RunHasInput == outcome = "running" => input \in AllInputs

IInv == TypeOK /\ RunHasInput /\ SeedsHoldServiceKeys

\* The groups of variables only name tuples.
USE DEF vars, process, counters, files, stackVars, services, jellyfinVars,
        keyVars, arrVars, seerrVars

-----------------------------------------------------------------------------
\* What is saved of an input has the types of the files it is saved in.
LEMMA InputParts ==
  ASSUME NEW i \in AllInputs
  PROVE  /\ i.domain \in Domains /\ i.transcoding \in Modes /\ i.storage \in BOOLEAN
         /\ i.password \in Passwords /\ i.token \in Tokens
         /\ ConfigOf(i) \in Configs /\ EnvOf(i) \in EnvFiles
BY DEF AllInputs, ConfigOf, EnvOf, Configs, EnvFiles

\* A command that takes its input from the installation gets a whole one.
LEMMA SavedInputType ==
  ASSUME TypeOK, Installed, NEW mode \in Modes
  PROVE  SavedInput(mode) \in AllInputs
BY DEF TypeOK, Installed, SavedInput, Configs, EnvFiles, AllInputs

\* A command begins with an input, whatever the last one left behind.
LEMMA BeginStep ==
  ASSUME IInv, NEW c, NEW p \in DOMAIN Plans, NEW i \in AllInputs,
         NEW fs \in SUBSET Flags, Begin(c, p, i, fs)
  PROVE  IInv'
BY DEF IInv, TypeOK, RunHasInput, SeedsHoldServiceKeys, Begin, Outcomes, Reasons

\* A step that throws leaves the installation as it found it.
LEMMA RefuseStep ==
  ASSUME IInv, NEW why \in Reasons, Refuse(why)
  PROVE  IInv'
BY DEF IInv, TypeOK, RunHasInput, SeedsHoldServiceKeys, Refuse, Break, Outcomes

LEMMA InitIInv == Init => IInv
<1> SUFFICES ASSUME Init
             PROVE  IInv
  OBVIOUS
<1>1. "setup" \in DOMAIN Plans
  BY DEF Plans
<1>2. TypeOK
  <2>1. /\ static \subseteq Services \X Settings /\ jellyfinKeys \subseteq Nat
        /\ synced \subseteq {"prowlarr", "bazarr"} /\ flags \subseteq Flags
        /\ libraries \subseteq Libraries /\ scanned \subseteq Libraries
    BY DEF Init
  <2>2. /\ seed \in [SeedFiles -> Int]
        /\ password \in [Administered -> Passwords \cup {Nothing}]
        /\ client \in [Arrs -> {"absent", "disabled", "enabled"}]
        /\ arrKey \in [Arrs -> Nat]
    BY DEF Init
  <2>3. /\ command \in Commands \cup {"none"} /\ plan \in DOMAIN Plans
        /\ outcome \in Outcomes /\ reason \in Reasons
    BY <1>1 DEF Init, Outcomes, Reasons
  <2> QED
    BY <2>1, <2>2, <2>3 DEF Init, TypeOK
<1> QED
  BY <1>2 DEF Init, IInv, RunHasInput, SeedsHoldServiceKeys

\* Emptying directories leaves values of the right types, and keys that are
\* absent or unchanged.
LEMMA EmptiedTypes ==
  ASSUME IInv, NEW S, Emptied(S), markers' \in BOOLEAN,
         UNCHANGED <<command, plan, runs>>, at' \in Nat, outcome' \in Outcomes,
         reason' \in Reasons, faults' \in Nat,
         input' \in AllInputs \cup {Nothing}, flags' \subseteq Flags,
         outcome' = "running" => input' \in AllInputs
  PROVE  IInv'
<1> USE DEF IInv, TypeOK, Emptied
<1>1. /\ password' \in [Administered -> Passwords \cup {Nothing}]
      /\ client' \in [Arrs -> {"absent", "disabled", "enabled"}]
      /\ arrKey' \in [Arrs -> Nat]
  OBVIOUS
<1>2. /\ seed' \in [SeedFiles -> Int] /\ serviceKeys' = serviceKeys
      /\ \A f \in SeedFiles : seed'[f] \in {0, seed[f]}
  OBVIOUS
<1>3. SeedsHoldServiceKeys'
  BY <1>2 DEF SeedsHoldServiceKeys
<1>4. /\ libraries' \subseteq Libraries /\ scanned' \subseteq Libraries
      /\ wizard' \in {"open", "user", "done"} /\ jellyfinKeys' \subseteq Nat
      /\ encoding' \in Modes \cup {Nothing} /\ policy' \in Modes \cup {Nothing}
  BY DEF jellyfinVars
<1>5. /\ seerr' \in {"open", "half", "admin", "ready"}
      /\ seerrUrl' \in Domains \cup {Nothing}
      /\ seerrHost' \in Domains \cup {Nothing}
  BY DEF seerrVars
<1>6. /\ static' \subseteq Services \X Settings
      /\ synced' \subseteq {"prowlarr", "bazarr"}
      /\ decypharrToken' \in Tokens \cup {Nothing}
      /\ tree' \in BOOLEAN /\ caddyfile' \in Domains \cup {Nothing}
  OBVIOUS
<1>7. /\ UNCHANGED <<saved, env, serviceKeys, jellyfinKey, nextKey>>
      /\ UNCHANGED <<stack, container, caddyLoaded>>
  BY DEF stackVars
<1> QED
  BY <1>1, <1>2, <1>3, <1>4, <1>5, <1>6, <1>7 DEF RunHasInput

-----------------------------------------------------------------------------
\* Every command.
LEMMA CommandStep ==
  ASSUME IInv, Command
  PROVE  IInv'
<1>1. CASE Setup
  BY <1>1, BeginStep, ProvisioningAssumption DEF Setup, Plans
<1>2. CASE SetupRotating
  BY <1>2, BeginStep, ProvisioningAssumption DEF SetupRotating, Plans, Flags
<1>3. CASE Redeploy
  <2>1. saved.transcoding \in Modes
    BY <1>3 DEF IInv, TypeOK, Installed, Configs, Redeploy
  <2>2. SavedInput(saved.transcoding) \in AllInputs
    BY <1>3, <2>1, SavedInputType DEF IInv, Redeploy
  <2> QED
    BY <1>3, <2>2, BeginStep DEF Redeploy, Plans
<1>4. CASE Reset
  <2>1. saved.transcoding \in Modes
    BY <1>4 DEF IInv, TypeOK, Installed, Configs, Reset
  <2>2. SavedInput(saved.transcoding) \in AllInputs
    BY <1>4, <2>1, SavedInputType DEF IInv, Reset
  <2> QED
    BY <1>4, <2>2, BeginStep DEF Reset, Plans
<1>5. CASE Start
  <2>1. saved.transcoding \in Modes
    BY <1>5 DEF IInv, TypeOK, Installed, Configs, Start
  <2>2. SavedInput(saved.transcoding) \in AllInputs
    BY <1>5, <2>1, SavedInputType DEF IInv, Start
  <2> QED
    BY <1>5, <2>2, BeginStep DEF Start, Plans
<1>6. CASE Stop
  <2>1. saved.transcoding \in Modes
    BY <1>6 DEF IInv, TypeOK, Installed, Configs, Stop
  <2>2. SavedInput(saved.transcoding) \in AllInputs
    BY <1>6, <2>1, SavedInputType DEF IInv, Stop
  <2> QED
    BY <1>6, <2>2, BeginStep DEF Stop, Plans
<1>7. CASE ConfigTranscoding
  <2>1. \A mode \in {i.transcoding : i \in Inputs} : mode \in Modes
    BY ProvisioningAssumption, InputParts
  <2>2. \A mode \in Modes : SavedInput(mode) \in AllInputs
    BY <1>7, SavedInputType DEF IInv, ConfigTranscoding
  <2> QED
    BY <1>7, <2>1, <2>2, BeginStep DEF ConfigTranscoding, Plans
<1> QED
  BY <1>1, <1>2, <1>3, <1>4, <1>5, <1>6, <1>7 DEF Command

\* The steps that prepare the host, and the purge.
LEMMA InfrastructureStep ==
  ASSUME IInv, Infrastructure
  PROVE  IInv'
<1>1. CASE HostTree
  BY <1>1 DEF IInv, TypeOK, RunHasInput, SeedsHoldServiceKeys, HostTree,
     Doing, Proceed, Flags
<1>2. CASE PersistState
  BY <1>2, InputParts DEF IInv, TypeOK, RunHasInput, SeedsHoldServiceKeys,
     PersistState, Doing, Proceed, Flags
<1>3. CASE EnsureEnv
  BY <1>3, InputParts DEF IInv, TypeOK, RunHasInput, SeedsHoldServiceKeys,
     EnsureEnv, Doing, Proceed, Flags, EnsuredServiceKeys
<1>4. CASE GatewayConfig
  BY <1>4, InputParts DEF IInv, TypeOK, RunHasInput, SeedsHoldServiceKeys,
     GatewayConfig, Doing, Proceed, Flags
<1>5. CASE GatewayReload
  BY <1>5 DEF IInv, TypeOK, RunHasInput, SeedsHoldServiceKeys,
     GatewayReload, Doing, Proceed, Flags
<1>6. ASSUME NEW f \in SeedFiles, SeedFile(f) PROVE IInv'
  <2>1. CASE Refuse("seedConflict")
    BY <2>1, RefuseStep DEF Reasons
  <2>2. CASE ~Refuse("seedConflict")
    BY <1>6, <2>2, InputParts DEF IInv, TypeOK, RunHasInput,
       SeedsHoldServiceKeys, SeedFile, Doing, Proceed, Flags, SeedFiles,
       SeedOwner, Servarrs, Arrs, Administered
  <2> QED
    BY <2>1, <2>2
<1>7. CASE ContainersUp
  <2>1. CASE Refuse("order") \/ Refuse("tree")
    BY <2>1, RefuseStep DEF Reasons
  <2>2. CASE ~(Refuse("order") \/ Refuse("tree"))
    <3>1. /\ Installed /\ stack' = "up" /\ UNCHANGED <<files, services>>
          /\ container' = [gpu |-> saved.transcoding = "hardware",
                           domain |-> env.domain, storage |-> env.storage]
          /\ caddyLoaded' \in {caddyfile, caddyLoaded} /\ Proceed(flags)
          /\ outcome = "running"
      BY <1>7, <2>2 DEF ContainersUp, Doing
    <3>2. container' \in Containers
      BY <3>1 DEF IInv, TypeOK, Installed, EnvFiles, Containers
    <3>3. PICK own : seed' = [f \in SeedFiles |->
                                IF f \in own THEN OwnKey ELSE seed[f]]
      BY <1>7, <2>2 DEF ContainersUp
    <3>4. seed' \in [SeedFiles -> Int] /\ SeedsHoldServiceKeys'
      BY <3>1, <3>3 DEF IInv, TypeOK, SeedsHoldServiceKeys, OwnKey
    <3> QED
      BY <3>1, <3>2, <3>4 DEF IInv, TypeOK, RunHasInput, Proceed
  <2> QED
    BY <2>1, <2>2
<1>8. CASE ContainersDown
  BY <1>8 DEF IInv, TypeOK, RunHasInput, SeedsHoldServiceKeys,
     ContainersDown, Doing, Proceed, Flags
<1>9. CASE Purge
  <2>1. Emptied(Services) /\ markers' \in BOOLEAN /\ outcome = "running"
    BY <1>9 DEF Purge, Doing
  <2>2. /\ UNCHANGED <<command, plan, runs, faults, outcome, reason, input>>
        /\ at' = at + 1 /\ flags' = flags
    BY <1>9 DEF Purge, Proceed
  <2> QED
    BY <2>1, <2>2, EmptiedTypes DEF IInv, TypeOK, RunHasInput
<1> QED
  BY <1>1, <1>2, <1>3, <1>4, <1>5, <1>6, <1>7, <1>8, <1>9 DEF Infrastructure

\* The steps of Jellyfin.
LEMMA JellyfinStep ==
  ASSUME IInv, Jellyfin
  PROVE  IInv'
<1>1. CASE FirstUser
  <2>1. CASE Refuse("halfWizard")
    BY <2>1, RefuseStep DEF Reasons
  <2>2. CASE ~Refuse("halfWizard")
    BY <1>1, <2>2, InputParts DEF IInv, TypeOK, RunHasInput,
       SeedsHoldServiceKeys, FirstUser, Doing, Proceed, Flags
  <2> QED
    BY <2>1, <2>2
<1>2. CASE CloseWizard
  BY <1>2 DEF IInv, TypeOK, RunHasInput, SeedsHoldServiceKeys, CloseWizard,
     Doing, Proceed, Flags
<1>3. CASE CreateKey
  <2>1. CASE Refuse("rejected")
    BY <2>1, RefuseStep DEF Reasons
  <2>2. CASE ~Refuse("rejected")
    BY <1>3, <2>2, InputParts DEF IInv, TypeOK, RunHasInput,
       SeedsHoldServiceKeys, CreateKey, Doing, Proceed, Flags
  <2> QED
    BY <2>1, <2>2
<1>4. CASE StoreKey
  <2>1. jellyfinKey' \in Nat
    BY <1>4 DEF IInv, TypeOK, StoreKey
  <2> QED
    BY <1>4, <2>1 DEF IInv, TypeOK, RunHasInput, SeedsHoldServiceKeys,
       StoreKey, Doing, Proceed, Flags
<1>5. CASE RotateJellyfin
  <2>1. password' \in [Administered -> Passwords \cup {Nothing}]
    BY <1>5, InputParts DEF IInv, TypeOK, RunHasInput, RotateJellyfin, Doing
  <2> QED
    BY <1>5, <2>1 DEF IInv, TypeOK, RunHasInput, SeedsHoldServiceKeys,
       RotateJellyfin, Doing, Proceed, Flags
<1>6. ASSUME NEW l \in Libraries, AddLibrary(l) PROVE IInv'
  BY <1>6 DEF IInv, TypeOK, RunHasInput, SeedsHoldServiceKeys, AddLibrary,
     Doing, Proceed, Flags
<1>7. CASE FirstScan
  BY <1>7 DEF IInv, TypeOK, RunHasInput, SeedsHoldServiceKeys, FirstScan,
     Doing, Proceed, Flags
<1>8. CASE Encoding
  BY <1>8, InputParts DEF IInv, TypeOK, RunHasInput, SeedsHoldServiceKeys,
     Encoding, Doing, Proceed, Flags
<1>9. CASE PlaybackPolicy
  BY <1>9, InputParts DEF IInv, TypeOK, RunHasInput, SeedsHoldServiceKeys,
     PlaybackPolicy, Doing, Proceed, Flags
<1> QED
  BY <1>1, <1>2, <1>3, <1>4, <1>5, <1>6, <1>7, <1>8, <1>9 DEF Jellyfin

\* The steps of Sonarr, Radarr, Prowlarr, Bazarr and Decypharr.
LEMMA AutomationStep ==
  ASSUME IInv, Automation
  PROVE  IInv'
<1>1. CASE ServerSettings
  BY <1>1 DEF IInv, TypeOK, RunHasInput, SeedsHoldServiceKeys,
     ServerSettings, Doing, Proceed, Flags, Services, Settings, Arrs,
     Configure
<1>2. CASE RootFolder
  BY <1>2 DEF IInv, TypeOK, RunHasInput, SeedsHoldServiceKeys, RootFolder,
     Doing, Proceed, Flags, Services, Settings, Arrs, Configure
<1>3. CASE MasterProfile
  BY <1>3 DEF IInv, TypeOK, RunHasInput, SeedsHoldServiceKeys,
     MasterProfile, Doing, Proceed, Flags, Services, Settings, Arrs,
     Configure
<1>4. CASE Applications
  BY <1>4 DEF IInv, TypeOK, RunHasInput, SeedsHoldServiceKeys, Applications,
     Doing, Proceed, Flags, Configure, Services, Settings
<1>5. CASE Indexers
  BY <1>5 DEF IInv, TypeOK, RunHasInput, SeedsHoldServiceKeys, Indexers,
     Doing, Proceed, Flags, Configure, Services, Settings
<1>6. ASSUME NEW s \in Servarrs, AdminUser(s) PROVE IInv'
  BY <1>6, InputParts DEF IInv, TypeOK, RunHasInput, SeedsHoldServiceKeys,
     AdminUser, Doing, Proceed, Flags, Administered
<1>7. ASSUME NEW s \in Arrs, DownloadClient(s) PROVE IInv'
  BY <1>7 DEF IInv, TypeOK, RunHasInput, SeedsHoldServiceKeys,
     DownloadClient, Doing, Proceed, Flags
<1>8. ASSUME NEW s \in Arrs, EnableClient(s) PROVE IInv'
  BY <1>8 DEF IInv, TypeOK, RunHasInput, SeedsHoldServiceKeys, EnableClient,
     Doing, Proceed, Flags
<1>9. ASSUME NEW s \in Arrs, JellyfinConnection(s) PROVE IInv'
  <2>1. CASE Refuse("order")
    BY <2>1, RefuseStep DEF Reasons
  <2>2. CASE ~Refuse("order")
    BY <1>9, <2>2, InputParts DEF IInv, TypeOK, RunHasInput,
       SeedsHoldServiceKeys, JellyfinConnection, Doing, Proceed, Flags
  <2> QED
    BY <2>1, <2>2
<1>10. CASE BazarrSettings
  BY <1>10, InputParts DEF IInv, TypeOK, RunHasInput, SeedsHoldServiceKeys,
     BazarrSettings, Doing, Proceed, Flags, Administered, Services, Settings
<1>11. ASSUME NEW s \in {"prowlarr", "bazarr"}, Synchronize(s) PROVE IInv'
  BY <1>11 DEF IInv, TypeOK, RunHasInput, SeedsHoldServiceKeys, Synchronize,
     Doing, Proceed, Flags
<1>12. CASE RotateDecypharr
  BY <1>12, InputParts DEF IInv, TypeOK, RunHasInput, SeedsHoldServiceKeys,
     RotateDecypharr, Doing, Proceed, Flags, Administered
<1>13. CASE VerifyDecypharr
  <2>1. CASE Refuse("drift")
    BY <2>1, RefuseStep DEF Reasons
  <2>2. CASE ~Refuse("drift")
    BY <1>13, <2>2, InputParts DEF IInv, TypeOK, RunHasInput,
       SeedsHoldServiceKeys, VerifyDecypharr, Doing, Proceed, Flags
  <2> QED
    BY <2>1, <2>2
<1> QED
  BY <1>1, <1>2, <1>3, <1>4, <1>5, <1>6, <1>7, <1>8, <1>9, <1>10, <1>11,
     <1>12, <1>13 DEF Automation

\* The steps of Seerr.
LEMMA RequestsStep ==
  ASSUME IInv, Requests
  PROVE  IInv'
<1>1. CASE SignIn
  <2>1. CASE Refuse("seerrHalf") \/ Refuse("signIn")
    BY <2>1, RefuseStep DEF Reasons
  <2>2. CASE ~(Refuse("seerrHalf") \/ Refuse("signIn"))
    BY <1>1, <2>2, InputParts DEF IInv, TypeOK, RunHasInput,
       SeedsHoldServiceKeys, SignIn, Doing, Proceed, Flags
  <2> QED
    BY <2>1, <2>2
<1>2. CASE MainSettings
  BY <1>2, InputParts DEF IInv, TypeOK, RunHasInput, SeedsHoldServiceKeys,
     MainSettings, Doing, Proceed, Flags
<1>3. CASE ExternalHostname
  BY <1>3, InputParts DEF IInv, TypeOK, RunHasInput, SeedsHoldServiceKeys,
     ExternalHostname, Doing, Proceed, Flags
<1>4. CASE SeerrLibraries
  <2>1. CASE Refuse("order")
    BY <2>1, RefuseStep DEF Reasons
  <2>2. CASE ~Refuse("order")
    BY <1>4, <2>2, InputParts DEF IInv, TypeOK, RunHasInput,
       SeedsHoldServiceKeys, SeerrLibraries, Doing, Proceed, Flags,
       ConfigureFrom, Services, Settings
  <2> QED
    BY <2>1, <2>2
<1>5. ASSUME NEW s \in Arrs, SeerrServer(s) PROVE IInv'
  <2>1. CASE Refuse("order")
    BY <2>1, RefuseStep DEF Reasons
  <2>2. CASE ~Refuse("order")
    BY <1>5, <2>2, InputParts DEF IInv, TypeOK, RunHasInput,
       SeedsHoldServiceKeys, SeerrServer, Doing, Proceed, Flags,
       ConfigureFrom, Services, Settings, Arrs
  <2> QED
    BY <2>1, <2>2
<1>6. CASE Initialize
  BY <1>6 DEF IInv, TypeOK, RunHasInput, SeedsHoldServiceKeys, Initialize,
     Doing, Proceed, Flags
<1> QED
  BY <1>1, <1>2, <1>3, <1>4, <1>5, <1>6 DEF Requests

\* Failures, including those that leave something behind.
LEMMA FailureStep ==
  ASSUME IInv, Failure
  PROVE  IInv'
<1>1. CASE Fail
  BY <1>1 DEF IInv, TypeOK, RunHasInput, SeedsHoldServiceKeys, Fail, Break,
     Outcomes, Reasons
<1>2. CASE HalfSignIn
  BY <1>2 DEF IInv, TypeOK, RunHasInput, SeedsHoldServiceKeys, HalfSignIn,
     Break, Outcomes, Reasons
<1>3. CASE PurgeStops
  BY <1>3, EmptiedTypes DEF IInv, TypeOK, PurgeStops, Break, Outcomes,
     Reasons
<1> QED
  BY <1>1, <1>2, <1>3 DEF Failure

LEMMA NextIInv == IInv /\ [Next]_vars => IInv'
<1> SUFFICES ASSUME IInv, [Next]_vars
             PROVE  IInv'
  OBVIOUS
<1>1. CASE Succeed
  BY <1>1 DEF IInv, TypeOK, RunHasInput, SeedsHoldServiceKeys, Succeed, Outcomes
<1>2. CASE UNCHANGED vars
  BY <1>2 DEF IInv, TypeOK, RunHasInput, SeedsHoldServiceKeys
<1> QED
  BY <1>1, <1>2, CommandStep, InfrastructureStep, JellyfinStep, AutomationStep,
     RequestsStep, FailureStep DEF Next, Operation, Finished

-----------------------------------------------------------------------------
THEOREM Invariance == Spec => []IInv
<1> QED
  BY InitIInv, NextIInv, PTL DEF Spec

\* The state of the process, of the files and of the services keeps its types,
\* whatever is asked for and wherever the runs end.
THEOREM TypeCorrect == Spec => []TypeOK
<1>1. IInv => TypeOK
  BY DEF IInv
<1> QED
  BY <1>1, Invariance, PTL

\* ensureServiceKeys and ensureSeedFile together: no seeded file ever holds a
\* service key of another generation than .env, for any sequence of commands,
\* failures and half resets.
THEOREM SeedsNeverStale == Spec => []SeedsHoldServiceKeys
<1>1. IInv => SeedsHoldServiceKeys
  BY DEF IInv
<1> QED
  BY <1>1, Invariance, PTL
-----------------------------------------------------------------------------
(* What a run has achieved: for every operation it has behind it, what that    *)
(* operation established and no later one undoes.                              *)

\* The operations the run has behind it.
Done == {Plans[plan][k] : k \in 1..(at - 1)}

\* The command still knows its input; it provisions the whole installation.
Working == outcome \in {"running", "success"}
Provisions == Working /\ plan \in {"setup", "reset"}

RunIsWhole ==
  /\ Working => input \in AllInputs /\ at >= 1
  /\ outcome = "success" => at = Len(Plans[plan]) + 1
  /\ command = "reset" => plan = "reset"
  /\ command = "rotate" => plan = "setup" /\ (Working => "rotate" \in flags)

\* Whoever has an administrator has a password, whatever became of its run; a
\* key Jellyfin has issued is never 0.
Standing ==
  /\ wizard # "open" => password["jellyfin"] # Nothing
  /\ seed["auth"] \notin {0, OwnKey} => password["decypharr"] # Nothing
  /\ nextKey >= 1 /\ \A key \in jellyfinKeys : key >= 1 /\ key < nextKey

HostAchieved ==
  /\ <<"hostTree", "host">> \in Done => tree /\ markers
  /\ <<"persist", "state">> \in Done => saved = ConfigOf(input)
  /\ <<"ensureEnv", "env">> \in Done => env = EnvOf(input) /\ serviceKeys # 0
  /\ <<"gatewayConfig", "caddy">> \in Done => caddyfile = input.domain
  /\ \A f \in SeedFiles :
       <<"seed", f>> \in Done => seed[f] = serviceKeys /\ seed[f] # 0
  /\ <<"up", "stack">> \in Done =>
       /\ stack = "up"
       /\ container = [gpu |-> input.transcoding = "hardware",
                       domain |-> input.domain, storage |-> input.storage]

MediaAchieved ==
  /\ <<"firstUser", "jellyfin">> \in Done => wizard # "open"
  /\ <<"closeWizard", "jellyfin">> \in Done => wizard = "done"
  /\ \A l \in Libraries : <<"library", l>> \in Done => l \in libraries
  /\ <<"encoding", "jellyfin">> \in Done => encoding = input.transcoding
  /\ <<"policy", "jellyfin">> \in Done => policy = input.transcoding

KeyAchieved ==
  /\ <<"storeKey", "jellyfin">> \in Done => KeyAccepted
  /\ \A s \in Arrs : <<"connection", s>> \in Done =>
       <<"storeKey", "jellyfin">> \in Done /\ arrKey[s] = jellyfinKey

CommonSettings == {"settings", "root", "profile", "applications", "indexers"}

SettingsAchieved ==
  /\ \A s \in Services, w \in CommonSettings :
       <<w, s>> \in Done => <<s, w>> \in static
  /\ <<"libraries", "seerr">> \in Done => <<"seerr", "seerr">> \in static
  /\ \A s \in Arrs : <<"server", s>> \in Done => <<"seerr", s>> \in static
  /\ \A s \in Arrs : <<"enableClient", s>> \in Done => client[s] = "enabled"

CredentialsAchieved ==
  /\ \A s \in Servarrs : <<"admin", s>> \in Done => password[s] # Nothing
  /\ <<"defaults", "bazarr">> \in Done => password["bazarr"] = input.password
  /\ "wizardWasOpen" \in flags =>
       /\ <<"firstUser", "jellyfin">> \in Done
       /\ password["jellyfin"] = input.password
  /\ "rotate" \in flags =>
       /\ \A s \in Servarrs \cup {"jellyfin"} :
            <<"admin", s>> \in Done \/ <<"rotate", s>> \in Done =>
              password[s] = input.password
       /\ <<"rotate", "decypharr">> \in Done /\ input.storage =>
            password["decypharr"] = input.password

RequestsAchieved ==
  /\ <<"main", "seerr">> \in Done => seerrUrl = input.domain
  /\ <<"initialize", "seerr">> \in Done => seerr = "ready"

Achieved ==
  /\ HostAchieved /\ MediaAchieved /\ KeyAchieved /\ SettingsAchieved
  /\ CredentialsAchieved /\ RequestsAchieved

MInv == RunIsWhole /\ Standing /\ (Provisions => Achieved)

-----------------------------------------------------------------------------
(* The order of the plans.  *)

\* The operations on the host, which come before every call to a service.
Foundation ==
  {<<"hostTree", "host">>, <<"persist", "state">>, <<"ensureEnv", "env">>,
   <<"gatewayConfig", "caddy">>, <<"up", "stack">>}
  \cup {<<"seed", f>> : f \in SeedFiles}
HostOps == Foundation \cup
  {<<"down", "stack">>, <<"purge", "host">>, <<"reload", "caddy">>}

LEMMA SetupIndex ==
  LET P == Plans["setup"] IN
  /\ DOMAIN P = 1..54 /\ Len(P) = 54
  /\ \A k \in 1..11 : P[k] = InfrastructureOps[k]
  /\ P[12] = <<"reload", "caddy">>
  /\ \A k \in 13..54 : P[k] = ApiOps[k - 12]
BY DEF Plans, ApiOps, JellyfinOps, ArrOps, ProfileOps, ProwlarrOps, BazarrOps,
   DecypharrOps, SeerrOps, TranscodingOps, AccessOps, InfrastructureOps

LEMMA ResetIndex ==
  LET P == Plans["reset"] IN
  /\ DOMAIN P = 1..55 /\ Len(P) = 55
  /\ P[1] = <<"down", "stack">> /\ P[2] = <<"purge", "host">>
  /\ \A k \in 3..13 : P[k] = InfrastructureOps[k - 2]
  /\ \A k \in 14..55 : P[k] = ApiOps[k - 13]
BY DEF Plans, ApiOps, ResetOps, JellyfinOps, ArrOps, ProfileOps, ProwlarrOps,
   BazarrOps, DecypharrOps, SeerrOps, TranscodingOps, AccessOps,
   InfrastructureOps

LEMMA InfrastructureIsFoundation ==
  /\ \A k \in 1..11 : InfrastructureOps[k] \in Foundation
  /\ \A op \in Foundation : \E k \in 1..11 : op = InfrastructureOps[k]
<1>1. Foundation = {InfrastructureOps[1], InfrastructureOps[2],
        InfrastructureOps[3], InfrastructureOps[4], InfrastructureOps[5],
        InfrastructureOps[6], InfrastructureOps[7], InfrastructureOps[8],
        InfrastructureOps[9], InfrastructureOps[10], InfrastructureOps[11]}
  BY DEF InfrastructureOps, Foundation, SeedFiles, Servarrs, Arrs
<1> QED
  BY <1>1

LEMMA DoneAt ==
  ASSUME NEW k \in 1..(at - 1)
  PROVE  Plans[plan][k] \in Done
BY DEF Done

\* Where the operations on the services are.
LEMMA ApiIndex ==
  /\ ApiOps[1] = <<"firstUser", "jellyfin">> /\ ApiOps[4] = <<"storeKey", "jellyfin">>
  /\ \A k \in 1..42 :
       /\ ApiOps[k] = <<"closeWizard", "jellyfin">> => k > 1
       /\ \A s \in Arrs : ApiOps[k] = <<"connection", s>> => k > 4
BY DEF ApiOps, JellyfinOps, ArrOps, ProfileOps, ProwlarrOps, BazarrOps, Arrs,
   DecypharrOps, SeerrOps, TranscodingOps, AccessOps

\* Before a service is called the host is complete, emptied in a reset, and the
\* earlier calls were made.
LEMMA ApiComesLast ==
  ASSUME plan \in {"setup", "reset"}, at \in DOMAIN Plans[plan],
         Plans[plan][at] \notin HostOps
  PROVE  /\ Foundation \subseteq Done
         /\ plan = "reset" => <<"purge", "host">> \in Done
         /\ \E k \in 1..42 : /\ Plans[plan][at] = ApiOps[k]
                             /\ \A j \in 1..(k - 1) : ApiOps[j] \in Done
<1>1. CASE plan = "setup"
  <2>1. at \in 13..54
    <3>1. \A k \in 1..12 : Plans["setup"][k] \in HostOps
      BY SetupIndex, InfrastructureIsFoundation DEF HostOps
    <3> QED
      BY <1>1, <3>1, SetupIndex
  <2>2. \A k \in 1..11 : InfrastructureOps[k] \in Done
    BY <1>1, <2>1, SetupIndex, DoneAt
  <2>3. \A j \in 1..(at - 12 - 1) : ApiOps[j] \in Done
    <3> SUFFICES ASSUME NEW j \in 1..(at - 12 - 1)
                 PROVE  ApiOps[j] \in Done
      OBVIOUS
    <3>1. j + 12 \in 13..54 /\ j + 12 \in 1..(at - 1) /\ (j + 12) - 12 = j
      BY <2>1
    <3> QED
      BY <1>1, <3>1, SetupIndex, DoneAt
  <2>4. at - 12 \in 1..42 /\ Plans[plan][at] = ApiOps[at - 12]
    BY <1>1, <2>1, SetupIndex
  <2> QED
    BY <1>1, <2>2, <2>3, <2>4, InfrastructureIsFoundation
<1>2. CASE plan = "reset"
  <2>1. at \in 14..55
    <3>1. \A k \in 1..13 : Plans["reset"][k] \in HostOps
      <4>1. \A k \in 3..13 : k - 2 \in 1..11
        OBVIOUS
      <4> QED
        BY <4>1, ResetIndex, InfrastructureIsFoundation DEF HostOps
    <3> QED
      BY <1>2, <3>1, ResetIndex
  <2>2. \A k \in 1..11 : InfrastructureOps[k] \in Done
    <3> SUFFICES ASSUME NEW k \in 1..11
                 PROVE  InfrastructureOps[k] \in Done
      OBVIOUS
    <3>1. k + 2 \in 3..13 /\ k + 2 \in 1..(at - 1) /\ (k + 2) - 2 = k
      BY <2>1
    <3> QED
      BY <1>2, <3>1, ResetIndex, DoneAt
  <2>3. <<"purge", "host">> \in Done
    BY <1>2, <2>1, ResetIndex, DoneAt
  <2>4. \A j \in 1..(at - 13 - 1) : ApiOps[j] \in Done
    <3> SUFFICES ASSUME NEW j \in 1..(at - 13 - 1)
                 PROVE  ApiOps[j] \in Done
      OBVIOUS
    <3>1. j + 13 \in 14..55 /\ j + 13 \in 1..(at - 1) /\ (j + 13) - 13 = j
      BY <2>1
    <3> QED
      BY <1>2, <3>1, ResetIndex, DoneAt
  <2>5. at - 13 \in 1..42 /\ Plans[plan][at] = ApiOps[at - 13]
    BY <1>2, <2>1, ResetIndex
  <2> QED
    BY <1>2, <2>2, <2>3, <2>4, <2>5, InfrastructureIsFoundation
<1> QED
  BY <1>1, <1>2

\* The operations on the host are in the order their files need.
LEMMA HostOrder ==
  ASSUME plan \in {"setup", "reset"}, at \in DOMAIN Plans[plan]
  PROVE  /\ \A f \in SeedFiles : Plans[plan][at] = <<"seed", f>> =>
              <<"ensureEnv", "env">> \in Done /\ <<"up", "stack">> \notin Done
         /\ Plans[plan][at] \in Foundation /\ plan = "reset" => <<"purge", "host">> \in Done
         /\ Plans[plan][at] = <<"up", "stack">> => Foundation \ {<<"up", "stack">>} \subseteq Done
         /\ Plans[plan][at] \in {<<"purge", "host">>, <<"down", "stack">>} =>
              Done \subseteq {<<"down", "stack">>}
<1>1. \A k \in 1..11 : \A f \in SeedFiles :
        InfrastructureOps[k] = <<"seed", f>> => k > 3
  BY DEF InfrastructureOps
<1>2. InfrastructureOps[3] = <<"ensureEnv", "env">>
  BY DEF InfrastructureOps
<1>3. \A k \in 1..11 : InfrastructureOps[k] = <<"up", "stack">> => k = 11
  BY DEF InfrastructureOps
<1>4. \A k \in 1..11 : InfrastructureOps[k] \notin {<<"purge", "host">>, <<"down", "stack">>}
  BY DEF InfrastructureOps
<1>5. \A k \in 1..42 : ApiOps[k] \notin HostOps
  BY DEF ApiOps, JellyfinOps, ArrOps, ProfileOps, ProwlarrOps, BazarrOps, DecypharrOps,
     SeerrOps, TranscodingOps, AccessOps, HostOps, Foundation
<1>8. InfrastructureOps[11] = <<"up", "stack">>
  BY DEF InfrastructureOps
<1>6. CASE plan = "setup"
  <2>1. at \in 1..11 \/ at = 12 \/ (at \in 13..54 /\ at - 12 \in 1..42)
    <3>1. at \in 1..54
      BY <1>6, SetupIndex
    <3> QED
      BY <3>1
  <2>2. Plans[plan][at] \in Foundation => at \in 1..11
    BY <1>5, <1>6, <2>1, SetupIndex DEF Foundation, HostOps
  <2>3. \A k \in 1..11 : k < at => InfrastructureOps[k] \in Done
    BY <1>6, SetupIndex, DoneAt
  <2>4. Plans[plan][at] \notin {<<"purge", "host">>, <<"down", "stack">>}
    BY <1>4, <1>5, <1>6, <2>1, SetupIndex DEF HostOps
  <2>5. ASSUME NEW f \in SeedFiles, Plans[plan][at] = <<"seed", f>>
        PROVE  <<"ensureEnv", "env">> \in Done /\ <<"up", "stack">> \notin Done
    <3>1. at \in 1..11 /\ at > 3 /\ at # 11
      BY <1>1, <1>8, <1>6, <2>2, <2>5, SetupIndex DEF Foundation
    <3>2. Done = {InfrastructureOps[k] : k \in 1..(at - 1)}
      BY <1>6, <3>1, SetupIndex DEF Done
    <3> QED
      BY <1>2, <1>3, <3>1, <3>2
  <2>6. Plans[plan][at] = <<"up", "stack">> => at = 11
    BY <1>3, <1>6, <2>2, SetupIndex DEF Foundation
  <2>7. Plans[plan][at] = <<"up", "stack">> => Foundation \ {<<"up", "stack">>} \subseteq Done
    <3>1. InfrastructureOps[11] = <<"up", "stack">>
      BY DEF InfrastructureOps
    <3> QED
      BY <2>3, <2>6, <3>1, InfrastructureIsFoundation
  <2> QED
    BY <1>6, <2>4, <2>5, <2>7
<1>7. CASE plan = "reset"
  <2>1. \/ at \in 1..2
        \/ at \in 3..13 /\ at - 2 \in 1..11
        \/ at \in 14..55 /\ at - 13 \in 1..42
    <3>1. at \in 1..55
      BY <1>7, ResetIndex
    <3> QED
      BY <3>1
  <2>2. Plans[plan][at] \in Foundation => at \in 3..13 /\ at - 2 \in 1..11
    <3>1. <<"down", "stack">> \notin Foundation /\ <<"purge", "host">> \notin Foundation
      BY DEF Foundation
    <3>2. \A k \in 1..2 : Plans["reset"][k] \notin Foundation
      BY <3>1, ResetIndex
    <3> QED
      BY <1>5, <1>7, <2>1, <3>2, ResetIndex DEF HostOps
  <2>3. \A k \in 1..11 : k < at - 2 => InfrastructureOps[k] \in Done
    <3> SUFFICES ASSUME NEW k \in 1..11, k < at - 2
                 PROVE  InfrastructureOps[k] \in Done
      OBVIOUS
    <3>1. k + 2 \in 3..13 /\ k + 2 \in 1..(at - 1) /\ (k + 2) - 2 = k
      BY <1>7, ResetIndex
    <3> QED
      BY <1>7, <3>1, ResetIndex, DoneAt
  <2>4. Plans[plan][at] \in {<<"purge", "host">>, <<"down", "stack">>} => at \in 1..2
    BY <1>4, <1>5, <1>7, <2>1, ResetIndex DEF HostOps
  <2>5. at \in 1..2 => Done \subseteq {<<"down", "stack">>}
    BY <1>7, ResetIndex DEF Done
  <2>6. ASSUME NEW f \in SeedFiles, Plans[plan][at] = <<"seed", f>>
        PROVE  <<"ensureEnv", "env">> \in Done /\ <<"up", "stack">> \notin Done
    <3>1. at \in 3..13 /\ at - 2 > 3 /\ at # 13
      BY <1>1, <1>8, <1>7, <2>2, <2>6, ResetIndex DEF Foundation
    <3>2. \A k \in 1..(at - 1) : Plans[plan][k] # <<"up", "stack">>
      <4>1. \A k \in 3..(at - 1) : k \in 3..13 /\ k - 2 \in 1..11 /\ k - 2 # 11
        BY <3>1
      <4> QED
        BY <1>3, <1>7, <3>1, <4>1, ResetIndex
    <3> QED
      BY <1>2, <2>3, <3>1, <3>2 DEF Done
  <2>9. Plans[plan][at] \in Foundation => <<"purge", "host">> \in Done
    BY <1>7, <2>2, ResetIndex, DoneAt
  <2>7. Plans[plan][at] = <<"up", "stack">> => at - 2 = 11
    BY <1>3, <1>7, <2>2, ResetIndex DEF Foundation
  <2>8. Plans[plan][at] = <<"up", "stack">> => Foundation \ {<<"up", "stack">>} \subseteq Done
    <3>1. InfrastructureOps[11] = <<"up", "stack">>
      BY DEF InfrastructureOps
    <3> QED
      BY <2>3, <2>7, <3>1, InfrastructureIsFoundation
  <2> QED
    BY <2>4, <2>5, <2>6, <2>8, <2>9
<1> QED
  BY <1>6, <1>7

-----------------------------------------------------------------------------
(* What every operation has in common.  *)

\* An operation that is done is one more the run has behind it.
LEMMA DoneStep ==
  ASSUME IInv, MInv, NEW do, NEW on, NEW fs, Doing(do, on), Proceed(fs)
  PROVE  /\ Done' = Done \cup {<<do, on>>} /\ Working /\ Working'
         /\ UNCHANGED <<command, plan, outcome, input>> /\ flags' = fs
<1>1. /\ at' = at + 1 /\ at \in Nat /\ at >= 1 /\ plan' = plan
      /\ Plans[plan][at] = <<do, on>> /\ at \in DOMAIN Plans[plan]
  BY DEF Doing, Proceed, MInv, RunIsWhole, Working, IInv, TypeOK
<1>2. 1..(at' - 1) = 1..(at - 1) \cup {at}
  BY <1>1
<1>3. Done' = Done \cup {<<do, on>>}
  <2>1. Done' = {Plans[plan][k] : k \in 1..(at - 1) \cup {at}}
    BY <1>1, <1>2 DEF Done
  <2> QED
    BY <1>1, <2>1 DEF Done
<1> QED
  BY <1>3 DEF Doing, Proceed, Working

\* Every operation either refuses or goes on; none forgets that it rotates.
LEMMA OperationForm ==
  ASSUME Infrastructure \/ Jellyfin \/ Automation \/ Requests
  PROVE  \/ \E why : Refuse(why)
         \/ \E do, on, fs :
              /\ Doing(do, on) /\ Proceed(fs)
              /\ "rotate" \in flags => "rotate" \in fs
<1>1. CASE Infrastructure
  <2>1. CASE HostTree \/ PersistState \/ EnsureEnv \/ GatewayConfig \/ GatewayReload
    BY <2>1 DEF HostTree, PersistState, EnsureEnv, GatewayConfig, GatewayReload
  <2>2. ASSUME NEW f \in SeedFiles, SeedFile(f)
        PROVE  Refuse("seedConflict") \/ (Doing("seed", f) /\ Proceed(flags))
    BY <2>2 DEF SeedFile
  <2>3. CASE ContainersUp \/ ContainersDown \/ Purge
    BY <2>3 DEF ContainersUp, ContainersDown, Purge
  <2> QED
    BY <1>1, <2>1, <2>2, <2>3 DEF Infrastructure
<1>2. CASE Jellyfin
  <2>1. CASE FirstUser
    BY <2>1 DEF FirstUser
  <2>2. CASE CreateKey \/ StoreKey
    BY <2>2 DEF CreateKey, StoreKey
  <2>3. CASE CloseWizard \/ RotateJellyfin \/ FirstScan \/ Encoding \/ PlaybackPolicy
    BY <2>3 DEF CloseWizard, RotateJellyfin, FirstScan, Encoding, PlaybackPolicy
  <2>4. ASSUME NEW l \in Libraries, AddLibrary(l)
        PROVE  \E fs : /\ Doing("library", l) /\ Proceed(fs)
                       /\ "rotate" \in flags => "rotate" \in fs
    BY <2>4 DEF AddLibrary
  <2> QED
    BY <1>2, <2>1, <2>2, <2>3, <2>4 DEF Jellyfin
<1>3. CASE Automation
  <2>1. ASSUME NEW s, NEW w, NEW fs, Configure(s, w, fs)
        PROVE  \E fs2 : /\ Doing(w, s) /\ Proceed(fs2)
                        /\ "rotate" \in flags => "rotate" \in fs2
    BY <2>1 DEF Configure
  <2>2. CASE ServerSettings \/ RootFolder \/ MasterProfile \/ Applications \/ Indexers
    BY <2>1, <2>2 DEF ServerSettings, RootFolder, MasterProfile, Applications, Indexers
  <2>3. ASSUME NEW s, AdminUser(s) \/ DownloadClient(s) \/ EnableClient(s)
                      \/ JellyfinConnection(s) \/ Synchronize(s)
        PROVE  Refuse("order") \/ \E do, on : Doing(do, on) /\ Proceed(flags)
    BY <2>3 DEF AdminUser, DownloadClient, EnableClient, JellyfinConnection, Synchronize
  <2>4. CASE BazarrSettings \/ RotateDecypharr \/ VerifyDecypharr
    BY <2>4 DEF BazarrSettings, RotateDecypharr, VerifyDecypharr
  <2> QED
    BY <1>3, <2>2, <2>3, <2>4 DEF Automation
<1>4. CASE Requests
  <2>1. ASSUME NEW s \in Arrs, SeerrServer(s)
        PROVE  Refuse("order") \/ \E do, on : Doing(do, on) /\ Proceed(flags)
    BY <2>1 DEF SeerrServer, ConfigureFrom
  <2>2. CASE SignIn \/ MainSettings \/ ExternalHostname \/ SeerrLibraries \/ Initialize
    BY <2>2 DEF SignIn, MainSettings, ExternalHostname, SeerrLibraries, Initialize, ConfigureFrom
  <2> QED
    BY <1>4, <2>1, <2>2 DEF Requests
<1> QED
  BY <1>1, <1>2, <1>3, <1>4

LEMMA RunIsWholeStep ==
  ASSUME IInv, IInv', MInv, Next
  PROVE  RunIsWhole'
<1>1. CASE Command
  <2>1. ASSUME NEW c, NEW p, NEW i, NEW fs, Begin(c, p, i, fs),
               c = "reset" => p = "reset",
               c = "rotate" => p = "setup" /\ "rotate" \in fs
        PROVE  RunIsWhole'
    BY <2>1 DEF Begin, RunIsWhole, Working, IInv, RunHasInput
  <2> QED
    BY <1>1, <2>1 DEF Command, Setup, SetupRotating, Redeploy, ConfigTranscoding,
       Reset, Start, Stop
<1>2. CASE Infrastructure \/ Jellyfin \/ Automation \/ Requests
  <2>1. CASE \E why : Refuse(why)
    BY <2>1 DEF Refuse, Break, MInv, RunIsWhole, Working
  <2>2. ASSUME NEW do, NEW on, NEW fs, Doing(do, on), Proceed(fs),
               "rotate" \in flags => "rotate" \in fs
        PROVE  RunIsWhole'
    BY <2>2 DEF Doing, Proceed, MInv, RunIsWhole, Working, IInv, TypeOK
  <2> QED
    BY <1>2, <2>1, <2>2, OperationForm
<1>3. CASE Succeed
  BY <1>3 DEF Succeed, MInv, RunIsWhole, Working
<1>4. CASE Failure
  <2>1. Break("fault")
    BY <1>4 DEF Failure, Fail, HalfSignIn, PurgeStops
  <2> QED
    BY <2>1 DEF Break, MInv, RunIsWhole, Working
<1>5. CASE Finished
  BY <1>5 DEF Finished, MInv, RunIsWhole, Working
<1> QED
  BY <1>1, <1>2, <1>3, <1>4, <1>5 DEF Next, Operation

\* The plans of config, start and stop have few operations.
LEMMA ProvisionOnly ==
  ASSUME IInv, NEW do, NEW on, Doing(do, on),
         <<do, on>> \notin {<<"persist", "state">>, <<"up", "stack">>,
                            <<"down", "stack">>, <<"createKey", "jellyfin">>,
                            <<"storeKey", "jellyfin">>, <<"encoding", "jellyfin">>,
                            <<"policy", "jellyfin">>}
  PROVE  plan \in {"setup", "reset"} /\ Working /\ Provisions
<1>1. plan \in {"setup", "reset", "retune", "crossing", "start", "stop"}
  BY DEF IInv, TypeOK, Plans
<1>2. plan # "retune"
  <2>1. /\ DOMAIN Plans["retune"] = 1..5
        /\ \A k \in 1..5 : Plans["retune"][k] \in
             {<<"persist", "state">>, <<"createKey", "jellyfin">>,
              <<"storeKey", "jellyfin">>, <<"encoding", "jellyfin">>,
              <<"policy", "jellyfin">>}
    BY DEF Plans, TranscodingOps, AccessOps
  <2> QED
    BY <2>1 DEF Doing
<1>3. plan # "crossing"
  <2>1. /\ DOMAIN Plans["crossing"] = 1..6
        /\ \A k \in 1..6 : Plans["crossing"][k] \in
             {<<"persist", "state">>, <<"up", "stack">>, <<"createKey", "jellyfin">>,
              <<"storeKey", "jellyfin">>, <<"encoding", "jellyfin">>,
              <<"policy", "jellyfin">>}
    BY DEF Plans, TranscodingOps, AccessOps
  <2> QED
    BY <2>1 DEF Doing
<1>4. plan \notin {"start", "stop"}
  <2>1. /\ DOMAIN Plans["start"] = 1..1 /\ Plans["start"][1] = <<"up", "stack">>
        /\ DOMAIN Plans["stop"] = 1..1 /\ Plans["stop"][1] = <<"down", "stack">>
    BY DEF Plans
  <2> QED
    BY <2>1 DEF Doing
<1> QED
  BY <1>1, <1>2, <1>3, <1>4 DEF Doing, Working, Provisions

\* A password is only ever set to the one the administrator asked for.
LEMMA StandingPasswords ==
  ASSUME IInv, MInv, Working,
         UNCHANGED <<wizard, seed, nextKey, jellyfinKeys>>,
         \A s \in Administered : password'[s] \in {password[s], input.password}
  PROVE  Standing'
BY InputParts, ProvisioningAssumption
   DEF MInv, RunIsWhole, Standing, Administered, Servarrs

LEMMA StandingKept ==
  ASSUME MInv, UNCHANGED <<wizard, password, seed, nextKey, jellyfinKeys>>
  PROVE  Standing'
BY DEF MInv, Standing

LEMMA StandingEmptied ==
  ASSUME IInv, MInv, NEW S, Emptied(S)
  PROVE  Standing'
<1>1. /\ password'["jellyfin"] = IF "jellyfin" \in S THEN Nothing ELSE password["jellyfin"]
      /\ password'["decypharr"] = IF "decypharr" \in S THEN Nothing ELSE password["decypharr"]
      /\ seed'["auth"] = IF "decypharr" \in S THEN 0 ELSE seed["auth"]
  BY DEF Emptied, Administered, Servarrs, SeedFiles, SeedOwner
<1>2. /\ "jellyfin" \in S => wizard' = "open" /\ jellyfinKeys' = {}
      /\ "jellyfin" \notin S => wizard' = wizard /\ jellyfinKeys' = jellyfinKeys
      /\ nextKey' = nextKey
  BY DEF Emptied
<1> QED
  BY <1>1, <1>2 DEF MInv, Standing

LEMMA StandingStep ==
  ASSUME IInv, MInv, Next
  PROVE  Standing'
<1>1. CASE Command
  BY <1>1, StandingKept DEF Command, Setup, SetupRotating, Redeploy,
     ConfigTranscoding, Reset, Start, Stop, Begin
<1>2. CASE Failure
  <2>1. CASE Fail \/ HalfSignIn
    BY <2>1, StandingKept DEF Fail, HalfSignIn
  <2>2. CASE PurgeStops
    BY <2>2, StandingEmptied DEF PurgeStops
  <2> QED
    BY <1>2, <2>1, <2>2 DEF Failure
<1>3. CASE Infrastructure
  <2>1. CASE HostTree \/ PersistState \/ EnsureEnv \/ GatewayConfig \/ GatewayReload
             \/ ContainersDown
    BY <2>1, StandingKept DEF HostTree, PersistState, EnsureEnv, GatewayConfig,
       GatewayReload, ContainersDown
  <2>2. ASSUME NEW f \in SeedFiles, SeedFile(f)
        PROVE  Standing'
    <3>1. CASE Refuse("seedConflict")
      BY <3>1, StandingKept DEF Refuse
    <3>2. CASE seed' = seed /\ password' = password
      BY <2>2, <3>2, StandingKept DEF SeedFile, Refuse
    <3>3. CASE /\ seed[f] = 0 /\ seed' = [seed EXCEPT ![f] = serviceKeys]
               /\ password' = IF f \in {"bazarr", "auth"}
                              THEN [password EXCEPT ![SeedOwner(f)] = input.password]
                              ELSE password
               /\ UNCHANGED <<jellyfinVars, keyVars>>
      <4>1. input.password # Nothing
        BY <2>2, InputParts, ProvisioningAssumption
           DEF SeedFile, Doing, MInv, RunIsWhole, Working
      <4>2. /\ password'["jellyfin"] = password["jellyfin"]
            /\ f = "auth" => password'["decypharr"] = input.password
            /\ f # "auth" => password'["decypharr"] = password["decypharr"]
                             /\ seed'["auth"] = seed["auth"]
        BY <3>3 DEF SeedOwner, IInv, TypeOK, Administered, Servarrs, SeedFiles
      <4> QED
        BY <3>3, <4>1, <4>2 DEF MInv, Standing
    <3> QED
      BY <2>2, <3>1, <3>2, <3>3 DEF SeedFile
  <2>3. CASE ContainersUp
    <3>1. CASE seed' = seed /\ UNCHANGED services
      BY <3>1, StandingKept
    <3>2. CASE /\ UNCHANGED services
               /\ \E own \in {Unseeded, Unseeded \ {"auth"}} :
                    seed' = [f \in SeedFiles |-> IF f \in own THEN OwnKey ELSE seed[f]]
      <4>1. seed'["auth"] \in {OwnKey, seed["auth"]}
        BY <3>2 DEF SeedFiles
      <4> QED
        BY <3>2, <4>1 DEF MInv, Standing
    <3> QED
      BY <2>3, <3>1, <3>2 DEF ContainersUp, Refuse
  <2>4. CASE Purge
    BY <2>4, StandingEmptied DEF Purge
  <2> QED
    BY <1>3, <2>1, <2>2, <2>3, <2>4 DEF Infrastructure
<1>4. CASE Jellyfin
  <2>1. CASE FirstUser
    <3>1. CASE UNCHANGED services /\ seed' = seed
      BY <3>1, StandingKept
    <3>2. CASE ~UNCHANGED services
      <4>1. /\ password' = [password EXCEPT !["jellyfin"] = input.password]
            /\ UNCHANGED <<seed, nextKey, jellyfinKeys>> /\ Working
        BY <2>1, <3>2 DEF FirstUser, Refuse, Doing, Working
      <4>2. input.password # Nothing
        BY <4>1, InputParts, ProvisioningAssumption DEF MInv, RunIsWhole
      <4> QED
        BY <4>1, <4>2 DEF MInv, Standing, IInv, TypeOK, Administered
    <3> QED
      BY <2>1, <3>1, <3>2 DEF FirstUser, Refuse
  <2>2. CASE CloseWizard
    <3>1. Provisions /\ Plans[plan][at] = <<"closeWizard", "jellyfin">> /\ at \in DOMAIN Plans[plan]
      BY <2>2, ProvisionOnly DEF CloseWizard, Doing
    <3>2. <<"firstUser", "jellyfin">> \in Done
      <4>1. <<"closeWizard", "jellyfin">> \notin HostOps
        BY DEF HostOps, Foundation
      <4> QED
        BY <3>1, <4>1, ApiComesLast, ApiIndex DEF Provisions
    <3> QED
      BY <2>2, <3>1, <3>2 DEF CloseWizard, MInv, Standing, Achieved, MediaAchieved
  <2>3. CASE CreateKey
    <3>1. UNCHANGED <<wizard, password, seed>>
      BY <2>3 DEF CreateKey, Refuse
    <3>2. CASE UNCHANGED <<nextKey, jellyfinKeys>>
      BY <3>1, <3>2, StandingKept
    <3>3. CASE \E n \in 1..(IF RepeatedPosts THEN 2 ELSE 1) :
                   /\ jellyfinKeys' = nextKey..(nextKey + n - 1)
                   /\ nextKey' = nextKey + n
      BY <3>1, <3>3 DEF MInv, Standing, IInv, TypeOK
    <3> QED
      BY <2>3, <3>2, <3>3 DEF CreateKey, Refuse
  <2>4. CASE RotateJellyfin
    BY <2>4, StandingPasswords DEF RotateJellyfin, Doing, Working, IInv, TypeOK
  <2>5. CASE StoreKey \/ FirstScan \/ Encoding \/ PlaybackPolicy
    BY <2>5, StandingKept DEF StoreKey, FirstScan, Encoding, PlaybackPolicy
  <2>6. ASSUME NEW l \in Libraries, AddLibrary(l)
        PROVE  Standing'
    BY <2>6, StandingKept DEF AddLibrary
  <2> QED
    BY <1>4, <2>1, <2>2, <2>3, <2>4, <2>5, <2>6 DEF Jellyfin
<1>5. CASE Automation
  <2>1. ASSUME NEW s, NEW w, NEW fs, Configure(s, w, fs)
        PROVE  Standing'
    BY <2>1, StandingKept DEF Configure
  <2>2. CASE ServerSettings \/ RootFolder \/ MasterProfile \/ Applications \/ Indexers
    BY <2>1, <2>2 DEF ServerSettings, RootFolder, MasterProfile, Applications, Indexers
  <2>3. ASSUME NEW s \in Servarrs, AdminUser(s)
        PROVE  Standing'
    BY <2>3, StandingPasswords DEF AdminUser, Doing, Working, IInv, TypeOK
  <2>4. ASSUME NEW s, DownloadClient(s) \/ EnableClient(s)
                      \/ JellyfinConnection(s) \/ Synchronize(s)
        PROVE  Standing'
    BY <2>4, StandingKept DEF DownloadClient, EnableClient, JellyfinConnection,
       Synchronize, Refuse
  <2>5. CASE BazarrSettings \/ RotateDecypharr
    BY <2>5, StandingPasswords DEF BazarrSettings, RotateDecypharr, Doing, Working,
       IInv, TypeOK
  <2>6. CASE VerifyDecypharr
    BY <2>6, StandingKept DEF VerifyDecypharr, Refuse
  <2> QED
    BY <1>5, <2>2, <2>3, <2>4, <2>5, <2>6 DEF Automation
<1>6. CASE Requests
  <2>1. ASSUME NEW s \in Arrs, SeerrServer(s)
        PROVE  Standing'
    BY <2>1, StandingKept DEF SeerrServer, ConfigureFrom, Refuse
  <2>2. CASE SignIn \/ MainSettings \/ ExternalHostname \/ SeerrLibraries \/ Initialize
    BY <2>2, StandingKept DEF SignIn, MainSettings, ExternalHostname, SeerrLibraries,
       Initialize, ConfigureFrom, Refuse
  <2> QED
    BY <1>6, <2>1, <2>2 DEF Requests
<1>7. CASE Succeed \/ Finished
  BY <1>7, StandingKept DEF Succeed, Finished
<1> QED
  BY <1>1, <1>2, <1>3, <1>4, <1>5, <1>6, <1>7 DEF Next, Operation

-----------------------------------------------------------------------------
(* No step of a run undoes what an earlier one achieved.  First, for each part  *)
(* of Achieved, the operations it speaks of and the variables it reads: no      *)
(* other operation concerns it.                                                *)

MediaOps ==
  {<<"firstUser", "jellyfin">>, <<"closeWizard", "jellyfin">>,
   <<"encoding", "jellyfin">>, <<"policy", "jellyfin">>}
  \cup {<<"library", l>> : l \in Libraries}
KeyOps == {<<"storeKey", "jellyfin">>} \cup {<<"connection", s>> : s \in Arrs}
SettingsOps ==
  {<<w, s>> : w \in CommonSettings, s \in Services}
  \cup {<<"libraries", "seerr">>}
  \cup {<<"server", s>> : s \in Arrs} \cup {<<"enableClient", s>> : s \in Arrs}
CredentialOps ==
  {<<"admin", s>> : s \in Servarrs \cup {"jellyfin"}}
  \cup {<<"rotate", s>> : s \in Administered}
  \cup {<<"defaults", "bazarr">>, <<"firstUser", "jellyfin">>}
RequestsOps == {<<"main", "seerr">>, <<"initialize", "seerr">>}

LEMMA HostKept ==
  ASSUME HostAchieved, NEW op, op \notin Foundation, Done' = Done \cup {op},
         UNCHANGED <<files, seed, stackVars, input>>
  PROVE  HostAchieved'
BY DEF HostAchieved, Foundation, ConfigOf, EnvOf

LEMMA MediaKept ==
  ASSUME MediaAchieved, NEW op, op \notin MediaOps, Done' = Done \cup {op},
         UNCHANGED <<jellyfinVars, input>>
  PROVE  MediaAchieved'
BY DEF MediaAchieved, MediaOps

LEMMA KeyKept ==
  ASSUME KeyAchieved, NEW op, op \notin KeyOps, Done' = Done \cup {op},
         UNCHANGED <<jellyfinKey, jellyfinKeys, arrKey>>
  PROVE  KeyAchieved'
BY DEF KeyAchieved, KeyOps, KeyAccepted

LEMMA SettingsKept ==
  ASSUME SettingsAchieved, NEW op, op \notin SettingsOps, Done' = Done \cup {op},
         static \subseteq static', UNCHANGED client
  PROVE  SettingsAchieved'
BY DEF SettingsAchieved, SettingsOps

\* Setting a password to the one asked for harms no other.
LEMMA CredentialsKept ==
  ASSUME IInv, MInv, Working, CredentialsAchieved, NEW op, op \notin CredentialOps, Done' = Done \cup {op},
         UNCHANGED input,
         "rotate" \in flags' => "rotate" \in flags,
         "wizardWasOpen" \in flags' => "wizardWasOpen" \in flags,
         \A s \in Administered : password'[s] \in {password[s], input.password}
  PROVE  CredentialsAchieved'
<1>1. input.password # Nothing
  BY InputParts, ProvisioningAssumption DEF MInv, RunIsWhole
<1>2. \A s \in Servarrs : s \in Administered
  BY DEF Administered
<1>3. "bazarr" \in Administered /\ "jellyfin" \in Administered /\ "decypharr" \in Administered
  BY DEF Administered
<1> QED
  BY <1>1, <1>2, <1>3 DEF CredentialsAchieved, CredentialOps

LEMMA RequestsKept ==
  ASSUME RequestsAchieved, NEW op, op \notin RequestsOps, Done' = Done \cup {op},
         UNCHANGED <<seerrVars, input>>
  PROVE  RequestsAchieved'
BY DEF RequestsAchieved, RequestsOps

\* A run that has only removed what there was has nothing to keep.
LEMMA NothingAchieved ==
  ASSUME Done' \subseteq {<<"down", "stack">>, <<"purge", "host">>},
         "wizardWasOpen" \notin flags'
  PROVE  Achieved'
<1>1. HostAchieved'
  BY DEF HostAchieved
<1>2. MediaAchieved' /\ KeyAchieved'
  BY DEF MediaAchieved, KeyAchieved
<1>3. SettingsAchieved'
  BY DEF SettingsAchieved, CommonSettings
<1>4. CredentialsAchieved' /\ RequestsAchieved'
  BY DEF CredentialsAchieved, RequestsAchieved
<1> QED
  BY <1>1, <1>2, <1>3, <1>4 DEF Achieved

\* The operations on the host leave the services alone, but for passwords that
\* are seeded.
LEMMA ServicesKept ==
  ASSUME IInv, MInv, Provisions, NEW op \in HostOps, Done' = Done \cup {op},
         UNCHANGED <<static, jellyfinVars, keyVars, arrVars, seerrVars, input>>,
         \A s \in Administered : password'[s] \in {password[s], input.password},
         "rotate" \in flags' => "rotate" \in flags,
         "wizardWasOpen" \in flags' => "wizardWasOpen" \in flags
  PROVE  /\ MediaAchieved' /\ KeyAchieved' /\ SettingsAchieved'
         /\ CredentialsAchieved' /\ RequestsAchieved'
<1>1. op \notin MediaOps \cup KeyOps \cup SettingsOps \cup CredentialOps \cup RequestsOps
  BY DEF HostOps, Foundation, MediaOps, KeyOps, SettingsOps, CredentialOps,
     RequestsOps, CommonSettings
<1> QED
  BY <1>1, MediaKept, KeyKept, SettingsKept, CredentialsKept, RequestsKept
     DEF MInv, Achieved, Provisions

LEMMA InfrastructureAchieves ==
  ASSUME IInv, IInv', MInv, Provisions, Infrastructure, outcome' = "running"
  PROVE  Achieved'
<1>1. /\ HostAchieved /\ Working /\ \A s \in Administered : password[s] = password[s]
      /\ plan \in {"setup", "reset"}
  BY DEF MInv, Achieved, Provisions
<1>2. ASSUME NEW op \in HostOps, Done' = Done \cup {op}, HostAchieved',
             UNCHANGED <<services, input>>,
             flags' \subseteq flags \cup {"markersCreated", "gatewayChanged"}
      PROVE  Achieved'
  BY <1>2, ServicesKept DEF Achieved
<1>3. CASE HostTree
  <2>1. /\ Done' = Done \cup {<<"hostTree", "host">>} /\ input' = input
        /\ flags' \subseteq flags \cup {"markersCreated"}
    BY <1>3, DoneStep DEF HostTree
  <2>2. HostAchieved'
    BY <1>1, <1>3, <2>1 DEF HostTree, HostAchieved, ConfigOf, EnvOf
  <2> QED
    BY <1>2, <1>3, <2>1, <2>2 DEF HostTree, HostOps, Foundation
<1>4. CASE PersistState
  <2>1. Done' = Done \cup {<<"persist", "state">>} /\ input' = input /\ flags' = flags
    BY <1>4, DoneStep DEF PersistState
  <2>2. HostAchieved'
    BY <1>1, <1>4, <2>1 DEF PersistState, HostAchieved, ConfigOf, EnvOf
  <2> QED
    BY <1>2, <1>4, <2>1, <2>2 DEF PersistState, HostOps, Foundation
<1>5. CASE EnsureEnv
  <2>1. Done' = Done \cup {<<"ensureEnv", "env">>} /\ input' = input /\ flags' = flags
    BY <1>5, DoneStep DEF EnsureEnv
  <2>2. serviceKeys' # 0 /\ (serviceKeys # 0 => serviceKeys' = serviceKeys)
    BY <1>5 DEF EnsureEnv, EnsuredServiceKeys
  <2>3. HostAchieved'
    BY <1>1, <1>5, <2>1, <2>2 DEF EnsureEnv, HostAchieved, ConfigOf, EnvOf
  <2> QED
    BY <1>2, <1>5, <2>1, <2>3 DEF EnsureEnv, HostOps, Foundation
<1>6. CASE GatewayConfig
  <2>1. /\ Done' = Done \cup {<<"gatewayConfig", "caddy">>} /\ input' = input
        /\ flags' \subseteq flags \cup {"gatewayChanged"}
    BY <1>6, DoneStep DEF GatewayConfig
  <2>2. HostAchieved'
    BY <1>1, <1>6, <2>1 DEF GatewayConfig, HostAchieved, ConfigOf, EnvOf
  <2> QED
    BY <1>2, <1>6, <2>1, <2>2 DEF GatewayConfig, HostOps, Foundation
<1>7. CASE GatewayReload
  <2>1. Done' = Done \cup {<<"reload", "caddy">>} /\ input' = input /\ flags' = flags
    BY <1>7, DoneStep DEF GatewayReload
  <2>2. HostAchieved'
    BY <1>1, <1>7, <2>1 DEF GatewayReload, HostAchieved, ConfigOf, EnvOf
  <2> QED
    BY <1>2, <1>7, <2>1, <2>2 DEF GatewayReload, HostOps
<1>8. ASSUME NEW f \in SeedFiles, SeedFile(f)
      PROVE  Achieved'
  <2>1. /\ Done' = Done \cup {<<"seed", f>>} /\ input' = input /\ flags' = flags
    BY <1>8, DoneStep DEF SeedFile, Refuse, Break
  <2>2. serviceKeys # 0
    BY <1>1, <1>8, HostOrder DEF SeedFile, Doing, HostAchieved
  <2>3. /\ UNCHANGED <<files, stackVars>> /\ seed'[f] = serviceKeys
        /\ \A g \in SeedFiles : g # f => seed'[g] = seed[g]
    BY <1>8 DEF SeedFile, Refuse, Break, IInv, TypeOK
  <2>4. HostAchieved'
    BY <1>1, <2>1, <2>2, <2>3 DEF HostAchieved, ConfigOf, EnvOf
  <2>5. \A s \in Administered : password'[s] \in {password[s], input.password}
    BY <1>8 DEF SeedFile, Refuse, Break, IInv, TypeOK
  <2>6. UNCHANGED <<static, jellyfinVars, keyVars, arrVars, seerrVars>>
    BY <1>8 DEF SeedFile, Refuse, Break
  <2> QED
    BY <2>1, <2>4, <2>5, <2>6, ServicesKept DEF Achieved, HostOps, Foundation
<1>9. CASE ContainersUp
  <2>1. Done' = Done \cup {<<"up", "stack">>} /\ input' = input /\ flags' = flags
    BY <1>9, DoneStep DEF ContainersUp, Refuse, Break
  <2>2. /\ stack' = "up" /\ UNCHANGED <<files, services>>
        /\ container' = [gpu |-> saved.transcoding = "hardware",
                         domain |-> env.domain, storage |-> env.storage]
        /\ \E own \in {Unseeded, Unseeded \ {"auth"}} :
             seed' = [f \in SeedFiles |-> IF f \in own THEN OwnKey ELSE seed[f]]
    BY <1>9 DEF ContainersUp, Refuse, Break
  <2>3. \A f \in SeedFiles : seed[f] # 0 => seed'[f] = seed[f]
    BY <2>2 DEF Unseeded
  <2>4. <<"persist", "state">> \in Done /\ <<"ensureEnv", "env">> \in Done
    BY <1>1, <1>9, HostOrder DEF ContainersUp, Doing, Foundation
  <2>5. container' = [gpu |-> input.transcoding = "hardware",
                      domain |-> input.domain, storage |-> input.storage]
    BY <1>1, <2>2, <2>4 DEF HostAchieved, ConfigOf, EnvOf
  <2>6. HostAchieved'
    BY <1>1, <2>1, <2>2, <2>3, <2>5 DEF HostAchieved, ConfigOf, EnvOf
  <2> QED
    BY <1>2, <2>1, <2>2, <2>6 DEF HostOps, Foundation
<1>10. CASE ContainersDown
  <2>1. Done' = Done \cup {<<"down", "stack">>} /\ flags' = flags
    BY <1>10, DoneStep DEF ContainersDown
  <2>2. Done \subseteq {<<"down", "stack">>}
    BY <1>1, <1>10, HostOrder DEF ContainersDown, Doing
  <2>3. "wizardWasOpen" \notin flags
    BY <2>2 DEF MInv, Achieved, CredentialsAchieved
  <2> QED
    BY <2>1, <2>2, <2>3, NothingAchieved
<1>11. CASE Purge
  <2>1. Done' = Done \cup {<<"purge", "host">>} /\ flags' = flags
    BY <1>11, DoneStep DEF Purge
  <2>2. Done \subseteq {<<"down", "stack">>}
    BY <1>1, <1>11, HostOrder DEF Purge, Doing
  <2>3. "wizardWasOpen" \notin flags
    BY <2>2 DEF MInv, Achieved, CredentialsAchieved, Provisions
  <2> QED
    BY <2>1, <2>2, <2>3, NothingAchieved
<1> QED
  BY <1>3, <1>4, <1>5, <1>6, <1>7, <1>8, <1>9, <1>10, <1>11 DEF Infrastructure

\* A call to a service comes after the host is complete.
LEMMA ApiStep ==
  ASSUME IInv, MInv, NEW do, NEW on, Doing(do, on), <<do, on>> \notin HostOps, Provisions
  PROVE  /\ Foundation \subseteq Done
         /\ plan = "reset" => <<"purge", "host">> \in Done
         /\ \E k \in 1..42 : /\ <<do, on>> = ApiOps[k]
                             /\ \A j \in 1..(k - 1) : ApiOps[j] \in Done
BY ApiComesLast DEF Doing, Provisions

\* What a call to a service leaves alone is kept.
LEMMA OthersKept ==
  ASSUME IInv, MInv, Provisions, NEW op, op \notin HostOps, Done' = Done \cup {op},
         UNCHANGED <<files, seed, stackVars, input>>
  PROVE  /\ HostAchieved'
         /\ op \notin MediaOps /\ UNCHANGED jellyfinVars => MediaAchieved'
         /\ op \notin KeyOps /\ UNCHANGED <<jellyfinKey, jellyfinKeys, arrKey>> => KeyAchieved'
         /\ op \notin SettingsOps /\ static \subseteq static' /\ UNCHANGED client
              => SettingsAchieved'
         /\ /\ op \notin CredentialOps
            /\ "rotate" \in flags' => "rotate" \in flags
            /\ "wizardWasOpen" \in flags' => "wizardWasOpen" \in flags
            /\ \A s \in Administered : password'[s] \in {password[s], input.password}
            => CredentialsAchieved'
         /\ op \notin RequestsOps /\ UNCHANGED seerrVars => RequestsAchieved'
<1>1. Achieved /\ op \notin Foundation /\ Working
  BY DEF MInv, HostOps, Provisions
<1>2. HostAchieved'
  BY <1>1, HostKept DEF Achieved
<1>3. op \notin MediaOps /\ UNCHANGED jellyfinVars => MediaAchieved'
  BY <1>1, MediaKept DEF Achieved
<1>4. op \notin KeyOps /\ UNCHANGED <<jellyfinKey, jellyfinKeys, arrKey>> => KeyAchieved'
  BY <1>1, KeyKept DEF Achieved
<1>5. op \notin SettingsOps /\ static \subseteq static' /\ UNCHANGED client => SettingsAchieved'
  BY <1>1, SettingsKept DEF Achieved
<1>6. /\ op \notin CredentialOps
      /\ "rotate" \in flags' => "rotate" \in flags
      /\ "wizardWasOpen" \in flags' => "wizardWasOpen" \in flags
      /\ \A s \in Administered : password'[s] \in {password[s], input.password}
      => CredentialsAchieved'
  BY <1>1, CredentialsKept DEF Achieved
<1>7. op \notin RequestsOps /\ UNCHANGED seerrVars => RequestsAchieved'
  BY <1>1, RequestsKept DEF Achieved
<1> QED
  BY <1>2, <1>3, <1>4, <1>5, <1>6, <1>7

\* Which of these each operation on Jellyfin concerns.
LEMMA JellyfinOpsApart ==
  /\ <<"firstUser", "jellyfin">> \notin HostOps \cup KeyOps \cup SettingsOps \cup RequestsOps
  /\ \A do \in {"closeWizard", "encoding", "policy"} :
       <<do, "jellyfin">> \notin HostOps \cup KeyOps \cup SettingsOps
                                 \cup CredentialOps \cup RequestsOps
  /\ \A l \in Libraries :
       <<"library", l>> \notin HostOps \cup KeyOps \cup SettingsOps
                               \cup CredentialOps \cup RequestsOps
  /\ \A do \in {"createKey", "scan"} :
       <<do, "jellyfin">> \notin HostOps \cup MediaOps \cup KeyOps \cup SettingsOps
                                 \cup CredentialOps \cup RequestsOps
  /\ <<"storeKey", "jellyfin">> \notin HostOps \cup MediaOps \cup SettingsOps
                                       \cup CredentialOps \cup RequestsOps
  /\ <<"rotate", "jellyfin">> \notin HostOps \cup MediaOps \cup KeyOps
                                     \cup SettingsOps \cup RequestsOps
BY DEF HostOps, Foundation, MediaOps, KeyOps, SettingsOps, CommonSettings,
   CredentialOps, RequestsOps

LEMMA JellyfinAchieves ==
  ASSUME IInv, IInv', MInv, Provisions, Jellyfin, outcome' = "running"
  PROVE  Achieved'
<1>1. /\ MediaAchieved /\ KeyAchieved /\ CredentialsAchieved
      /\ \A s \in Administered : password[s] = password[s]
  BY DEF MInv, Achieved
<1>2. CASE FirstUser
  <2>1. /\ Done' = Done \cup {<<"firstUser", "jellyfin">>} /\ input' = input
        /\ flags' \in {flags, flags \cup {"wizardWasOpen"}}
    BY <1>2, DoneStep DEF FirstUser, Refuse, Break
  <2>2. /\ UNCHANGED <<files, seed, stackVars, static, keyVars, arrVars, seerrVars>>
        /\ \A s \in Administered : password'[s] \in {password[s], input.password}
        /\ UNCHANGED <<libraries, encoding, policy>>
        /\ wizard' # "open" /\ (wizard = "done" => wizard' = "done")
        /\ flags' # flags => password'["jellyfin"] = input.password
    BY <1>2 DEF FirstUser, Refuse, Break, IInv, TypeOK, Proceed, Administered
  <2>3. MediaAchieved'
    BY <1>1, <2>1, <2>2 DEF MediaAchieved
  <2>4. CredentialsAchieved'
    <3>1. input.password # Nothing
      BY InputParts, ProvisioningAssumption DEF MInv, RunIsWhole, Provisions
    <3> QED
      BY <1>1, <2>1, <2>2, <3>1 DEF CredentialsAchieved, Administered
  <2> QED
    BY <2>1, <2>2, <2>3, <2>4, OthersKept, JellyfinOpsApart DEF Achieved
<1>3. CASE CloseWizard
  <2>1. /\ Done' = Done \cup {<<"closeWizard", "jellyfin">>} /\ input' = input
        /\ flags' = flags
    BY <1>3, DoneStep DEF CloseWizard
  <2>2. MediaAchieved'
    BY <1>1, <1>3, <2>1 DEF CloseWizard, MediaAchieved
  <2> QED
    BY <1>1, <1>3, <2>1, <2>2, OthersKept, JellyfinOpsApart DEF CloseWizard, Achieved
<1>4. CASE CreateKey
  <2>1. /\ Done' = Done \cup {<<"createKey", "jellyfin">>} /\ input' = input
        /\ flags' = flags
    BY <1>4, DoneStep DEF CreateKey, Refuse, Break
  <2>2. /\ UNCHANGED <<files, seed, stackVars, password, static, jellyfinVars,
                       jellyfinKey, arrVars, seerrVars>>
        /\ KeyAccepted => UNCHANGED jellyfinKeys
    BY <1>4 DEF CreateKey, Refuse, Break
  <2>3. KeyAchieved'
    BY <1>1, <2>1, <2>2 DEF KeyAchieved, KeyAccepted
  <2> QED
    BY <1>1, <2>1, <2>2, <2>3, OthersKept, JellyfinOpsApart DEF Achieved
<1>5. CASE StoreKey
  <2>1. /\ Done' = Done \cup {<<"storeKey", "jellyfin">>} /\ input' = input
        /\ flags' = flags
    BY <1>5, DoneStep DEF StoreKey
  <2>2. /\ KeyAccepted' /\ UNCHANGED <<jellyfinKeys, arrKey>>
        /\ KeyAccepted => UNCHANGED jellyfinKey
    BY <1>5 DEF StoreKey, KeyAccepted
  <2>3. KeyAchieved'
    BY <1>1, <2>1, <2>2 DEF KeyAchieved
  <2> QED
    BY <1>1, <1>5, <2>1, <2>3, OthersKept, JellyfinOpsApart DEF StoreKey, Achieved
<1>6. CASE RotateJellyfin
  <2>1. /\ Done' = Done \cup {<<"rotate", "jellyfin">>} /\ input' = input
        /\ flags' = flags
    BY <1>6, DoneStep DEF RotateJellyfin
  <2>2. /\ "rotate" \in flags => password'["jellyfin"] = input.password
        /\ \A s \in Administered : password'[s] \in {password[s], input.password}
    BY <1>1, <1>6 DEF RotateJellyfin, CredentialsAchieved, IInv, TypeOK, Administered
  <2>3. CredentialsAchieved'
    <3>1. input.password # Nothing
      BY InputParts, ProvisioningAssumption DEF MInv, RunIsWhole, Provisions
    <3> QED
      BY <1>1, <2>1, <2>2, <3>1 DEF CredentialsAchieved, Administered
  <2> QED
    BY <1>6, <2>1, <2>2, <2>3, OthersKept, JellyfinOpsApart DEF RotateJellyfin, Achieved
<1>7. ASSUME NEW l \in Libraries, AddLibrary(l)
      PROVE  Achieved'
  <2>1. /\ Done' = Done \cup {<<"library", l>>} /\ input' = input
        /\ flags' \subseteq flags \cup {"createdLibraries"}
    BY <1>7, DoneStep DEF AddLibrary
  <2>2. MediaAchieved'
    BY <1>1, <1>7, <2>1 DEF AddLibrary, MediaAchieved
  <2> QED
    BY <1>1, <1>7, <2>1, <2>2, OthersKept, JellyfinOpsApart DEF AddLibrary, Achieved
<1>8. CASE FirstScan
  <2>1. /\ Done' = Done \cup {<<"scan", "jellyfin">>} /\ input' = input
        /\ flags' = flags
    BY <1>8, DoneStep DEF FirstScan
  <2>2. MediaAchieved'
    BY <1>1, <1>8, <2>1 DEF FirstScan, MediaAchieved
  <2> QED
    BY <1>1, <1>8, <2>1, <2>2, OthersKept, JellyfinOpsApart DEF FirstScan, Achieved
<1>9. CASE Encoding
  <2>1. /\ Done' = Done \cup {<<"encoding", "jellyfin">>} /\ input' = input
        /\ flags' = flags
    BY <1>9, DoneStep DEF Encoding
  <2>2. MediaAchieved'
    BY <1>1, <1>9, <2>1 DEF Encoding, MediaAchieved
  <2> QED
    BY <1>1, <1>9, <2>1, <2>2, OthersKept, JellyfinOpsApart DEF Encoding, Achieved
<1>10. CASE PlaybackPolicy
  <2>1. /\ Done' = Done \cup {<<"policy", "jellyfin">>} /\ input' = input
        /\ flags' = flags
    BY <1>10, DoneStep DEF PlaybackPolicy
  <2>2. MediaAchieved'
    BY <1>1, <1>10, <2>1 DEF PlaybackPolicy, MediaAchieved
  <2> QED
    BY <1>1, <1>10, <2>1, <2>2, OthersKept, JellyfinOpsApart DEF PlaybackPolicy, Achieved
<1> QED
  BY <1>2, <1>3, <1>4, <1>5, <1>6, <1>7, <1>8, <1>9, <1>10 DEF Jellyfin

LEMMA AutomationOpsApart ==
  /\ \A w \in CommonSettings, s \in Services :
       <<w, s>> \notin HostOps \cup MediaOps \cup KeyOps \cup CredentialOps \cup RequestsOps
  /\ \A s \in Servarrs :
       <<"admin", s>> \notin HostOps \cup MediaOps \cup KeyOps \cup SettingsOps \cup RequestsOps
  /\ \A s \in Arrs :
       /\ <<"client", s>> \notin HostOps \cup MediaOps \cup KeyOps \cup SettingsOps
                                 \cup CredentialOps \cup RequestsOps
       /\ <<"enableClient", s>> \notin HostOps \cup MediaOps \cup KeyOps
                                       \cup CredentialOps \cup RequestsOps
       /\ <<"connection", s>> \notin HostOps \cup MediaOps \cup SettingsOps
                                     \cup CredentialOps \cup RequestsOps
  /\ <<"defaults", "bazarr">> \notin HostOps \cup MediaOps \cup KeyOps \cup SettingsOps
                                     \cup RequestsOps
  /\ \A s \in {"prowlarr", "bazarr"} :
       <<"sync", s>> \notin HostOps \cup MediaOps \cup KeyOps \cup SettingsOps
                            \cup CredentialOps \cup RequestsOps
  /\ <<"rotate", "decypharr">> \notin HostOps \cup MediaOps \cup KeyOps \cup SettingsOps
                                      \cup RequestsOps
  /\ <<"verify", "decypharr">> \notin HostOps \cup MediaOps \cup KeyOps \cup SettingsOps
                                      \cup CredentialOps \cup RequestsOps
BY DEF HostOps, Foundation, MediaOps, KeyOps, SettingsOps, CommonSettings,
   CredentialOps, RequestsOps

LEMMA AutomationAchieves ==
  ASSUME IInv, IInv', MInv, Provisions, Automation, outcome' = "running"
  PROVE  Achieved'
<1>1. /\ KeyAchieved /\ SettingsAchieved /\ CredentialsAchieved
      /\ \A s \in Administered : password[s] = password[s]
  BY DEF MInv, Achieved
<1>2. input.password # Nothing
  BY InputParts, ProvisioningAssumption DEF MInv, RunIsWhole, Provisions
<1>3. ASSUME NEW w \in CommonSettings, NEW s \in Services, NEW fs \in SUBSET {"needsSync"},
             Configure(s, w, fs)
      PROVE  Achieved'
  <2>1. /\ Done' = Done \cup {<<w, s>>} /\ input' = input
        /\ flags' \subseteq flags \cup {"needsSync"}
    <3>1. \E fs2 \in {flags, flags \cup fs} : Doing(w, s) /\ Proceed(fs2)
      BY <1>3 DEF Configure
    <3> QED
      BY <3>1, DoneStep
  <2>2. SettingsAchieved'
    <3>1. \A s2 \in Arrs : <<"server", s2>> # <<w, s>> /\ <<"enableClient", s2>> # <<w, s>>
      BY DEF CommonSettings
    <3>2. <<"libraries", "seerr">> # <<w, s>>
      BY DEF CommonSettings
    <3> QED
      BY <1>1, <1>3, <2>1, <3>1, <3>2 DEF Configure, SettingsAchieved
  <2> QED
    BY <1>1, <1>3, <2>1, <2>2, OthersKept, AutomationOpsApart DEF Configure, Achieved
<1>4. CASE ServerSettings \/ RootFolder \/ MasterProfile \/ Applications \/ Indexers
  BY <1>3, <1>4 DEF ServerSettings, RootFolder, MasterProfile, Applications, Indexers,
     CommonSettings, Services, Arrs
<1>5. ASSUME NEW s \in Servarrs, AdminUser(s)
      PROVE  Achieved'
  <2>1. Done' = Done \cup {<<"admin", s>>} /\ input' = input /\ flags' = flags
    BY <1>5, DoneStep DEF AdminUser
  <2>2. /\ password'[s] # Nothing
        /\ "rotate" \in flags => password'[s] = input.password
        /\ \A t \in Administered : password'[t] \in {password[t], input.password}
    BY <1>2, <1>5 DEF AdminUser, CredentialsStale, IInv, TypeOK, Administered
  <2>3. CredentialsAchieved'
    <3>1. \A t : /\ <<"admin", t>> \in Done' <=> <<"admin", t>> \in Done \/ t = s
                 /\ <<"rotate", t>> \in Done' <=> <<"rotate", t>> \in Done
                 /\ <<"defaults", t>> \in Done' <=> <<"defaults", t>> \in Done
                 /\ <<"firstUser", t>> \in Done' <=> <<"firstUser", t>> \in Done
      BY <2>1
    <3>2. \A t \in Servarrs \cup {"jellyfin", "bazarr", "decypharr"} :
            password'[t] \in {password[t], input.password}
      BY <2>2 DEF Administered
    <3> QED
      BY <1>1, <1>2, <2>1, <2>2, <3>1, <3>2 DEF CredentialsAchieved
  <2> QED
    BY <1>5, <2>1, <2>2, <2>3, OthersKept, AutomationOpsApart DEF AdminUser, Achieved
<1>6. ASSUME NEW s \in Arrs, DownloadClient(s)
      PROVE  Achieved'
  <2>1. Done' = Done \cup {<<"client", s>>} /\ input' = input /\ flags' = flags
    BY <1>6, DoneStep DEF DownloadClient
  <2>2. \A t \in Arrs : client[t] = "enabled" => client'[t] = "enabled"
    BY <1>6 DEF DownloadClient, IInv, TypeOK
  <2>3. SettingsAchieved'
    BY <1>1, <1>6, <2>1, <2>2 DEF DownloadClient, SettingsAchieved, CommonSettings
  <2> QED
    BY <1>1, <1>6, <2>1, <2>3, OthersKept, AutomationOpsApart DEF DownloadClient, Achieved
<1>7. ASSUME NEW s \in Arrs, EnableClient(s)
      PROVE  Achieved'
  <2>1. Done' = Done \cup {<<"enableClient", s>>} /\ input' = input /\ flags' = flags
    BY <1>7, DoneStep DEF EnableClient
  <2>2. client'[s] = "enabled" /\ \A t \in Arrs : t # s => client'[t] = client[t]
    BY <1>7 DEF EnableClient, IInv, TypeOK
  <2>3. SettingsAchieved'
    BY <1>1, <1>7, <2>1, <2>2 DEF EnableClient, SettingsAchieved, CommonSettings
  <2> QED
    BY <1>1, <1>7, <2>1, <2>3, OthersKept, AutomationOpsApart DEF EnableClient, Achieved
<1>8. ASSUME NEW s \in Arrs, JellyfinConnection(s)
      PROVE  Achieved'
  <2>1. Done' = Done \cup {<<"connection", s>>} /\ input' = input /\ flags' = flags
    BY <1>8, DoneStep DEF JellyfinConnection, Refuse, Break
  <2>2. /\ arrKey'[s] = jellyfinKey /\ \A t \in Arrs : t # s => arrKey'[t] = arrKey[t]
        /\ UNCHANGED <<files, seed, stackVars, password, static, jellyfinVars,
                       keyVars, client, seerrVars>>
    BY <1>8 DEF JellyfinConnection, Refuse, Break, IInv, TypeOK
  <2>3. <<"storeKey", "jellyfin">> \in Done
    <3>1. Doing("connection", s) /\ <<"connection", s>> \notin HostOps
      BY <1>8, AutomationOpsApart DEF JellyfinConnection
    <3>2. PICK k \in 1..42 : /\ <<"connection", s>> = ApiOps[k]
                             /\ \A j \in 1..(k - 1) : ApiOps[j] \in Done
      BY <3>1, ApiStep
    <3> QED
      BY <3>2, ApiIndex
  <2>4. KeyAchieved'
    BY <1>1, <2>1, <2>2, <2>3 DEF KeyAchieved, KeyAccepted
  <2> QED
    BY <1>1, <2>1, <2>2, <2>4, OthersKept, AutomationOpsApart DEF Achieved
<1>9. CASE BazarrSettings
  <2>1. /\ Done' = Done \cup {<<"defaults", "bazarr">>} /\ input' = input
        /\ flags' \subseteq flags \cup {"defaultsChanged"}
    BY <1>9, DoneStep DEF BazarrSettings
  <2>2. /\ password'["bazarr"] = input.password
        /\ \A t \in Administered : password'[t] \in {password[t], input.password}
    BY <1>9 DEF BazarrSettings, IInv, TypeOK, Administered
  <2>3. CredentialsAchieved'
    BY <1>1, <1>2, <2>1, <2>2 DEF CredentialsAchieved, Administered
  <2> QED
    BY <1>9, <2>1, <2>3, OthersKept, AutomationOpsApart DEF BazarrSettings, Achieved
<1>10. ASSUME NEW s \in {"prowlarr", "bazarr"}, Synchronize(s)
       PROVE  Achieved'
  <2>1. Done' = Done \cup {<<"sync", s>>} /\ input' = input /\ flags' = flags
    BY <1>10, DoneStep DEF Synchronize
  <2> QED
    BY <1>1, <1>10, <2>1, OthersKept, AutomationOpsApart DEF Synchronize, Achieved
<1>11. CASE RotateDecypharr
  <2>1. Done' = Done \cup {<<"rotate", "decypharr">>} /\ input' = input /\ flags' = flags
    BY <1>11, DoneStep DEF RotateDecypharr
  <2>2. /\ "rotate" \in flags /\ input.storage => password'["decypharr"] = input.password
        /\ \A t \in Administered : password'[t] \in {password[t], input.password}
    BY <1>11 DEF RotateDecypharr, IInv, TypeOK, Administered
  <2>3. CredentialsAchieved'
    <3>1. \A t : /\ <<"admin", t>> \in Done' <=> <<"admin", t>> \in Done
                 /\ <<"rotate", t>> \in Done' <=> <<"rotate", t>> \in Done \/ t = "decypharr"
                 /\ <<"defaults", t>> \in Done' <=> <<"defaults", t>> \in Done
                 /\ <<"firstUser", t>> \in Done' <=> <<"firstUser", t>> \in Done
      BY <2>1
    <3>2. \A t \in Servarrs \cup {"jellyfin", "bazarr", "decypharr"} :
            password'[t] \in {password[t], input.password}
      BY <2>2 DEF Administered
    <3>3. "decypharr" \notin Servarrs \cup {"jellyfin", "bazarr"}
      BY DEF Servarrs, Arrs
    <3> QED
      BY <1>1, <1>2, <2>1, <2>2, <3>1, <3>2, <3>3 DEF CredentialsAchieved
  <2> QED
    BY <1>11, <2>1, <2>3, OthersKept, AutomationOpsApart DEF RotateDecypharr, Achieved
<1>12. CASE VerifyDecypharr
  <2>1. /\ Done' = Done \cup {<<"verify", "decypharr">>} /\ input' = input
        /\ flags' = flags /\ UNCHANGED <<files, seed, stackVars, services>>
    BY <1>12, DoneStep DEF VerifyDecypharr, Refuse, Break
  <2> QED
    BY <1>1, <2>1, OthersKept, AutomationOpsApart DEF Achieved
<1> QED
  BY <1>4, <1>5, <1>6, <1>7, <1>8, <1>9, <1>10, <1>11, <1>12 DEF Automation

LEMMA RequestsOpsApart ==
  /\ \A do \in {"signIn", "hostname"} :
       <<do, "seerr">> \notin HostOps \cup MediaOps \cup KeyOps \cup SettingsOps
                              \cup CredentialOps \cup RequestsOps
  /\ \A do \in {"main", "initialize"} :
       <<do, "seerr">> \notin HostOps \cup MediaOps \cup KeyOps \cup SettingsOps
                              \cup CredentialOps
  /\ \A s \in Arrs :
       <<"server", s>> \notin HostOps \cup MediaOps \cup KeyOps
                              \cup CredentialOps \cup RequestsOps
  /\ <<"libraries", "seerr">> \notin HostOps \cup MediaOps \cup KeyOps
                                     \cup CredentialOps \cup RequestsOps
BY DEF HostOps, Foundation, MediaOps, KeyOps, SettingsOps, CommonSettings,
   CredentialOps, RequestsOps

LEMMA RequestsAchieves ==
  ASSUME IInv, IInv', MInv, Provisions, Requests, outcome' = "running"
  PROVE  Achieved'
<1>1. /\ SettingsAchieved /\ RequestsAchieved
      /\ \A s \in Administered : password[s] = password[s]
  BY DEF MInv, Achieved
<1>2. CASE SignIn
  <2>1. Done' = Done \cup {<<"signIn", "seerr">>} /\ input' = input /\ flags' = flags
    BY <1>2, DoneStep DEF SignIn, Refuse, Break
  <2>2. /\ UNCHANGED <<files, seed, stackVars, password, static, jellyfinVars, keyVars,
                       arrVars, seerrUrl>>
        /\ seerr = "ready" => seerr' = "ready"
    BY <1>2 DEF SignIn, Refuse, Break
  <2>3. RequestsAchieved'
    BY <1>1, <2>1, <2>2 DEF RequestsAchieved
  <2> QED
    BY <1>1, <2>1, <2>2, <2>3, OthersKept, RequestsOpsApart DEF Achieved
<1>3. CASE MainSettings
  <2>1. Done' = Done \cup {<<"main", "seerr">>} /\ input' = input /\ flags' = flags
    BY <1>3, DoneStep DEF MainSettings
  <2>2. RequestsAchieved'
    BY <1>1, <1>3, <2>1 DEF MainSettings, RequestsAchieved
  <2> QED
    BY <1>1, <1>3, <2>1, <2>2, OthersKept, RequestsOpsApart DEF MainSettings, Achieved
<1>4. CASE ExternalHostname
  <2>1. Done' = Done \cup {<<"hostname", "seerr">>} /\ input' = input /\ flags' = flags
    BY <1>4, DoneStep DEF ExternalHostname
  <2>2. RequestsAchieved'
    BY <1>1, <1>4, <2>1 DEF ExternalHostname, RequestsAchieved
  <2> QED
    BY <1>1, <1>4, <2>1, <2>2, OthersKept, RequestsOpsApart DEF ExternalHostname, Achieved
<1>5. ASSUME NEW needed, NEW do, NEW on, ConfigureFrom(needed, do, on),
             <<do, on>> \in {<<"libraries", "seerr">>} \cup {<<"server", s>> : s \in Arrs}
      PROVE  Achieved'
  <2>1. /\ Done' = Done \cup {<<do, on>>} /\ input' = input /\ flags' = flags
        /\ static' = static \cup {<<"seerr", on>>}
        /\ UNCHANGED <<files, seed, stackVars, password, jellyfinVars, keyVars,
                       arrVars, seerrVars>>
    BY <1>5, DoneStep DEF ConfigureFrom, Refuse, Break
  <2>2. SettingsAchieved'
    <3>1. \A s \in Services, w \in CommonSettings : <<w, s>> # <<do, on>>
      BY <1>5 DEF CommonSettings
    <3>2. \A s \in Arrs : <<"enableClient", s>> # <<do, on>>
      BY <1>5
    <3> QED
      BY <1>1, <1>5, <2>1, <3>1, <3>2 DEF SettingsAchieved
  <2> QED
    BY <1>1, <1>5, <2>1, <2>2, OthersKept, RequestsOpsApart DEF Achieved
<1>6. CASE SeerrLibraries \/ \E s \in Arrs : SeerrServer(s)
  BY <1>5, <1>6 DEF SeerrLibraries, SeerrServer
<1>7. CASE Initialize
  <2>1. Done' = Done \cup {<<"initialize", "seerr">>} /\ input' = input /\ flags' = flags
    BY <1>7, DoneStep DEF Initialize
  <2>2. RequestsAchieved'
    BY <1>1, <1>7, <2>1 DEF Initialize, RequestsAchieved
  <2> QED
    BY <1>1, <1>7, <2>1, <2>2, OthersKept, RequestsOpsApart DEF Initialize, Achieved
<1> QED
  BY <1>2, <1>3, <1>4, <1>6, <1>7 DEF Requests

LEMMA InitMInv == Init => MInv
<1> SUFFICES ASSUME Init
             PROVE  MInv
  OBVIOUS
<1>1. RunIsWhole /\ ~Provisions
  BY DEF Init, RunIsWhole, Working, Provisions
<1>2. Standing
  BY DEF Init, Standing, SeedFiles
<1> QED
  BY <1>1, <1>2 DEF MInv

LEMMA NextMInv == IInv /\ IInv' /\ MInv /\ [Next]_vars => MInv'
<1> SUFFICES ASSUME IInv, IInv', MInv, [Next]_vars
             PROVE  MInv'
  OBVIOUS
<1>1. CASE UNCHANGED vars
  BY <1>1 DEF MInv, RunIsWhole, Working, Standing, Provisions, Achieved, Done, HostAchieved,
     MediaAchieved, KeyAchieved, KeyAccepted, SettingsAchieved, CredentialsAchieved,
     RequestsAchieved, ConfigOf, EnvOf
<1>2. CASE Next
  <2>1. ASSUME Provisions'
        PROVE  Achieved'
    <3>1. CASE Command
      <4>1. at' = 1 /\ "wizardWasOpen" \notin flags'
        BY <3>1 DEF Command, Setup, SetupRotating, Redeploy, ConfigTranscoding, Reset,
           Start, Stop, Begin
      <4>2. Done' = {}
        BY <4>1 DEF Done
      <4> QED
        BY <4>1, <4>2, NothingAchieved
    <3>2. CASE Infrastructure \/ Jellyfin \/ Automation \/ Requests
      <4>1. Provisions /\ outcome' = "running"
        <5>1. ~\E why : Refuse(why)
          BY <2>1 DEF Refuse, Break, Provisions, Working
        <5> QED
          BY <2>1, <3>2, <5>1, OperationForm DEF Doing, Proceed, Provisions, Working
      <4> QED
        BY <3>2, <4>1, InfrastructureAchieves, JellyfinAchieves, AutomationAchieves,
           RequestsAchieves
    <3>3. CASE Succeed
      <4>1. Achieved
        BY <2>1, <3>3 DEF Succeed, MInv, Provisions, Working
      <4> QED
        BY <3>3, <4>1 DEF Succeed, Achieved, Done, HostAchieved, MediaAchieved,
           KeyAchieved, KeyAccepted, SettingsAchieved, CredentialsAchieved,
           RequestsAchieved, ConfigOf, EnvOf
    <3>4. CASE Failure
      BY <2>1, <3>4 DEF Failure, Fail, HalfSignIn, PurgeStops, Break, Provisions, Working
    <3>5. CASE Finished
      BY <1>1, <2>1, <3>5 DEF Finished, MInv
    <3> QED
      BY <1>2, <3>1, <3>2, <3>3, <3>4, <3>5 DEF Next, Operation
  <2> QED
    BY <1>2, <2>1, RunIsWholeStep, StandingStep DEF MInv
<1> QED
  BY <1>1, <1>2

\* At every operation of a setup or reset, the installation is what the operations
\* before it made it: nothing a step of PROVISIONING_PIPELINE establishes is undone
\* by a later one.
THEOREM Progress == Spec => []MInv
<1> QED
  BY InitMInv, NextMInv, Invariance, PTL DEF Spec

-----------------------------------------------------------------------------
(* What a success means.  *)

\* A run that is through its plan has every operation of it behind it.
LEMMA AllDone ==
  ASSUME MInv, outcome = "success", plan \in {"setup", "reset"}
  PROVE  /\ \A k \in 1..11 : InfrastructureOps[k] \in Done
         /\ \A k \in 1..42 : ApiOps[k] \in Done
<1>1. at = Len(Plans[plan]) + 1
  BY DEF MInv, RunIsWhole
<1>2. CASE plan = "setup"
  <2>1. at = 55
    BY <1>1, <1>2, SetupIndex
  <2>2. \A k \in 1..11 : InfrastructureOps[k] \in Done
    BY <1>2, <2>1, SetupIndex, DoneAt
  <2>3. \A k \in 1..42 : k + 12 \in 13..54 /\ (k + 12) - 12 = k
    OBVIOUS
  <2>4. \A k \in 13..54 : Plans[plan][k] \in Done
    BY <2>1, DoneAt
  <2> QED
    BY <1>2, <2>2, <2>3, <2>4, SetupIndex
<1>3. CASE plan = "reset"
  <2>1. at = 56
    BY <1>1, <1>3, ResetIndex
  <2>2. \A k \in 3..55 : Plans[plan][k] \in Done
    BY <2>1, DoneAt
  <2>3. \A k \in 1..42 : k + 13 \in 14..55 /\ (k + 13) - 13 = k
    OBVIOUS
  <2>4. \A k \in 1..11 : k + 2 \in 3..13 /\ (k + 2) - 2 = k
    OBVIOUS
  <2> QED
    BY <1>3, <2>2, <2>3, <2>4, ResetIndex
<1> QED
  BY <1>2, <1>3

LEMMA ApiOpsAre ==
  /\ {<<"firstUser", "jellyfin">>, <<"closeWizard", "jellyfin">>,
      <<"storeKey", "jellyfin">>, <<"rotate", "jellyfin">>,
      <<"library", "movies">>, <<"library", "tv">>, <<"encoding", "jellyfin">>,
      <<"policy", "jellyfin">>, <<"root", "sonarr">>, <<"root", "radarr">>,
      <<"settings", "sonarr">>, <<"settings", "radarr">>,
      <<"profile", "sonarr">>, <<"profile", "radarr">>,
      <<"enableClient", "sonarr">>, <<"enableClient", "radarr">>,
      <<"connection", "sonarr">>, <<"connection", "radarr">>,
      <<"applications", "prowlarr">>, <<"indexers", "prowlarr">>,
      <<"admin", "sonarr">>, <<"admin", "radarr">>, <<"admin", "prowlarr">>,
      <<"defaults", "bazarr">>, <<"rotate", "decypharr">>,
      <<"main", "seerr">>, <<"libraries", "seerr">>, <<"server", "sonarr">>,
      <<"server", "radarr">>, <<"initialize", "seerr">>}
     \subseteq {ApiOps[k] : k \in 1..42}
BY DEF ApiOps, JellyfinOps, ArrOps, ProfileOps, ProwlarrOps, BazarrOps,
   DecypharrOps, SeerrOps, TranscodingOps, AccessOps

LEMMA SuccessAchieves ==
  ASSUME IInv, MInv, Provisioned
  PROVE  SuccessMeansConfigured /\ ConnectionsUseLiveKey /\ RotationReachesAll
<1>1. /\ outcome = "success" /\ plan \in {"setup", "reset"} /\ Achieved
  BY DEF Provisioned, MInv, Provisions, Working
<1>2. Foundation \subseteq Done
  BY <1>1, AllDone, InfrastructureIsFoundation
<1>3. {ApiOps[k] : k \in 1..42} \subseteq Done
  BY <1>1, AllDone
<1> HIDE DEF Done
<1>4. HostAsAsked
  BY <1>1, <1>2 DEF Achieved, HostAchieved, HostAsAsked, Foundation
<1>5. MediaAsAsked
  BY <1>1, <1>3, ApiOpsAre DEF Achieved, MediaAchieved, MediaAsAsked, Libraries,
     IInv, TypeOK
<1>6. ConnectionsUseLiveKey
  BY <1>1, <1>3, ApiOpsAre DEF Achieved, KeyAchieved, KeyAccepted,
     ConnectionsUseLiveKey, Arrs
<1>7. /\ \A s \in Arrs : client[s] = "enabled"
      /\ \A s \in Arrs, w \in {"settings", "root", "profile"} : <<s, w>> \in static
      /\ \A w \in {"applications", "indexers"} : <<"prowlarr", w>> \in static
      /\ \A s \in Arrs \cup {"seerr"} : <<"seerr", s>> \in static
  BY <1>1, <1>3, ApiOpsAre DEF Achieved, SettingsAchieved, CommonSettings, Services, Arrs
<1>8. \A s \in Administered : password[s] # Nothing
  <2>1. input.password # Nothing
    BY <1>1, InputParts, ProvisioningAssumption DEF MInv, RunIsWhole, Working
  <2>2. password["jellyfin"] # Nothing
    BY <1>1, <1>3, ApiOpsAre DEF Achieved, MediaAchieved, MInv, Standing
  <2>3. \A s \in Servarrs : password[s] # Nothing
    BY <1>1, <1>3, ApiOpsAre DEF Achieved, CredentialsAchieved, Servarrs, Arrs
  <2>4. password["bazarr"] # Nothing
    BY <1>1, <1>3, <2>1, ApiOpsAre DEF Achieved, CredentialsAchieved
  <2>5. password["decypharr"] # Nothing
    <3>1. seed["auth"] = serviceKeys /\ serviceKeys # 0
      BY <1>1, <1>2 DEF Achieved, HostAchieved, Foundation, SeedFiles
    <3> QED
      BY <3>1 DEF MInv, Standing, IInv, TypeOK, OwnKey
  <2> QED
    BY <2>2, <2>3, <2>4, <2>5 DEF Administered
<1>9. AutomationAsAsked
  <2>1. \A s, w : <<s, w>> \in static => <<w, s>> \in {<<e[2], e[1]>> : e \in static}
    OBVIOUS
  <2>2. \A s \in Arrs : {"settings", "root", "profile"} \X {s}
                          \subseteq {<<e[2], e[1]>> : e \in static}
    <3> SUFFICES ASSUME NEW s \in Arrs, NEW w \in {"settings", "root", "profile"}
                 PROVE  <<w, s>> \in {<<e[2], e[1]>> : e \in static}
      OBVIOUS
    <3> QED
      BY <1>7, <2>1
  <2>3. {"applications", "indexers"} \X {"prowlarr"}
          \subseteq {<<e[2], e[1]>> : e \in static}
    <3> SUFFICES ASSUME NEW w \in {"applications", "indexers"}
                 PROVE  <<w, "prowlarr">> \in {<<e[2], e[1]>> : e \in static}
      OBVIOUS
    <3> QED
      BY <1>7, <2>1
  <2> QED
    BY <1>7, <1>8, <2>2, <2>3 DEF AutomationAsAsked
<1>10. RequestsAsAsked
  BY <1>1, <1>3, <1>7, ApiOpsAre DEF Achieved, RequestsAchieved, RequestsAsAsked
<1>11. RotationReachesAll
  <2> SUFFICES ASSUME command = "rotate", NEW s \in Administered,
                      s = "decypharr" => input.storage
               PROVE  password[s] = env.password
    BY DEF RotationReachesAll
  <2>1. env.password = input.password
    BY <1>4 DEF HostAsAsked, EnvOf
  <2>2. "rotate" \in flags
    BY <1>1 DEF MInv, RunIsWhole, Working
  <2>3. CASE s \in Servarrs
    BY <1>1, <1>3, <2>1, <2>2, <2>3, ApiOpsAre
       DEF Achieved, CredentialsAchieved, Servarrs, Arrs
  <2>4. CASE s \in {"jellyfin", "bazarr", "decypharr"}
    BY <1>1, <1>3, <2>1, <2>2, <2>4, ApiOpsAre DEF Achieved, CredentialsAchieved
  <2> QED
    BY <2>3, <2>4 DEF Administered
<1> QED
  BY <1>4, <1>5, <1>6, <1>9, <1>10, <1>11 DEF SuccessMeansConfigured

\* "Run it again" keeps its promise: a setup, redeploy or reset that reports success
\* leaves state file, .env, Caddyfile, seeded files, containers, Jellyfin, Sonarr,
\* Radarr, Prowlarr and Seerr as its input says, whatever earlier runs left behind.
THEOREM SuccessIsConfigured == Spec => []SuccessMeansConfigured
<1>1. IInv /\ MInv => SuccessMeansConfigured
  BY SuccessAchieves DEF SuccessMeansConfigured
<1> QED
  BY <1>1, Invariance, Progress, PTL

\* ensureJellyfinAccess and the Jellyfin connection of Sonarr and Radarr: after a
\* successful provisioning .env holds a key Jellyfin accepts and both servers use
\* that key, even after half a reset or a key that was created and never stored.
THEOREM ConnectionsStayLive == Spec => []ConnectionsUseLiveKey
<1>1. IInv /\ MInv => ConnectionsUseLiveKey
  BY SuccessAchieves DEF ConnectionsUseLiveKey
<1> QED
  BY <1>1, Invariance, Progress, PTL

\* setup --rotate-credentials that reports success has set the password of .env in
\* every service that is deployed.
THEOREM RotationIsComplete == Spec => []RotationReachesAll
<1>1. IInv /\ MInv => RotationReachesAll
  BY SuccessAchieves DEF RotationReachesAll
<1> QED
  BY <1>1, Invariance, Progress, PTL

-----------------------------------------------------------------------------
(* Secrets are saved before they are given to a service.  *)

\* Who changes a password sets the one that .env holds by then; a key is written
\* into a file from .env.
LEMMA SecretsStep ==
  ASSUME IInv, MInv, [Next]_vars
  PROVE  /\ \A s \in Administered :
              password'[s] \notin {password[s], Nothing} =>
                env # Nothing /\ env.password = password'[s]
         /\ \A f \in SeedFiles :
              seed'[f] \notin {seed[f], 0, OwnKey} => seed'[f] = serviceKeys
<1> DEFINE Saved ==
      /\ \A s \in Administered :
           password'[s] \notin {password[s], Nothing} =>
             env # Nothing /\ env.password = password'[s]
      /\ \A f \in SeedFiles :
           seed'[f] \notin {seed[f], 0, OwnKey} => seed'[f] = serviceKeys
<1>1. CASE UNCHANGED <<password, seed>>
  BY <1>1
<1>2. ASSUME NEW do, NEW on, Doing(do, on), Provisions, <<"ensureEnv", "env">> \in Done,
             \A s \in Administered : password'[s] \in {password[s], input.password},
             \A f \in SeedFiles : seed'[f] \in {seed[f], serviceKeys}
      PROVE  Saved
  <2>1. env = EnvOf(input) /\ input \in AllInputs
    BY <1>2 DEF MInv, Achieved, HostAchieved, Provisions, RunIsWhole
  <2>2. env # Nothing
    BY <2>1, InputParts, ProvisioningAssumption
  <2> QED
    BY <1>2, <2>1, <2>2 DEF EnvOf
<1>3. ASSUME NEW S, Emptied(S)
      PROVE  Saved
  BY <1>3 DEF Emptied
<1>4. ASSUME NEW do, NEW on, Doing(do, on), <<do, on>> \notin HostOps,
             \A s \in Administered : password'[s] \in {password[s], input.password},
             UNCHANGED seed,
             <<do, on>> \notin {<<"createKey", "jellyfin">>, <<"storeKey", "jellyfin">>,
                                <<"encoding", "jellyfin">>, <<"policy", "jellyfin">>}
      PROVE  Saved
  <2>1. Provisions
    BY <1>4, ProvisionOnly DEF HostOps, Foundation
  <2>2. <<"ensureEnv", "env">> \in Done
    BY <1>4, <2>1, ApiStep DEF Foundation
  <2> QED
    BY <1>2, <1>4, <2>1, <2>2
<1>5. CASE Command
  BY <1>1, <1>5 DEF Command, Setup, SetupRotating, Redeploy, ConfigTranscoding,
     Reset, Start, Stop, Begin
<1>6. CASE Infrastructure
  <2>1. CASE HostTree \/ PersistState \/ EnsureEnv \/ GatewayConfig \/ GatewayReload
             \/ ContainersDown
    BY <1>1, <2>1 DEF HostTree, PersistState, EnsureEnv, GatewayConfig,
       GatewayReload, ContainersDown
  <2>2. ASSUME NEW f \in SeedFiles, SeedFile(f)
        PROVE  Saved
    <3>1. Provisions
      BY <2>2, ProvisionOnly DEF SeedFile
    <3>2. <<"ensureEnv", "env">> \in Done
      BY <2>2, <3>1, HostOrder DEF SeedFile, Doing, Provisions
    <3>3. CASE UNCHANGED <<password, seed>>
      BY <1>1, <3>3
    <3>4. CASE ~UNCHANGED <<password, seed>>
      BY <1>2, <2>2, <3>1, <3>2, <3>4 DEF SeedFile, Refuse, IInv, TypeOK
    <3> QED
      BY <3>3, <3>4
  <2>3. CASE ContainersUp
    BY <2>3 DEF ContainersUp, Refuse
  <2>4. CASE Purge
    BY <1>3, <2>4 DEF Purge
  <2> QED
    BY <1>6, <2>1, <2>2, <2>3, <2>4 DEF Infrastructure
<1>7. CASE Jellyfin
  <2>1. CASE FirstUser
    <3>1. CASE UNCHANGED <<password, seed>>
      BY <1>1, <3>1
    <3>2. CASE ~UNCHANGED <<password, seed>>
      BY <1>4, <2>1, <3>2, JellyfinOpsApart DEF FirstUser, Refuse, IInv, TypeOK
    <3> QED
      BY <3>1, <3>2
  <2>2. CASE RotateJellyfin
    BY <1>4, <2>2, JellyfinOpsApart DEF RotateJellyfin, IInv, TypeOK
  <2>3. CASE CloseWizard \/ CreateKey \/ StoreKey \/ FirstScan \/ Encoding \/ PlaybackPolicy
    BY <1>1, <2>3 DEF CloseWizard, CreateKey, StoreKey, FirstScan, Encoding,
       PlaybackPolicy, Refuse
  <2>4. CASE \E l \in Libraries : AddLibrary(l)
    BY <1>1, <2>4 DEF AddLibrary
  <2> QED
    BY <1>7, <2>1, <2>2, <2>3, <2>4 DEF Jellyfin
<1>8. CASE Automation
  <2>1. CASE ServerSettings \/ RootFolder \/ MasterProfile \/ Applications \/ Indexers
    BY <1>1, <2>1 DEF ServerSettings, RootFolder, MasterProfile, Applications, Indexers,
       Configure
  <2>2. ASSUME NEW s \in Servarrs, AdminUser(s)
        PROVE  Saved
    BY <1>4, <2>2, AutomationOpsApart DEF AdminUser, IInv, TypeOK
  <2>3. CASE BazarrSettings
    BY <1>4, <2>3, AutomationOpsApart DEF BazarrSettings, IInv, TypeOK
  <2>4. CASE RotateDecypharr
    BY <1>4, <2>4, AutomationOpsApart DEF RotateDecypharr, IInv, TypeOK
  <2>5. CASE VerifyDecypharr
    BY <1>1, <2>5 DEF VerifyDecypharr, Refuse
  <2>6. ASSUME NEW s, DownloadClient(s) \/ EnableClient(s) \/ JellyfinConnection(s)
                      \/ Synchronize(s)
        PROVE  Saved
    BY <1>1, <2>6 DEF DownloadClient, EnableClient, JellyfinConnection, Synchronize, Refuse
  <2> QED
    BY <1>8, <2>1, <2>2, <2>3, <2>4, <2>5, <2>6 DEF Automation
<1>9. CASE Requests
  <2>1. ASSUME NEW needed, NEW do, NEW on, ConfigureFrom(needed, do, on)
        PROVE  UNCHANGED <<password, seed>>
    BY <2>1 DEF ConfigureFrom, Refuse
  <2> QED
    BY <1>1, <1>9, <2>1 DEF Requests, SignIn, MainSettings, ExternalHostname,
       SeerrLibraries, SeerrServer, Initialize, Refuse
<1>10. CASE Failure
  BY <1>1, <1>3, <1>10 DEF Failure, Fail, HalfSignIn, PurgeStops
<1>11. CASE Succeed \/ Finished \/ UNCHANGED vars
  BY <1>1, <1>11 DEF Succeed, Finished
<1> QED
  BY <1>5, <1>6, <1>7, <1>8, <1>9, <1>10, <1>11 DEF Next, Operation

\* persistEnv runs before any client call: at every step of every run, a password a
\* service is given, or a key a seeded file is given, is the one .env already holds.
THEOREM SecretsFirst == Spec => SecretsSavedFirst
<1>1. IInv /\ MInv /\ [Next]_vars =>
        [/\ \A s \in Administered :
              password'[s] \notin {password[s], Nothing} =>
                env # Nothing /\ env.password = password'[s]
         /\ \A f \in SeedFiles :
              seed'[f] \notin {seed[f], 0, OwnKey} => seed'[f] = serviceKeys]_vars
  BY SecretsStep
<1> QED
  BY <1>1, Invariance, Progress, PTL DEF Spec, SecretsSavedFirst

-----------------------------------------------------------------------------
(* What a run could stumble over, and why a reset never does.  *)

\* No seeded file with a key of its own, no administrator with another password,
\* no half-configured Seerr.
Smooth ==
  /\ <<"up", "stack">> \notin Done => \A f \in SeedFiles : seed[f] \in {0, serviceKeys}
  /\ wizard # "open" => password["jellyfin"] = input.password
  /\ seerr # "half"

\* What the calls to services need of the earlier ones comes before them.
LEMMA ApiOrder ==
  /\ ApiOps[13] = <<"enableClient", "sonarr">> /\ ApiOps[19] = <<"enableClient", "radarr">>
  /\ ApiOps[11] = <<"root", "sonarr">> /\ ApiOps[17] = <<"root", "radarr">>
  /\ ApiOps[22] = <<"profile", "sonarr">> /\ ApiOps[23] = <<"profile", "radarr">>
  /\ ApiOps[7] = <<"library", "movies">>
  /\ \A k \in 1..42 :
       /\ ApiOps[k] \in {<<"createKey", "jellyfin">>, <<"signIn", "seerr">>} => k > 1
       /\ ApiOps[k] \in {<<"verify", "decypharr">>, <<"libraries", "seerr">>,
                         <<"server", "sonarr">>, <<"server", "radarr">>} => k > 23
BY DEF ApiOps, JellyfinOps, ArrOps, ProfileOps, ProwlarrOps, BazarrOps,
   DecypharrOps, SeerrOps, TranscodingOps, AccessOps

LEMMA NoRefusal ==
  ASSUME IInv, MInv, Provisions, Infrastructure \/ Jellyfin \/ Automation \/ Requests,
         Smooth \/ Doing("down", "stack") \/ Doing("purge", "host")
  PROVE  ~\E why : Refuse(why)
<1> SUFFICES ASSUME NEW why, Refuse(why)
             PROVE  FALSE
  OBVIOUS
<1>1. /\ Achieved /\ Standing /\ plan \in {"setup", "reset"}
      /\ outcome' = "failed" /\ UNCHANGED <<files, seed, stackVars, services>>
  BY DEF MInv, Refuse, Break, Provisions
<1>2. ASSUME NEW do, NEW on, Doing(do, on), Proceed(flags) \/ \E fs : Proceed(fs)
      PROVE  FALSE
  BY <1>1, <1>2 DEF Doing, Proceed
<1>3. ASSUME NEW do, NEW on, Doing(do, on), <<do, on>> \notin HostOps
      PROVE  /\ Smooth /\ Foundation \subseteq Done
             /\ \E k \in 1..42 : /\ <<do, on>> = ApiOps[k]
                                 /\ \A j \in 1..(k - 1) : ApiOps[j] \in Done
  BY <1>3, ApiStep DEF Doing, HostOps
<1>4. CASE Infrastructure
  <2>1. CASE HostTree \/ PersistState \/ EnsureEnv \/ GatewayConfig \/ GatewayReload
             \/ ContainersDown \/ Purge
    BY <1>2, <2>1 DEF HostTree, PersistState, EnsureEnv, GatewayConfig,
       GatewayReload, ContainersDown, Purge
  <2>2. ASSUME NEW f \in SeedFiles, SeedFile(f)
        PROVE  FALSE
    <3>1. Doing("seed", f) /\ seed[f] \notin {0, serviceKeys}
      BY <1>2, <2>2 DEF SeedFile
    <3>2. Smooth /\ <<"up", "stack">> \notin Done
      BY <1>1, <3>1, HostOrder DEF Doing
    <3> QED
      BY <3>1, <3>2 DEF Smooth
  <2>3. CASE ContainersUp
    <3>1. Doing("up", "stack") /\ (~Installed \/ ~tree)
      BY <1>2, <2>3 DEF ContainersUp
    <3>2. {<<"hostTree", "host">>, <<"persist", "state">>, <<"ensureEnv", "env">>} \subseteq Done
      BY <1>1, <3>1, HostOrder DEF Doing, Foundation
    <3>3. tree /\ saved = ConfigOf(input) /\ env = EnvOf(input) /\ input \in AllInputs
      BY <1>1, <3>2 DEF Achieved, HostAchieved, MInv, RunIsWhole, Provisions
    <3> QED
      BY <3>1, <3>3, InputParts, ProvisioningAssumption DEF Installed
  <2> QED
    BY <1>4, <2>1, <2>2, <2>3 DEF Infrastructure
<1>5. CASE Jellyfin
  <2>1. CASE FirstUser
    <3>1. /\ Doing("firstUser", "jellyfin")
          /\ wizard = "user" /\ password["jellyfin"] # input.password
      BY <1>2, <2>1 DEF FirstUser
    <3> QED
      BY <1>3, <3>1, JellyfinOpsApart DEF Smooth
  <2>2. CASE CreateKey
    <3>1. Doing("createKey", "jellyfin") /\ password["jellyfin"] # input.password
      BY <1>2, <2>2 DEF CreateKey
    <3>2. Smooth /\ <<"firstUser", "jellyfin">> \in Done
      BY <1>3, <3>1, JellyfinOpsApart, ApiIndex, ApiOrder
    <3> QED
      BY <1>1, <3>1, <3>2 DEF Smooth, Achieved, MediaAchieved
  <2>3. CASE CloseWizard \/ StoreKey \/ RotateJellyfin \/ FirstScan \/ Encoding
             \/ PlaybackPolicy
    BY <1>2, <2>3 DEF CloseWizard, StoreKey, RotateJellyfin, FirstScan, Encoding,
       PlaybackPolicy
  <2>4. CASE \E l \in Libraries : AddLibrary(l)
    BY <1>2, <2>4 DEF AddLibrary
  <2> QED
    BY <1>5, <2>1, <2>2, <2>3, <2>4 DEF Jellyfin
<1>6. CASE Automation
  <2>1. ASSUME NEW s, NEW w, NEW fs, Configure(s, w, fs)
        PROVE  FALSE
    BY <1>2, <2>1 DEF Configure
  <2>2. CASE ServerSettings \/ RootFolder \/ MasterProfile \/ Applications \/ Indexers
    BY <2>1, <2>2 DEF ServerSettings, RootFolder, MasterProfile, Applications, Indexers
  <2>3. ASSUME NEW s, AdminUser(s) \/ DownloadClient(s) \/ EnableClient(s) \/ Synchronize(s)
        PROVE  FALSE
    BY <1>2, <2>3 DEF AdminUser, DownloadClient, EnableClient, Synchronize
  <2>4. CASE BazarrSettings \/ RotateDecypharr
    BY <1>2, <2>4 DEF BazarrSettings, RotateDecypharr
  <2>5. ASSUME NEW s \in Arrs, JellyfinConnection(s)
        PROVE  FALSE
    <3>1. Doing("connection", s) /\ jellyfinKey = 0
      BY <1>2, <2>5 DEF JellyfinConnection
    <3>2. PICK k \in 1..42 : /\ <<"connection", s>> = ApiOps[k]
                             /\ \A j \in 1..(k - 1) : ApiOps[j] \in Done
      BY <1>3, <3>1, AutomationOpsApart
    <3>3. <<"storeKey", "jellyfin">> \in Done
      BY <3>2, ApiIndex
    <3> QED
      BY <1>1, <3>1, <3>3 DEF Achieved, KeyAchieved, KeyAccepted, Standing
  <2>6. CASE VerifyDecypharr
    <3>1. Doing("verify", "decypharr") /\ input.storage /\ ~DecypharrSound
      BY <1>2, <2>6 DEF VerifyDecypharr
    <3>2. PICK k \in 1..42 : /\ <<"verify", "decypharr">> = ApiOps[k]
                             /\ \A j \in 1..(k - 1) : ApiOps[j] \in Done
      BY <1>3, <3>1, AutomationOpsApart
    <3>3. \A s \in Arrs : <<"enableClient", s>> \in Done
      BY <3>2, ApiOrder DEF Arrs
    <3>4. <<"seed", "decypharr">> \in Done /\ <<"up", "stack">> \in Done
      BY <1>3, <3>1, AutomationOpsApart DEF Foundation, SeedFiles
    <3>5. /\ seed["decypharr"] = serviceKeys /\ \A s \in Arrs : client[s] = "enabled"
          /\ container = [gpu |-> input.transcoding = "hardware",
                          domain |-> input.domain, storage |-> input.storage]
      BY <1>1, <3>3, <3>4 DEF Achieved, HostAchieved, SettingsAchieved, SeedFiles
    <3>6. container \in Containers
      BY <3>5, InputParts DEF Containers, MInv, RunIsWhole, Provisions
    <3>7. container # Nothing
      BY <3>6, ProvisioningAssumption
    <3> QED
      BY <3>1, <3>5, <3>7 DEF DecypharrSound
  <2> QED
    BY <1>6, <2>2, <2>3, <2>4, <2>5, <2>6 DEF Automation
<1>7. CASE Requests
  <2>1. CASE SignIn
    <3>1. /\ Doing("signIn", "seerr")
          /\ seerr = "half" \/ password["jellyfin"] # input.password
      BY <1>2, <2>1 DEF SignIn
    <3>2. Smooth /\ <<"firstUser", "jellyfin">> \in Done
      BY <1>3, <3>1, RequestsOpsApart, ApiIndex, ApiOrder
    <3> QED
      BY <1>1, <3>1, <3>2 DEF Smooth, Achieved, MediaAchieved
  <2>2. CASE MainSettings \/ ExternalHostname \/ Initialize
    BY <1>2, <2>2 DEF MainSettings, ExternalHostname, Initialize
  <2>3. CASE SeerrLibraries
    <3>1. Doing("libraries", "seerr") /\ libraries = {}
      BY <1>2, <2>3 DEF SeerrLibraries, ConfigureFrom
    <3>2. PICK k \in 1..42 : /\ <<"libraries", "seerr">> = ApiOps[k]
                             /\ \A j \in 1..(k - 1) : ApiOps[j] \in Done
      BY <1>3, <3>1, RequestsOpsApart
    <3>3. <<"library", "movies">> \in Done
      BY <3>2, ApiOrder
    <3> QED
      BY <1>1, <3>1, <3>3 DEF Achieved, MediaAchieved, Libraries
  <2>4. ASSUME NEW s \in Arrs, SeerrServer(s)
        PROVE  FALSE
    <3>1. Doing("server", s) /\ ~({<<s, "profile">>, <<s, "root">>} \subseteq static)
      BY <1>2, <2>4 DEF SeerrServer, ConfigureFrom
    <3>2. PICK k \in 1..42 : /\ <<"server", s>> = ApiOps[k]
                             /\ \A j \in 1..(k - 1) : ApiOps[j] \in Done
      BY <1>3, <3>1, RequestsOpsApart
    <3>3. <<"profile", s>> \in Done /\ <<"root", s>> \in Done
      BY <3>2, ApiOrder DEF Arrs
    <3> QED
      BY <1>1, <3>1, <3>3 DEF Achieved, SettingsAchieved, CommonSettings, Services, Arrs
  <2> QED
    BY <1>7, <2>1, <2>2, <2>3, <2>4 DEF Requests
<1> QED
  BY <1>4, <1>5, <1>6, <1>7

\* An operation is done by a run that works; the purge is the only one of its
\* name.
LEMMA OperationDoes ==
  ASSUME Infrastructure \/ Jellyfin \/ Automation \/ Requests
  PROVE  /\ \E do, on : Doing(do, on)
         /\ Doing("purge", "host") => Purge
         /\ Doing("down", "stack") => ContainersDown
<1>1. CASE Infrastructure
  BY <1>1 DEF Infrastructure, HostTree, PersistState, EnsureEnv, GatewayConfig,
     GatewayReload, SeedFile, ContainersUp, ContainersDown, Purge, Doing
<1>2. CASE Jellyfin
  BY <1>2 DEF Jellyfin, FirstUser, CloseWizard, CreateKey, StoreKey, RotateJellyfin,
     AddLibrary, FirstScan, Encoding, PlaybackPolicy, Doing
<1>3. CASE Automation
  BY <1>3 DEF Automation, ServerSettings, RootFolder, MasterProfile, Applications,
     Indexers, Configure, AdminUser, DownloadClient, EnableClient, JellyfinConnection,
     BazarrSettings, Synchronize, RotateDecypharr, VerifyDecypharr, Doing
<1>4. CASE Requests
  <2>1. ASSUME NEW needed, NEW do, NEW on, ConfigureFrom(needed, do, on)
        PROVE  Doing(do, on)
    BY <2>1 DEF ConfigureFrom
  <2>2. \E do, on : Doing(do, on) /\ do \notin {"purge", "down"}
    <3>1. CASE SignIn \/ MainSettings \/ ExternalHostname \/ Initialize
      BY <3>1 DEF SignIn, MainSettings, ExternalHostname, Initialize
    <3>2. CASE SeerrLibraries
      <4>1. Doing("libraries", "seerr")
        BY <3>2, <2>1 DEF SeerrLibraries
      <4> QED
        BY <4>1
    <3>3. CASE \E s \in Arrs : SeerrServer(s)
      <4>1. PICK s \in Arrs : SeerrServer(s)
        BY <3>3
      <4>2. Doing("server", s)
        BY <4>1, <2>1 DEF SeerrServer
      <4> QED
        BY <4>2
    <3> QED
      BY <1>4, <3>1, <3>2, <3>3 DEF Requests
  <2> QED
    BY <2>2 DEF Doing
<1> QED
  BY <1>1, <1>2, <1>3, <1>4

LEMMA SmoothKept ==
  ASSUME Smooth, UNCHANGED <<seed, serviceKeys, wizard, password, input>>,
         Done \subseteq Done', seerr' # "half"
  PROVE  Smooth'
BY DEF Smooth

LEMMA SmoothStep ==
  ASSUME IInv, MInv, Provisions, Smooth, outcome' = "running",
         Infrastructure \/ Jellyfin \/ Automation \/ Requests,
         ~Doing("purge", "host")
  PROVE  Smooth'
<1>1. \E op : Done' = Done \cup {op} /\ input' = input
  BY OperationForm, DoneStep DEF Refuse, Break
<1>2. ASSUME UNCHANGED <<seed, serviceKeys, wizard, password>>, seerr' # "half"
      PROVE  Smooth'
  BY <1>1, <1>2, SmoothKept
<1>3. ASSUME UNCHANGED <<seed, serviceKeys, wizard, seerr>>,
             password'["jellyfin"] \in {password["jellyfin"], input.password}
      PROVE  Smooth'
  BY <1>1, <1>3 DEF Smooth
<1>4. seerr # "half"
  BY DEF Smooth
<1>5. CASE Infrastructure
  <2>1. CASE HostTree \/ PersistState \/ GatewayConfig \/ GatewayReload \/ ContainersDown
    BY <1>2, <1>4, <2>1 DEF HostTree, PersistState, GatewayConfig, GatewayReload,
       ContainersDown
  <2>2. CASE EnsureEnv
    BY <1>1, <2>2 DEF EnsureEnv, EnsuredServiceKeys, Smooth
  <2>3. ASSUME NEW f \in SeedFiles, SeedFile(f)
        PROVE  Smooth'
    <3>1. /\ UNCHANGED <<serviceKeys, wizard, seerr>>
          /\ \A g \in SeedFiles : seed'[g] \in {seed[g], serviceKeys}
      BY <2>3 DEF SeedFile, Refuse, Break, IInv, TypeOK
    <3>2. password'["jellyfin"] = password["jellyfin"]
      BY <2>3 DEF SeedFile, Refuse, Break, IInv, TypeOK, SeedOwner, Administered
    <3> QED
      BY <1>1, <3>1, <3>2 DEF Smooth
  <2>4. CASE ContainersUp
    <3>1. <<"up", "stack">> \in Done' /\ UNCHANGED <<files, services>>
      BY <2>4, DoneStep DEF ContainersUp, Refuse, Break
    <3> QED
      BY <1>1, <3>1 DEF Smooth
  <2>5. CASE Purge
    BY <2>5 DEF Purge
  <2> QED
    BY <1>5, <2>1, <2>2, <2>3, <2>4, <2>5 DEF Infrastructure
<1>6. CASE Jellyfin
  <2>1. CASE FirstUser
    <3>1. /\ UNCHANGED <<seed, serviceKeys, seerr>>
          /\ \/ UNCHANGED <<wizard, password>>
             \/ password'["jellyfin"] = input.password
      BY <2>1 DEF FirstUser, Refuse, Break, IInv, TypeOK, Administered
    <3> QED
      BY <1>1, <3>1 DEF Smooth
  <2>2. CASE CloseWizard
    <3>1. /\ Doing("closeWizard", "jellyfin")
          /\ UNCHANGED <<seed, serviceKeys, password, seerr>>
      BY <2>2 DEF CloseWizard
    <3>2. wizard # "open"
      BY <3>1, ApiStep, ApiIndex, JellyfinOpsApart DEF MInv, Achieved, MediaAchieved
    <3> QED
      BY <1>1, <3>1, <3>2 DEF Smooth
  <2>3. CASE RotateJellyfin
    BY <1>3, <2>3 DEF RotateJellyfin, IInv, TypeOK, Administered
  <2>4. CASE CreateKey \/ StoreKey \/ FirstScan \/ Encoding \/ PlaybackPolicy
    BY <1>2, <1>4, <2>4 DEF CreateKey, StoreKey, FirstScan, Encoding, PlaybackPolicy,
       Refuse
  <2>5. CASE \E l \in Libraries : AddLibrary(l)
    BY <1>2, <1>4, <2>5 DEF AddLibrary
  <2> QED
    BY <1>6, <2>1, <2>2, <2>3, <2>4, <2>5 DEF Jellyfin
<1>7. CASE Automation
  <2>1. CASE ServerSettings \/ RootFolder \/ MasterProfile \/ Applications \/ Indexers
    BY <1>2, <1>4, <2>1 DEF ServerSettings, RootFolder, MasterProfile, Applications,
       Indexers, Configure
  <2>2. ASSUME NEW s \in Servarrs, AdminUser(s)
        PROVE  Smooth'
    BY <1>3, <2>2 DEF AdminUser, IInv, TypeOK, Administered
  <2>3. ASSUME NEW s, DownloadClient(s) \/ EnableClient(s) \/ JellyfinConnection(s)
                      \/ Synchronize(s)
        PROVE  Smooth'
    BY <1>2, <1>4, <2>3 DEF DownloadClient, EnableClient, JellyfinConnection,
       Synchronize, Refuse
  <2>4. CASE BazarrSettings \/ RotateDecypharr
    BY <1>3, <2>4 DEF BazarrSettings, RotateDecypharr, IInv, TypeOK, Administered
  <2>5. CASE VerifyDecypharr
    BY <1>2, <1>4, <2>5 DEF VerifyDecypharr, Refuse
  <2> QED
    BY <1>7, <2>1, <2>2, <2>3, <2>4, <2>5 DEF Automation
<1>8. CASE Requests
  <2>1. UNCHANGED <<seed, serviceKeys, wizard, password>> /\ seerr' # "half"
    <3>1. ASSUME NEW needed, NEW do, NEW on, ConfigureFrom(needed, do, on)
          PROVE  UNCHANGED <<seed, serviceKeys, wizard, password, seerr>>
      BY <3>1 DEF ConfigureFrom, Refuse
    <3> QED
      BY <1>4, <1>8, <3>1 DEF Requests, SignIn, MainSettings, ExternalHostname,
         SeerrLibraries, SeerrServer, Initialize, Refuse
  <2> QED
    BY <1>2, <2>1
<1> QED
  BY <1>5, <1>6, <1>7, <1>8

LEMMA PurgeMakesSmooth ==
  ASSUME IInv, Purge
  PROVE  Smooth'
BY DEF Purge, Emptied, Smooth, Services, SeedFiles, SeedOwner, Servarrs, Arrs

-----------------------------------------------------------------------------
(* reset --fresh.  *)

ResetInv ==
  /\ ResetNeverStuck
  /\ Provisions /\ <<"purge", "host">> \in Done => Smooth

LEMMA NextResetInv == IInv /\ IInv' /\ MInv /\ ResetInv /\ [Next]_vars => ResetInv'
<1> SUFFICES ASSUME IInv, IInv', MInv, ResetInv, [Next]_vars
             PROVE  ResetInv'
  OBVIOUS
<1>1. CASE UNCHANGED vars
  BY <1>1 DEF ResetInv, ResetNeverStuck, Provisions, Working, Done, Smooth
<1>2. CASE Command
  <2>1. at' = 1 /\ outcome' = "running"
    BY <1>2 DEF Command, Setup, SetupRotating, Redeploy, ConfigTranscoding, Reset,
       Start, Stop, Begin
  <2>2. Done' = {}
    BY <2>1 DEF Done
  <2> QED
    BY <2>1, <2>2 DEF ResetInv, ResetNeverStuck
<1>3. CASE Infrastructure \/ Jellyfin \/ Automation \/ Requests
  <2>1. outcome = "running" /\ Working
    BY <1>3, OperationDoes DEF Doing, Working
  <2>2. ASSUME NEW why, Refuse(why)
        PROVE  ResetInv'
    <3>1. command # "reset"
      <4> SUFFICES ASSUME command = "reset"
                   PROVE  FALSE
        OBVIOUS
      <4>1. plan = "reset" /\ Provisions /\ at >= 1
        BY <2>1 DEF MInv, RunIsWhole, Provisions
      <4>2. PICK do, on : Doing(do, on)
        BY <1>3, OperationDoes
      <4>3. at \in 1..55 /\ Plans["reset"][at] = <<do, on>>
        BY <4>1, <4>2, ResetIndex DEF Doing
      <4>4. CASE at \in 1..2
        BY <1>3, <2>2, <4>1, <4>2, <4>3, <4>4, NoRefusal, ResetIndex DEF Doing
      <4>5. CASE at > 2
        <5>1. <<"purge", "host">> \in Done
          BY <4>1, <4>3, <4>5, ResetIndex, DoneAt
        <5> QED
          BY <1>3, <2>2, <4>1, <5>1, NoRefusal DEF ResetInv
      <4> QED
        BY <4>3, <4>4, <4>5
    <3> QED
      BY <2>2, <3>1 DEF Refuse, Break, ResetInv, ResetNeverStuck, Provisions, Working
  <2>3. CASE ~\E why : Refuse(why)
    <3>1. PICK do, on, fs : Doing(do, on) /\ Proceed(fs)
      BY <1>3, <2>3, OperationForm
    <3>2. /\ Done' = Done \cup {<<do, on>>} /\ outcome' = "running" /\ plan' = plan
      BY <2>1, <3>1, DoneStep
    <3>3. ASSUME Provisions, Provisions', <<"purge", "host">> \in Done'
          PROVE  Smooth'
      <4>1. CASE Doing("purge", "host")
        <5>1. Purge
          BY <1>3, <4>1, OperationDoes
        <5> QED
          BY <5>1, PurgeMakesSmooth
      <4>2. CASE ~Doing("purge", "host")
        <5>1. <<"purge", "host">> \in Done
          BY <3>1, <3>2, <3>3, <4>2
        <5> QED
          BY <1>3, <3>2, <3>3, <4>2, <5>1, SmoothStep DEF ResetInv
      <4> QED
        BY <4>1, <4>2
    <3>4. Provisions' => Provisions
      BY <2>1, <3>2 DEF Provisions
    <3> QED
      BY <3>2, <3>3, <3>4 DEF ResetInv, ResetNeverStuck
  <2> QED
    BY <2>2, <2>3
<1>4. CASE Succeed
  BY <1>4 DEF Succeed, ResetInv, ResetNeverStuck, Provisions, Working, Done, Smooth
<1>5. CASE Failure
  BY <1>5 DEF Failure, Fail, HalfSignIn, PurgeStops, Break, ResetInv, ResetNeverStuck,
     Provisions, Working
<1> QED
  BY <1>1, <1>2, <1>3, <1>4, <1>5 DEF Next, Operation, Finished

\* reset --fresh never throws an error of its own: the files, keys, administrators
\* and half sign-ins of earlier runs are gone before a step could trip over them.
THEOREM ResetIsNeverStuck == Spec => []ResetNeverStuck
<1>1. Init => ResetInv
  BY DEF Init, ResetInv, ResetNeverStuck, Provisions, Working
<1>2. ResetInv => ResetNeverStuck
  BY DEF ResetInv
<1> QED
  BY <1>1, <1>2, NextResetInv, Invariance, Progress, PTL DEF Spec

-----------------------------------------------------------------------------
(* One password all along, Seerr keeps nothing of a sign-in that failed, and   *)
(* the containers are only started by a run that has seeded the services.      *)

Regular ==
  /\ \A a, b \in Passwords : a = b
  /\ ~HalfSignIns
  /\ Commands \cap {"start", "config"} = {}

RegularInv ==
  /\ OnlyFaultsFail
  /\ seerr # "half"
  /\ \A f \in SeedFiles : seed[f] # OwnKey
  /\ Working => plan \in {"setup", "reset", "stop"}

\* Nothing is left to stumble over.
LEMMA RegularIsSmooth ==
  ASSUME Regular, IInv, MInv, RegularInv, Provisions
  PROVE  Smooth
<1>1. \A f \in SeedFiles : seed[f] \in {0, serviceKeys}
  BY DEF IInv, SeedsHoldServiceKeys, RegularInv
<1>2. wizard # "open" => password["jellyfin"] = input.password
  <2>1. input.password \in Passwords
    BY InputParts DEF MInv, RunIsWhole, Provisions
  <2>2. password["jellyfin"] \in Passwords \cup {Nothing}
    BY DEF IInv, TypeOK, Administered
  <2> QED
    BY <2>1, <2>2 DEF MInv, Standing, Regular
<1> QED
  BY <1>1, <1>2 DEF Smooth, RegularInv

\* A stop can always stop; the other runs are smooth.
LEMMA RegularNoRefusal ==
  ASSUME Regular, IInv, MInv, RegularInv,
         Infrastructure \/ Jellyfin \/ Automation \/ Requests
  PROVE  ~\E why : Refuse(why)
<1>1. PICK do, on : Doing(do, on)
  BY OperationDoes
<1>2. Working
  BY <1>1 DEF Doing, Working
<1>3. CASE plan = "stop"
  <2>1. Doing("down", "stack")
    BY <1>1, <1>3 DEF Doing, Plans
  <2> QED
    BY <2>1, OperationDoes DEF ContainersDown, Proceed, Doing, Refuse, Break
<1>4. CASE Provisions
  BY <1>4, NoRefusal, RegularIsSmooth
<1> QED
  BY <1>2, <1>3, <1>4 DEF RegularInv, Provisions

\* Whoever starts the containers has seeded every service.
LEMMA NoOwnKey ==
  ASSUME Regular, IInv, MInv, RegularInv,
         Infrastructure \/ Jellyfin \/ Automation \/ Requests
  PROVE  seerr' # "half" /\ \A f \in SeedFiles : seed'[f] # OwnKey
<1>1. serviceKeys # OwnKey
  BY DEF IInv, TypeOK, OwnKey
<1>2. CASE Infrastructure
  <2>1. CASE HostTree \/ PersistState \/ GatewayConfig \/ GatewayReload
             \/ ContainersDown \/ EnsureEnv
    BY <2>1 DEF HostTree, PersistState, GatewayConfig, GatewayReload,
       ContainersDown, EnsureEnv, RegularInv
  <2>2. ASSUME NEW f \in SeedFiles, SeedFile(f)
        PROVE  seerr' # "half" /\ \A g \in SeedFiles : seed'[g] # OwnKey
    BY <1>1, <2>2 DEF SeedFile, Refuse, RegularInv, IInv, TypeOK
  <2>3. CASE ContainersUp
    <3>1. Doing("up", "stack") /\ seerr' = seerr
      BY <2>3 DEF ContainersUp, Refuse
    <3>2. Provisions
      <4>1. plan # "stop"
        BY <3>1 DEF Doing, Plans
      <4> QED
        BY <3>1, <4>1 DEF RegularInv, Doing, Provisions, Working
    <3>3. \A f \in SeedFiles : seed[f] # 0
      <4>1. \A f \in SeedFiles : <<"seed", f>> \in Done
        <5>1. Foundation \ {<<"up", "stack">>} \subseteq Done
          BY <3>1, <3>2, HostOrder DEF Provisions, Doing
        <5> QED
          BY <5>1 DEF Foundation
      <4> QED
        BY <3>2, <4>1 DEF MInv, Achieved, HostAchieved
    <3>4. Unseeded = {}
      BY <3>3 DEF Unseeded
    <3>5. \A f \in SeedFiles : seed'[f] = seed[f]
      BY <2>3, <3>4 DEF ContainersUp, Refuse
    <3> QED
      BY <3>1, <3>5 DEF RegularInv
  <2>4. CASE Purge
    BY <2>4 DEF Purge, Emptied, Services, SeedOwner, SeedFiles, Servarrs, Arrs, OwnKey
  <2> QED
    BY <1>2, <2>1, <2>2, <2>3, <2>4 DEF Infrastructure
<1>3. CASE Jellyfin \/ Automation \/ Requests
  <2>1. Provisions => Smooth
    BY RegularIsSmooth
  <2>2. CASE Jellyfin
    BY <2>2 DEF Jellyfin, FirstUser, CloseWizard, CreateKey, StoreKey,
       RotateJellyfin, AddLibrary, FirstScan, Encoding, PlaybackPolicy, Refuse,
       RegularInv
  <2>3. CASE Automation
    BY <2>3 DEF Automation, ServerSettings, RootFolder, MasterProfile, Applications,
       Indexers, Configure, AdminUser, DownloadClient, EnableClient,
       JellyfinConnection, BazarrSettings, Synchronize, RotateDecypharr,
       VerifyDecypharr, Refuse, RegularInv
  <2>4. CASE Requests
    <3>1. ASSUME NEW needed, NEW do, NEW on, ConfigureFrom(needed, do, on)
          PROVE  UNCHANGED <<seed, seerr>>
      BY <3>1 DEF ConfigureFrom, Refuse
    <3> QED
      BY <2>4, <3>1 DEF Requests, SignIn, MainSettings, ExternalHostname,
         SeerrLibraries, SeerrServer, Initialize, Refuse, RegularInv
  <2> QED
    BY <1>3, <2>2, <2>3, <2>4
<1> QED
  BY <1>2, <1>3

LEMMA NextRegularInv ==
  Regular /\ IInv /\ MInv /\ RegularInv /\ [Next]_vars => RegularInv'
<1> SUFFICES ASSUME Regular, IInv, MInv, RegularInv, [Next]_vars
             PROVE  RegularInv'
  OBVIOUS
<1>1. CASE UNCHANGED vars
  BY <1>1 DEF RegularInv, OnlyFaultsFail, Working
<1>2. CASE Command
  <2>1. ASSUME NEW c, NEW p, NEW i, NEW fs, Begin(c, p, i, fs),
               c \notin {"start", "config"} => p \in {"setup", "reset", "stop"}
        PROVE  RegularInv'
    BY <2>1 DEF Begin, RegularInv, OnlyFaultsFail, Working, Regular
  <2> QED
    BY <1>2, <2>1 DEF Command, Setup, SetupRotating, Redeploy, ConfigTranscoding,
       Reset, Start, Stop
<1>3. CASE Infrastructure \/ Jellyfin \/ Automation \/ Requests
  <2>1. seerr' # "half" /\ \A f \in SeedFiles : seed'[f] # OwnKey
    BY <1>3, NoOwnKey
  <2>2. PICK do, on, fs : Doing(do, on) /\ Proceed(fs)
    BY <1>3, RegularNoRefusal, OperationForm
  <2> QED
    BY <2>1, <2>2 DEF RegularInv, OnlyFaultsFail, Doing, Proceed, Working
<1>4. CASE Succeed
  BY <1>4 DEF Succeed, RegularInv, OnlyFaultsFail, Working
<1>5. CASE Failure
  <2>1. CASE Fail
    BY <2>1 DEF Fail, Break, RegularInv, OnlyFaultsFail, Working
  <2>2. CASE HalfSignIn
    BY <2>2 DEF HalfSignIn, Regular
  <2>3. CASE PurgeStops
    BY <2>3 DEF PurgeStops, Break, Emptied, RegularInv, OnlyFaultsFail, Working, OwnKey
  <2> QED
    BY <1>5, <2>1, <2>2, <2>3 DEF Failure
<1> QED
  BY <1>1, <1>2, <1>3, <1>4, <1>5 DEF Next, Operation, Finished

\* When the password never changes, Seerr forgets failed sign-ins, and containers
\* are only started by setup, redeploy or reset, no run fails because of what an
\* interrupted one left behind.
THEOREM OnlyFaultsStopRuns ==
  ASSUME Regular
  PROVE  Spec => []OnlyFaultsFail
<1>1. Init => RegularInv
  BY DEF Init, RegularInv, OnlyFaultsFail, Working, OwnKey
<1>2. RegularInv => OnlyFaultsFail
  BY DEF RegularInv
<1>3. IInv /\ MInv /\ RegularInv /\ [Next]_vars => RegularInv'
  BY NextRegularInv
<1> QED
  BY <1>1, <1>2, <1>3, Invariance, Progress, PTL DEF Spec

-----------------------------------------------------------------------------
(* The domain Caddy serves, when the administrator never changes it.  *)

\* Whatever knows the domain knows that one, and a running Caddy that has a file
\* has loaded it.
OnlyDomain(d) ==
  /\ Working => input.domain = d
  /\ saved # Nothing => saved.domain = d
  /\ caddyfile \in {d, Nothing} /\ caddyLoaded \in {d, Nothing}
  /\ stack = "up" /\ caddyfile # Nothing => caddyLoaded = caddyfile

\* A step that only goes on or breaks off leaves the domain alone.
LEMMA DomainKept ==
  ASSUME NEW d, OnlyDomain(d),
         \/ \E fs : Proceed(fs)
         \/ \E why : Break(why),
         outcome = "running", UNCHANGED <<saved, caddyfile, caddyLoaded, stack>>
  PROVE  OnlyDomain(d)'
BY DEF OnlyDomain, Proceed, Break, Working

LEMMA CallKeepsDomain ==
  ASSUME NEW d, OnlyDomain(d), Jellyfin \/ Automation \/ Requests
  PROVE  OnlyDomain(d)'
<1>1. Infrastructure \/ Jellyfin \/ Automation \/ Requests
  OBVIOUS
<1>2. (\E why : Break(why)) \/ (\E fs : Proceed(fs))
  BY <1>1, OperationForm DEF Refuse
<1>3. CASE Jellyfin
  <2>1. UNCHANGED <<saved, caddyfile, caddyLoaded, stack>> /\ outcome = "running"
    BY <1>3 DEF Jellyfin, FirstUser, CloseWizard, CreateKey, StoreKey, RotateJellyfin,
       AddLibrary, FirstScan, Encoding, PlaybackPolicy, Refuse, Doing, files, stackVars
  <2> QED
    BY <1>2, <2>1, DomainKept
<1>4. CASE Automation
  <2>1. UNCHANGED <<saved, caddyfile, caddyLoaded, stack>> /\ outcome = "running"
    BY <1>4 DEF Automation, ServerSettings, RootFolder, MasterProfile, Applications,
       Indexers, Configure, AdminUser, DownloadClient, EnableClient, JellyfinConnection,
       BazarrSettings, Synchronize, RotateDecypharr, VerifyDecypharr, Refuse, Doing,
       files, stackVars
  <2> QED
    BY <1>2, <2>1, DomainKept
<1>5. CASE Requests
  <2>1. UNCHANGED <<saved, caddyfile, caddyLoaded, stack>> /\ outcome = "running"
    BY <1>5 DEF Requests, SignIn, MainSettings, ExternalHostname, SeerrLibraries,
       SeerrServer, ConfigureFrom, Initialize, Refuse, Doing, files, stackVars
  <2> QED
    BY <1>2, <2>1, DomainKept
<1> QED
  BY <1>3, <1>4, <1>5

LEMMA InfrastructureKeepsDomain ==
  ASSUME IInv, NEW d, OnlyDomain(d), Infrastructure
  PROVE  OnlyDomain(d)'
<1> USE DEF OnlyDomain, Working
<1>1. CASE HostTree
  BY <1>1, DomainKept DEF HostTree, Doing, stackVars
<1>2. CASE PersistState
  <2>1. saved'.domain = input.domain /\ input.domain = d
    BY <1>2 DEF PersistState, ConfigOf, Doing
  <2> QED
    BY <1>2, <2>1 DEF PersistState, Proceed, Doing, stackVars
<1>3. CASE EnsureEnv
  BY <1>3, DomainKept DEF EnsureEnv, Doing, stackVars
<1>4. CASE GatewayConfig
  <2>1. input.domain = d
    BY <1>4 DEF GatewayConfig, Doing
  <2> QED
    BY <1>4, <2>1 DEF GatewayConfig, Proceed
<1>5. CASE GatewayReload
  BY <1>5 DEF GatewayReload, Proceed, files
<1>6. ASSUME NEW f \in SeedFiles, SeedFile(f)
      PROVE  OnlyDomain(d)'
  <2>1. UNCHANGED <<saved, caddyfile, caddyLoaded, stack>> /\ outcome = "running"
    BY <1>6 DEF SeedFile, Refuse, Doing, files, stackVars
  <2>2. (\E why : Break(why)) \/ (\E fs : Proceed(fs))
    BY <1>6 DEF SeedFile, Refuse
  <2> QED
    BY <2>1, <2>2, DomainKept
<1>7. CASE ContainersUp
  <2>1. CASE \E why : Refuse(why)
    <3>1. outcome = "running" /\ UNCHANGED <<saved, caddyfile, caddyLoaded, stack>>
      BY <1>7, <2>1 DEF ContainersUp, Doing, Refuse, files, stackVars
    <3> QED
      BY <2>1, <3>1, DomainKept DEF Refuse
  <2>2. CASE /\ Proceed(flags) /\ UNCHANGED files
             /\ \/ caddyLoaded' = caddyfile
                \/ caddyLoaded' = caddyLoaded /\ stack = "up"
    BY <2>2 DEF Proceed, files
  <2> QED
    BY <1>7, <2>1, <2>2 DEF ContainersUp
<1>8. CASE ContainersDown
  BY <1>8 DEF ContainersDown, Proceed, files
<1>9. CASE Purge
  BY <1>9 DEF Purge, Emptied, Services, Proceed, stackVars
<1> QED
  BY <1>1, <1>2, <1>3, <1>4, <1>5, <1>6, <1>7, <1>8, <1>9 DEF Infrastructure

LEMMA NextKeepsDomain ==
  ASSUME NEW d, \A i \in Inputs : i.domain = d, IInv, OnlyDomain(d), [Next]_vars
  PROVE  OnlyDomain(d)'
<1>1. CASE UNCHANGED vars
  BY <1>1 DEF vars, process, files, stackVars, OnlyDomain, Working
<1>2. CASE Command
  <2>1. ASSUME NEW c, NEW p, NEW i, NEW fs, Begin(c, p, i, fs), i.domain = d
        PROVE  OnlyDomain(d)'
    BY <2>1 DEF Begin, OnlyDomain, Working, files, stackVars
  <2>2. CASE Setup \/ SetupRotating
    BY <2>1, <2>2 DEF Setup, SetupRotating
  <2>3. CASE Redeploy \/ ConfigTranscoding \/ Reset \/ Start \/ Stop
    <3>1. \A mode : SavedInput(mode).domain = d
      BY <2>3 DEF Redeploy, ConfigTranscoding, Reset, Start, Stop, Installed,
         SavedInput, OnlyDomain
    <3> QED
      BY <2>1, <2>3, <3>1 DEF Redeploy, ConfigTranscoding, Reset, Start, Stop
  <2> QED
    BY <1>2, <2>2, <2>3 DEF Command
<1>3. CASE Infrastructure
  BY <1>3, InfrastructureKeepsDomain
<1>4. CASE Jellyfin \/ Automation \/ Requests
  BY <1>4, CallKeepsDomain
<1>5. CASE Succeed
  BY <1>5 DEF Succeed, OnlyDomain, Working, files, stackVars
<1>6. CASE Fail \/ HalfSignIn
  <2>1. /\ outcome = "running" /\ \E why : Break(why)
        /\ UNCHANGED <<saved, caddyfile, caddyLoaded, stack>>
    BY <1>6 DEF Fail, HalfSignIn, Doing, files, stackVars
  <2> QED
    BY <2>1, DomainKept
<1>7. CASE PurgeStops
  <2>1. PICK kept \in Remnants : Emptied(Services \ kept)
    BY <1>7 DEF PurgeStops
  <2>2. caddyfile' \in {caddyfile, Nothing} /\ UNCHANGED <<saved, stack, caddyLoaded>>
    BY <2>1 DEF Emptied, stackVars
  <2>3. outcome' = "failed"
    BY <1>7 DEF PurgeStops, Break
  <2> QED
    BY <2>2, <2>3 DEF OnlyDomain, Working
<1>8. CASE Finished
  BY <1>1, <1>8 DEF Finished
<1> QED
  BY <1>1, <1>2, <1>3, <1>4, <1>5, <1>6, <1>7, <1>8 DEF Next, Operation, Failure

\* The reload of gateway-reload.step.ts is skipped unless the same run wrote the
\* Caddyfile, which loses a new domain when a setup stops between the two.  As long
\* as the domain stays nothing is lost: whatever was purged, stopped or interrupted,
\* Caddy serves the file of a provisioning that reports success.
THEOREM GatewayInOneDomain ==
  ASSUME NEW d, \A i \in Inputs : i.domain = d
  PROVE  Spec => []GatewayServesConfig
<1>1. Init => OnlyDomain(d)
  BY DEF Init, OnlyDomain, Working
<1>2. IInv /\ OnlyDomain(d) /\ [Next]_vars => OnlyDomain(d)'
  BY NextKeepsDomain
<1>3. SuccessMeansConfigured /\ OnlyDomain(d) => GatewayServesConfig
  <2>1. d # Nothing
    BY ProvisioningAssumption DEF Domains
  <2> QED
    BY <2>1 DEF SuccessMeansConfigured, HostAsAsked, OnlyDomain, GatewayServesConfig,
       Provisioned, Working
<1> QED
  BY <1>1, <1>2, <1>3, Invariance, SuccessIsConfigured, PTL DEF Spec

=============================================================================
