------------------------------ MODULE SetupInput ------------------------------
(***************************************************************************)
(* How `moody-blues setup` comes to its configuration and its secrets       *)
(* (setup-sources.loader.ts, setup-input.resolver.ts, setup.questions.ts,   *)
(* config.schema.ts): the layers of values, what each overrides, what is    *)
(* missing or invalid, and the questions of the wizard.                     *)
(*                                                                          *)
(* A layer gives every field a value, Undefined, or Blank (written down     *)
(* without a value).                                                        *)
(*                                                                          *)
(* A definition marked `mutant` is a faulty variant of the next one, used   *)
(* only to check that the properties can fail.                              *)
(***************************************************************************)
EXTENDS Integers, Sequences

CONSTANTS
  Domains,        \* names DOMAIN_PATTERN and the schema accept
  Emails,         \* addresses the schema accepts
  LooseEmails     \* addresses EMAIL_PATTERN accepts and the schema does not

Undefined == "undefined"
Blank     == ""
Localhost == "localhost"

DeployModes      == {"local", "remote"}
TranscodingModes == {"off", "cpu", "hardware"}
RequiredSecrets  == {"rdApiToken", "adminUsername", "adminPassword"}
OptionalSecrets  == {"opensubtitlesUsername", "opensubtitlesPassword"}
SecretFields     == RequiredSecrets \cup OptionalSecrets
ConfigFields     == {"mode", "domain", "acmeEmail", "acmeStaging", "transcoding"}
Fields           == ConfigFields \cup SecretFields

\* DOMAIN_PATTERN and configSchema refuse "localhost" as a public domain; what is
\* undefined or blank is neither a domain nor an address.
ASSUME SetupInputAssumption ==
  /\ {Undefined, Blank, Localhost} \cap Domains = {}
  /\ {Undefined, Blank} \cap (Emails \cup LooseEmails) = {}

NoValues  == [f \in Fields |-> Undefined]
NoSecrets == [f \in SecretFields |-> Undefined]

\* createDefaultConfig; what no command sets is one value, `rest`.
DefaultConfig ==
  [mode |-> "local", domain |-> Localhost, acmeEmail |-> Undefined,
   acmeStaging |-> Undefined, transcoding |-> "off", storage |-> FALSE,
   rest |-> "default", version |-> 0]
NoConfig == [DefaultConfig EXCEPT !.mode = "none"]

\* configSchema: readState takes no other state.json.
IsConfig(c) ==
  /\ c = [mode |-> c.mode, domain |-> c.domain, acmeEmail |-> c.acmeEmail,
          acmeStaging |-> c.acmeStaging, transcoding |-> c.transcoding,
          storage |-> c.storage, rest |-> c.rest, version |-> c.version]
  /\ c.mode \in DeployModes /\ c.transcoding \in TranscodingModes
  /\ c.mode = "local" => c.domain = Localhost
  /\ c.mode = "remote" => c.domain \in Domains
  /\ c.acmeEmail \in Emails \cup {Undefined} /\ c.acmeStaging # Blank

\* userSecretsToEnv writes no blank secret.
IsSecrets(s) == s = [f \in SecretFields |-> s[f]] /\ \A f \in SecretFields : s[f] # Blank
IsValues(v)  == v = [f \in Fields |-> v[f]]

\* mergeSetupValues: the first layer that has more than white space.
Merge(layers) ==
  [f \in Fields |->
     LET given == {i \in DOMAIN layers : layers[i][f] \notin {Undefined, Blank}}
     IN IF given = {} THEN Undefined
        ELSE layers[CHOOSE i \in given : \A j \in given : i <= j][f]]

\* explicitlyCleared: the first layer that has the field at all leaves it blank.
Clears(layers, f) ==
  \E i \in DOMAIN layers :
    layers[i][f] = Blank /\ \A j \in 1..i - 1 : layers[j][f] = Undefined

\* loadSetupSources: what an earlier setup left in the two files.
Previous(config, secrets) ==
  [f \in Fields |-> IF f \in SecretFields THEN secrets[f]
                    ELSE IF config = NoConfig THEN Undefined ELSE config[f]]

\* domainCandidate
Candidate(explicit, previous) ==
  IF explicit.domain # Undefined THEN explicit.domain
  ELSE IF previous.domain = Localhost THEN Undefined ELSE previous.domain

Or(value, default) == IF value = Undefined THEN default ELSE value

\* Issues found before the configuration is built.
InputIssues(explicit, values, candidate) ==
  {<<f, "invalid">> : f \in {g \in {"mode"} : values[g] \notin DeployModes \cup {Undefined}}}
  \cup {<<f, "invalid">> :
          f \in {g \in {"transcoding"} : values[g] \notin TranscodingModes \cup {Undefined}}}
  \cup {<<f, "missing">> : f \in {g \in RequiredSecrets : values[g] = Undefined}}
  \cup (IF values.mode # "remote" /\ explicit.domain \notin {Undefined, Localhost}
        THEN {<<"domain", "invalid">>} ELSE {})
  \cup (IF values.mode = "remote" /\ candidate = Undefined
        THEN {<<"domain", "missing">>} ELSE {})

\* parseConfig
ConfigIssues(config) ==
  (IF config.mode = "remote" /\ config.domain \notin Domains
   THEN {<<"domain", "invalid">>} ELSE {})
  \cup (IF config.acmeEmail \notin Emails \cup {Undefined}
        THEN {<<"acmeEmail", "invalid">>} ELSE {})

\* buildConfig
\* mutant
BuildConfigFromDefaults(previousConfig, values, candidate, storage) ==
  [DefaultConfig EXCEPT
     !.mode = Or(values.mode, "local"),
     !.domain = IF values.mode = "remote" THEN candidate ELSE Localhost,
     !.acmeEmail = values.acmeEmail, !.acmeStaging = values.acmeStaging,
     !.transcoding = Or(values.transcoding, "off"), !.storage = storage]
BuildConfig(previousConfig, values, candidate, storage) ==
  [(IF previousConfig = NoConfig THEN DefaultConfig ELSE previousConfig) EXCEPT
     !.mode = Or(values.mode, "local"),
     !.domain = IF values.mode = "remote" THEN candidate ELSE Localhost,
     !.acmeEmail = values.acmeEmail, !.acmeStaging = values.acmeStaging,
     !.transcoding = Or(values.transcoding, "off"), !.storage = storage]

\* resolveSetupInput, for the sources, the answers of the wizard and the FUSE
\* check of this moment.
Resolve(sources, answers, storage) ==
  LET asked     == <<answers, sources.flags, sources.envFile>>
      explicit  == Merge(asked)
      previous  == Previous(sources.config, sources.secrets)
      merged    == Merge(asked \o <<previous>>)
      cleared   == {f \in OptionalSecrets : Clears(asked, f)}
      values    == [f \in Fields |-> IF f \in cleared THEN Undefined ELSE merged[f]]
      candidate == Candidate(explicit, previous)
      config    == BuildConfig(sources.config, values, candidate, storage)
      first     == InputIssues(explicit, values, candidate)
      issues    == IF first # {} THEN first ELSE ConfigIssues(config)
  IN [issues |-> issues, config |-> config,
      secrets |-> [f \in SecretFields |-> values[f]], cleared |-> cleared,
      draft |-> [values EXCEPT !.domain = candidate]]
-----------------------------------------------------------------------------
(* setup.questions.ts, SetupWizardView.tsx                                  *)

Questions ==
  <<"mode", "domain", "acmeEmail", "rdApiToken", "adminUsername", "adminPassword",
    "opensubtitlesUsername", "opensubtitlesPassword", "transcoding">>

\* applies
Applies(key, known) ==
  /\ known[key] = Undefined
  /\ key \in {"domain", "acmeEmail"} => known.mode = "remote"
  /\ key = "opensubtitlesPassword" => known.opensubtitlesUsername # Undefined

\* The draft with the answers so far.
\* mutant
KnownOfDraft(draft, answers) == draft
Known(draft, answers) == [f \in Fields |-> Or(answers[f], draft[f])]

\* nextSetupQuestion
Open(known, answered) ==
  {i \in DOMAIN Questions : Questions[i] \notin answered /\ Applies(Questions[i], known)}
NextQuestion(known, answered) ==
  Questions[CHOOSE i \in Open(known, answered) : \A j \in Open(known, answered) : i <= j]

\* What the prompts let through: a choice, a checked text, a text that may be
\* skipped, a text that may not.
Answers(key) ==
  CASE key = "mode"        -> DeployModes
    [] key = "transcoding" -> TranscodingModes
    [] key = "domain"      -> Domains
    [] key = "acmeEmail"   -> Emails \cup LooseEmails \cup {Blank}
    [] key = "opensubtitlesUsername" -> {"typed", Blank}
    [] OTHER               -> {"typed"}
=============================================================================
