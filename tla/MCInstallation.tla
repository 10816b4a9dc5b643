---------------------------- MODULE MCInstallation ----------------------------
(***************************************************************************)
(* Instances of Installation for TLC.  A scenario gives the two files, the  *)
(* keys Jellyfin knows, the commands each terminal runs one after the other,*)
(* how often the surroundings may change and how often a command may stop.  *)
(***************************************************************************)
EXTENDS Installation, TLC

CONSTANTS one, two

Word(rank)   == [numeric |-> FALSE, rank |-> rank]
Number(rank) == [numeric |-> TRUE, rank |-> rank]
Alpha == Word(1)
Beta  == Word(2)
Rc    == Word(3)
Version(core, pre) == [core |-> core, pre |-> pre]

\* The releases in the order section 11 of Semantic Versioning gives, and one of
\* each number of the core.
MCVersions ==
  <<Version(<<1, 0, 0>>, <<Number(4)>>), Version(<<1, 0, 0>>, <<Alpha>>),
    Version(<<1, 0, 0>>, <<Alpha, Number(1)>>), Version(<<1, 0, 0>>, <<Alpha, Beta>>),
    Version(<<1, 0, 0>>, <<Beta>>), Version(<<1, 0, 0>>, <<Beta, Number(2)>>),
    Version(<<1, 0, 0>>, <<Beta, Number(11)>>), Version(<<1, 0, 0>>, <<Rc, Number(1)>>),
    Version(<<1, 0, 0>>, <<>>), Version(<<1, 0, 10>>, <<Rc>>), Version(<<1, 0, 10>>, <<>>),
    Version(<<1, 9, 0>>, <<>>), Version(<<1, 10, 0>>, <<>>), Version(<<2, 0, 0>>, <<>>)>>

\* What the files hold.
Secrets(value) == [f \in SecretFields |-> IF f \in RequiredSecrets THEN value ELSE Undefined]
Both(value)    == [f \in SecretFields |-> value]
Local  == [DefaultConfig EXCEPT !.rest = "chosen", !.version = 1]
Public == [Local EXCEPT !.mode = "remote", !.domain = "old.org", !.acmeEmail = "old@org",
                        !.acmeStaging = "staging", !.transcoding = "hardware",
                        !.storage = TRUE]
Saved(config) == [config |-> config, cache |-> [at |-> 0, release |-> 2]]
Env(config, secrets) ==
  [home |-> TRUE, domain |-> config.domain, storage |-> config.storage,
   secrets |-> secrets, keys |-> 1, jellyfin |-> 1]

\* The commands.
Values(f, v) == [NoValues EXCEPT ![f] = v]
Setup    == [NoJob EXCEPT !.kind = "setup", !.fuse = BOOLEAN]
Complete == [f \in Fields |-> IF f \in RequiredSecrets THEN "new" ELSE Undefined]
Wizard   == [Setup EXCEPT !.interactive = TRUE]
Config(value) == [NoJob EXCEPT !.kind = "config", !.value = value, !.interactive = TRUE]
Reset    == [NoJob EXCEPT !.kind = "reset", !.yes = TRUE]
Redeploy == [NoJob EXCEPT !.kind = "redeploy"]
Check    == [NoJob EXCEPT !.kind = "check", !.useCache = TRUE]

\* Options a setup may be given.
Options ==
  {NoValues, Values("mode", "local"), Values("domain", "new.org"), Values("domain", "bad name"),
   Values("mode", "other"), Values("acmeEmail", "new@org"), Values("acmeEmail", "x@y.z"),
   Values("acmeStaging", "staging"), Values("transcoding", "cpu"),
   Values("opensubtitlesUsername", Blank), Values("opensubtitlesPassword", "new"),
   Values("rdApiToken", "new"), [Values("mode", "remote") EXCEPT !.domain = "new.org"],
   Values("mode", "remote")}

Scenario(from, variables, keys, first, second, moves, ends) ==
  [state |-> from, env |-> variables, live |-> keys,
   jobs |-> (one :> first) @@ (two :> second),
   cli |-> 2, latest |-> 3, changes |-> moves, stops |-> ends]
Fresh(first, second, ends) == Scenario(NoState, NoEnv, {}, first, second, 0, ends)
Installed(config, first, second, ends) ==
  Scenario(Saved(config), Env(config, Both("old")), {1}, first, second, 0, ends)

\* A wizard on a new machine, told some things beforehand.
Wizards ==
  {Fresh(<<[Wizard EXCEPT !.flags = o, !.envFile = e, !.yes = y]>>, <<>>, 1) :
     o \in Options, e \in {NoValues, Complete}, y \in BOOLEAN}

\* A setup with options, which may stop anywhere, and the one that repairs it.
Repairs ==
  {Installed(c, <<[Setup EXCEPT !.flags = o, !.envFile = e]>>, <<Setup>>, 1) :
     c \in {Local, Public}, o \in Options, e \in {NoValues, Values("opensubtitlesUsername", "new")}}
  \cup {Fresh(<<[Setup EXCEPT !.flags = Complete], Setup>>, <<Reset>>, 2)}
  \cup {Installed(Public, <<job>>, <<Setup>>, 1) :
          job \in {Reset, [Reset EXCEPT !.yes = FALSE, !.interactive = TRUE], Redeploy,
                   Config("cpu"), [Config("off") EXCEPT !.interactive = FALSE]}}

\* Two commands at once.
Pairs ==
  {Installed(Local, <<a>>, <<b>>, 1) :
     a \in {[Setup EXCEPT !.flags = Values("acmeStaging", "staging"), !.fuse = {FALSE}], Reset},
     b \in {Config("cpu"), Redeploy, Reset, Check}}
  \cup {Fresh(<<a>>, <<[Setup EXCEPT !.flags = Complete, !.fuse = {TRUE}]>>, 0) :
          a \in {[Setup EXCEPT !.flags = Complete, !.fuse = {TRUE}]}}

\* Every pair of versions; then checks that follow each other, or overlap with a
\* change of the configuration, while releases appear and the clock moves.
Compared ==
  {[Fresh(<<Check>>, <<>>, 0) EXCEPT !.cli = c, !.latest = l] : c, l \in Releases}
Checks ==
  {Scenario(Saved(Local), Env(Local, Both("old")), {1}, <<Check, Check>>, <<b>>, 5, 0) :
     b \in {Check, Config("cpu")}}

MCCommands == Wizards \cup Repairs \cup Pairs \cup Compared \cup Checks
MCOverlap  == {Scenario(Saved(Local), Env(Local, Both("old")), {1}, <<Check>>, <<Config("cpu")>>, 2, 0)}

MCSpec == Init /\ [][Next]_vars
=============================================================================
