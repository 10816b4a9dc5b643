SPECIFICATION MCSpec
CHECK_DEADLOCK FALSE
CONSTANTS
  one = one
  two = two
  Procs = {one, two}
  Versions <- MCVersions
  Scenarios <- MCCommands
  Ttl = 2
  Domains = {"old.org", "new.org"}
  Emails = {"old@org", "new@org"}
  LooseEmails = {"x@y.z"}
INVARIANTS NewsIsFresh NewerIsNewer KeysAreKept SetupRepairs OnlyAskedIsChanged WizardAsksWhatIsMissing
