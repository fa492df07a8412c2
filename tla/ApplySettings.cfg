SPECIFICATION SettingsSpec
CONSTANTS
  Branch <- MCBranch
  Foreign = "human"
  Field <- MCField
  Value = {"off", "on"}
  Permissive = "off"
  Unparsable = "bad"
  Extra = {"unset", "set"}
  NoExtra = "unset"
  None = None
  MaxRulesets = 5
  MaxEdits = 0
  Declared <- MCMain
  Enforcement <- MCEnforcement
  Desired <- MCDesired
  StrictBranch <- MCManaged
  Strict = FALSE
  DesiredSetting <- MCSettings
  Unreadable = {"private_vulnerability_reporting", "delete_branch_on_merge"}
  Unlicensed = {"security_and_analysis"}
  MaxFaults = 1
INVARIANTS
  JournalIsTrue
  NeedsAreMet
  BranchWritesAreReported
  ApplyDoesAllItCan
PROPERTIES
  KeepsItsPromise
