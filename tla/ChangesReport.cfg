SPECIFICATION ReportSpec
CONSTANTS
  Branch <- MCBranch
  Foreign = "human"
  Field <- MCField
  Value = {"off", "on"}
  Permissive = "off"
  Unparsable = "bad"
  Extra = {"unset", "set"}
  NoExtra = "unset"
  None = None
  MaxRulesets = 5
  MaxEdits = 0
  Declared <- MCMain
  Enforcement <- MCEnforcement
  Desired <- MCDesired
  StrictBranch <- MCManaged
  Strict = TRUE
  DesiredSetting <- MCSettings
  Unreadable = {}
  Unlicensed = {}
  MaxFaults = 1
INVARIANTS
  ChangesAreReported
