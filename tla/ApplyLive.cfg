SPECIFICATION LiveSpec
CONSTANTS
  Branch <- MCBranch
  Foreign = "human"
  Field <- MCField
  Value = {"off", "on"}
  Permissive = "off"
  Unparsable = "bad"
  Extra = {"unset", "set"}
  NoExtra = "unset"
  None = None
  MaxRulesets = 5
  MaxEdits = 0
  Declared <- MCBoth
  Enforcement <- MCEnforcement
  Desired <- MCDesired
  StrictBranch <- MCStrict
  Strict = TRUE
  DesiredSetting <- MCSettings
  Unreadable = {}
  Unlicensed = {}
  MaxFaults = 2
PROPERTIES
  RunsEnd
  ReapplyingConverges
  KeepsItsPromise
