SPECIFICATION EditSpec
CONSTANTS
  Branch <- MCBranch
  Foreign = "human"
  Field <- MCField
  Value = {"off", "on"}
  Permissive = "off"
  Unparsable = "bad"
  Extra = {"unset", "set"}
  NoExtra = "unset"
  None = None
  MaxRulesets = 5
  MaxEdits = 1
  Declared <- MCBoth
  Enforcement <- MCEnforcement
  Desired <- MCDesired
  StrictBranch <- MCManaged
  Strict = TRUE
  DesiredSetting <- MCNoSettings
  Unreadable = {}
  Unlicensed = {}
  MaxFaults = 0
PROPERTIES
  UndeclaredIsKept
