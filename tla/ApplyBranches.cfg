SPECIFICATION BranchSpec
CONSTANTS
  Branch <- MCBranch
  Foreign = "human"
  Field <- MCField
  Value = {"off", "on", "bad"}
  Permissive = "off"
  Unparsable = "bad"
  Extra = {"unset", "set"}
  NoExtra = "unset"
  None = None
  MaxRulesets = 5
  MaxEdits = 0
  Declared <- MCBoth
  Enforcement <- MCEnforcement
  Desired <- MCDesired
  StrictBranch <- MCManaged
  Strict = TRUE
  DesiredSetting <- MCNoSettings
  Unreadable = {}
  Unlicensed = {}
  MaxFaults = 2
INVARIANTS
  TypeOK
  JournalIsTrue
  BranchWritesAreReported
  ExitZeroMeansCompliant
  NoDuplicateRulesets
  ApplyDoesAllItCan
PROPERTIES
  PlansBeforeWriting
  CompliantIsLeftAlone
  OthersAreLeftAlone
  UndeclaredIsKept
  KeepsItsPromise
  RepairIsFinal
