SPECIFICATION FairSpec
CONSTANT MaxRetries = 3
INVARIANTS
  TypeOK
  CreatesAtMostOnce
  GivesUpOnlyWhenSpent
PROPERTIES
  ImplementsOneCall
  EveryCallEnds
