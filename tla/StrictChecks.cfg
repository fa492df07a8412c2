SPECIFICATION MCSpec
CONSTANTS
  Actor <- MCActor
  Context <- MCContext
  Order = {"asc", "desc"}
  None = None
  Undeclared = Undeclared
  App = {"actions", "jenkins"}
  Unmodelled = {"queue"}
PROPERTIES
  StrictChecksAreKept
