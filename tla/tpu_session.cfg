\* Sessions with inferences, and two faults.
SPECIFICATION SessionSpec
CONSTANTS
  Blocks = 2
  DfuQueue = 4
  DfuFaults = 2
  Packages <- MCPackages
  TokenOf <- MCTokenOf
  NoPackage = NoPackage
INVARIANTS
  BootsWholeImage
  FewFailures
  RightParameters
PROPERTIES
  RetriesSucceed
\* An OpenDevice that is told nothing polls for ever, and a failed CHECK halts.
CHECK_DEADLOCK FALSE
