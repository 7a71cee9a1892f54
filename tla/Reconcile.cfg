SPECIFICATION Spec
CONSTANTS
  Inventories <- MCPackages
  MaxVersion = 3
INVARIANTS StaleIsReal GreenPackageIsReleased AbsenceIsReal
CHECK_DEADLOCK FALSE
