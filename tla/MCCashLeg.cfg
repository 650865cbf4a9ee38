CONSTANTS
  None = None
  NotFinite = NotFinite
  MCMaxRecords = 1
  MaxRecords <- MCMaxRecords
  Tables <- MCTables
  Thresholds <- MCThresholds
  Sanctioned <- MCSanctioned
  Situations <- MCSituations
  Later <- MCLater
SPECIFICATION Spec
INVARIANTS
  ProceedIsFunded
  RecommendedCanCarry
  RoutedIsGoverned
