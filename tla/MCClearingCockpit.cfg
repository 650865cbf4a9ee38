CONSTANTS
  Payload <- Payloads
  Threshold = 2
  OperationId = {o1, o2}
  Picture <- GatePictures
  None = None
  Report <- Reports
  Stated <- Positions
  MaxPerBeat = 2
  MaxRecords = 3
  MaxEscalations = 2
  MaxTickets = 2
SPECIFICATION Spec
INVARIANTS
  OneDecisionPerOperation
  EmittedIsGoverned
  EachBreachEscalated
