CONSTANTS
  None = None
  FirstMsg = FirstMsg
  SecondMsg = SecondMsg
  FirstId = FirstId
  SecondId = SecondId
  StrangeId = StrangeId
  Envelope <- Envelopes
  CashDecision <- CashDecisions
  ControlResult <- ControlResults
  ParticipantRegistry <- Registries
  Instruction <- InstructionsStated
  Receipt <- ReceiptsGiven
  Entry <- Entries
  Report <- Reports
  MaxAccepted = 2
  MaxReceipts = 2
  MaxReports = 2
  Nobody = Nobody
  Unreadable = Unreadable
  Actor = {"ann", "ben", "eve"}
  Authenticated = {"ann", "ben"}
  BreakId = {"b1", "b2"}
  Intake <- Intakes
  MaxTime = 2
  MaxOwners = 3
  Execution <- Executions
  OutputPayload <- OutputPayloads
SPECIFICATION LifecycleSpec
INVARIANTS
  FinalityIsEarned
  EveryEntryAccounted
  ReadersAgree
  ClosedByAnOwner
PROPERTIES
  ReversalIsNeverClean
CHECK_DEADLOCK FALSE
