CONSTANTS
  Conn = {c1, c2}
  OperationId = {o1, o2}
  Payload = {p}
  MaxStored = 3
SPECIFICATION StoreFairSpec
INVARIANTS
  OneOriginalPerOperation
  AcknowledgedIsDurable
  RefusalIsTrue
PROPERTIES
  ImplementsLog
  EveryAppendReturns
