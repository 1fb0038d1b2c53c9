SPECIFICATION WriterSpec
CONSTANTS
  Events = {e1}
  BatchRows = 2
  MaxRetries = 2
  MaxLog = 4
INVARIANTS CommittedIsKept
