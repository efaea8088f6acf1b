\* Two requests, two workers and one fault.
SPECIFICATION Spec
CONSTANTS
  None = None
  RequestCount = 2
  WorkerCount = 2
  MaxFaults = 1
INVARIANT WinnerStays
PROPERTY ImplementsSafeDeletion
PROPERTY DeletionCompletes
CHECK_DEADLOCK FALSE
