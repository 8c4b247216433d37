CONSTANTS
  T1 = T1
  T2 = T2
  Metrics = Metrics
  Ingestor = Ingestor
  NonFinite = NonFinite
  NotANumber = NotANumber
  Threads <- MCThreads
  Callers <- MCThreads
  Names <- MCNames
  EventIds <- MCEventIds
  Raw <- MCRaw
  CleanId <- MCCleanId
  Decisions <- MCDecisions
  Overrides <- MCOverrides
  Window <- MCWindow
  MaxLen = 1
  MaxFailures = 2
  MaxSubscriptions = 2
  MaxDrained = 1
  BatchSize = 2
  Attempts = 2
  DeadLetterMax = 1
  MaxRecords = 3
  MaxStoreFaults = 2
  MaxReplayEvents = 3
  Now = 2
SPECIFICATION Spec
INVARIANTS
  EventsAccounted
  StoredOncePerAttempt
  RemovedAfterFailures
  EmittedIsIngested
  ReplayIgnoresArrival
  SimulationAgrees
SYMMETRY MCSymmetry
CHECK_DEADLOCK FALSE
