SPECIFICATION Spec
CONSTANTS
  j1 = j1
  r1 = r1
  r2 = r2
  NoSource = NoSource
  JobIds <- OneJob
  Uploads <- OneJob
  Requests <- TwoRequests
  Instances <- ScopedInstances
  ServiceFor <- ScopedService
  MaxFiles = 2
  MaxFaults = 0
  MaxRestarts = 0
CHECK_DEADLOCK FALSE
INVARIANT AcceptedCancelMeansCancelled
