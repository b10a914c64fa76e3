\* One busy chat: failing workers, full queues, an expiring shutdown timeout.
SPECIFICATION FairSpec
CONSTANTS
  UpdateCount = 5
  Source <- MCBusySource
  WorkerCount = 2
  Partition <- MCPartition
  PollLimit = 2
  QueueMax = 1
  MaxStarts = 1
  Disturbances = {"worker_error", "slow_drain"}
PROPERTIES FailureEndsProcess ShutdownCompletes UpdatesMoveOn
\* The bound on the starts ends this specification.
CHECK_DEADLOCK FALSE
