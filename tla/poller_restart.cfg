\* Two workers, queues of one and two, a restart, everything that may fail.
SPECIFICATION Spec
CONSTANTS
  UpdateCount = 4
  Source <- MCSource
  WorkerCount = 2
  Partition <- MCPartition
  PollLimit = 2
  QueueMax = 2
  MaxStarts = 2
  Disturbances = {"crash", "worker_error", "telegram_error", "slow_drain"}
INVARIANTS TypeOK OffsetCoversPublished DrainedAllPublished
PROPERTIES SourceOrder DeliveryKept
\* The bound on the starts ends this specification.
CHECK_DEADLOCK FALSE
