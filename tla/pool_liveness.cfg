SPECIFICATION FairSpec
CONSTANTS
  MaxJobs = 2
  Jobs <- MCJobs
  Workers = {w1, w2}
  NoJob = NoJob
  NoWorker = NoWorker
  CodeJobs = {}
  CancelJobs = {}
  Concurrency = 1
  Flaky = {}
  FaultyJobs = {1}
INVARIANTS OneExecutor SlotsBound
PROPERTIES QueuedJobsStart ClaimedJobsEnd
CHECK_DEADLOCK FALSE
