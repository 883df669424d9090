SPECIFICATION Spec
CONSTANTS
  MaxJobs = 1
  Jobs <- MCJobs
  Workers = {w1}
  NoJob = NoJob
  NoWorker = NoWorker
  CodeJobs = {1}
  CancelJobs = {1}
  Concurrency = 1
  Flaky = {}
  FaultyJobs = {}
INVARIANTS CancelledRunIsFlagged
