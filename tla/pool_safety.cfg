SPECIFICATION Spec
CONSTANTS
  MaxJobs = 1
  Jobs <- MCJobs
  Workers = {w1, w2, w3}
  NoJob = NoJob
  NoWorker = NoWorker
  CodeJobs = {1}
  CancelJobs = {1}
  Concurrency = 1
  Flaky = {w1}
  FaultyJobs = {1}
INVARIANTS NoFalseReap ResultMatchesGitHub
PROPERTIES SettledIsTerminal LateResultsDropped LifecycleSpec
SYMMETRY WorkerSymmetry
