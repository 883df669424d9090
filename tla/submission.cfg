SPECIFICATION ClientsSpec
CONSTANTS
  Requests = {q1, q2}
  FromForm = {q2}
  WithFiles = {q1}
  Unwanted = {q1}
  maxUsd = 2
  monthlyCapUsd = 3
  Costs = {1, 2}
INVARIANTS AnswersAreHonest BlockedOnlyByOthers ToldIsTrue
CHECK_DEADLOCK FALSE
