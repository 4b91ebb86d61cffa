SPECIFICATION Spec
CONSTANTS
  Sessions = {s1, s2}
  Runners = {s1}
  SuccessScore = 20
  FailureScore = 1
  TimeoutScore = 0
  MissingScore = 6
  AcceptThreshold = 19
  PruneThreshold = 3
  LlmCritic = TRUE
  MaxCrashes = 1
INVARIANT UnexplainedAsksModel
