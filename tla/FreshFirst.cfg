SPECIFICATION Spec
CONSTANTS
  Task = task
  Blank = blankText
  ScoreScale = 10
  EvaluationWeight = 7
  CritiqueWeight = 2
  DepthWeight = 1
  DepthHorizon = 16
  a = a
  b = b
  padded = padded
  blank = blank
  Texts = {a, b}
  Guidance = {"g"}
  MaxAttempts = 0
  RequireGuidance = TRUE
  RewardModel = FALSE
  Exploring = TRUE
  MaxIterations = 3
  MaxDepth = 3
  BranchingFactor = 2
  AcceptThreshold = 9
  PruneThreshold = 0
  Strip <- MCPlainStrip
  MaxReturned = 2
  Verdicts <- MCOpenVerdicts
  Critiques <- MCNoCritiques
  Cancellable = FALSE
  WallBudget = FALSE
  StopCondition = FALSE
  Faults = {}
  SinkMayRaise = FALSE
PROPERTY FreshCandidatesFirst
