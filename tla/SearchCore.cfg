SPECIFICATION FairSpec
CONSTANTS
  Task = task
  Blank = blankText
  ScoreScale = 10
  EvaluationWeight = 7
  CritiqueWeight = 2
  DepthWeight = 1
  DepthHorizon = 16
  a = a
  b = b
  padded = padded
  blank = blank
  Texts = {a, b}
  Guidance = {"g"}
  MaxAttempts = 1
  RequireGuidance = TRUE
  RewardModel = TRUE
  Exploring = TRUE
  MaxIterations = 4
  MaxDepth = 2
  BranchingFactor = 2
  AcceptThreshold = 9
  PruneThreshold = 2
  Strip <- MCStrip
  MaxReturned = 3
  Verdicts <- MCCoreVerdicts
  Critiques <- MCCritiques
  Cancellable = FALSE
  WallBudget = FALSE
  StopCondition = FALSE
  Faults = {"check","revise","generate","evaluate","critique","shape"}
  SinkMayRaise = FALSE
INVARIANT TypeOK
INVARIANT LiveAncestors
INVARIANT ExpansionBounds
INVARIANT Conservation
INVARIANT AcceptanceIsFinal
INVARIANT RevisionAccounting
PROPERTY RestartsShrinkFrontier
PROPERTY RunTerminates
PROPERTY EveryStepCountsDown
