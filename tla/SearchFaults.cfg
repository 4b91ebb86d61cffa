SPECIFICATION Spec
CONSTANTS
  Task = task
  Blank = blankText
  ScoreScale = 10
  EvaluationWeight = 7
  CritiqueWeight = 2
  DepthWeight = 1
  DepthHorizon = 16
  a = a
  b = b
  padded = padded
  blank = blank
  Texts = {a, b}
  Guidance = {"g"}
  MaxAttempts = 1
  RequireGuidance = TRUE
  RewardModel = TRUE
  Exploring = TRUE
  MaxIterations = 3
  MaxDepth = 2
  BranchingFactor = 2
  AcceptThreshold = 9
  PruneThreshold = 2
  Strip <- MCPlainStrip
  MaxReturned = 2
  Verdicts <- MCFewVerdicts
  Critiques <- MCOneCritique
  Cancellable = TRUE
  WallBudget = TRUE
  StopCondition = TRUE
  Faults = {"check","revise","generate","evaluate","critique","shape"}
  SinkMayRaise = TRUE
INVARIANT FaultContainment
INVARIANT StopsPromptly
INVARIANT IterationsAreExpansions
INVARIANT ReplayLagsOnlyBeforeExpansion
PROPERTY MachineSpec
INVARIANT ArchiveFaithful
INVARIANT MetricsAgree
PROPERTY ImplementsLifecycle
