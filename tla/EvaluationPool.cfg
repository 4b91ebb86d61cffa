SPECIFICATION FairSpec
CONSTANTS
  BatchSize = 4
  EvaluationWorkers = 3
  Verdicts = {v1, v2}
  Fault = Fault
INVARIANT NoFutureIsLost
INVARIANT QuietOnceAnswered
PROPERTY AnswersLikeALoop
PROPERTY BatchAnswered
