SPECIFICATION FairSpec
CONSTANTS
  t1 = t1
  t2 = t2
  k1 = k1
  k2 = k2
  Threads = {t1, t2}
  Clients = {k1, k2}
  Assignments <- MCAssignments
  Requests = {"a", "b", "c", "s"}
  Sampled = {"s"}
  Tokens = {1}
  MaxEntries = 2
  MaxRetries = 1
  MaxTotalTokens = 2
  MaxCalls = 3
  MaxIterations <- MCMaxIterations
  MaxCritiques = 1
  Prompt = {t1}
INVARIANT TypeOK
INVARIANT CacheIsLru
INVARIANT UsageHonest
INVARIANT OvershootBounded
PROPERTY PromptRunsFinish
