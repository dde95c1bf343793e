SPECIFICATION FairSpec
CONSTANTS
  t1 = t1
  t2 = t2
  t3 = t3
  Task = {t1, t2, t3}
  Wap <- MCWap
  Unified <- MCUnified
  PoolSize = 2
  WarmCount = 2
  MaxInits = 1
  MaxDestroys = 0
  MaxDeaths = 1
INVARIANT OneTaskPerWorker
INVARIANT SentInOrder
INVARIANT StrandedOnlyByLateAnswer
PROPERTY ImplementsContract
PROPERTY CallSettles
CHECK_DEADLOCK FALSE
