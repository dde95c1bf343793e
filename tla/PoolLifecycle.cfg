SPECIFICATION Spec
CONSTANTS
  t1 = t1
  t2 = t2
  t3 = t3
  Task = {t1, t3}
  Wap <- MCWap
  Unified <- MCUnified
  PoolSize = 2
  WarmCount = 2
  MaxInits = 2
  MaxDestroys = 1
  MaxDeaths = 0
INVARIANT NoTaskLost
INVARIANT ProvedOnce
INVARIANT NoThreadLeak
CHECK_DEADLOCK FALSE
